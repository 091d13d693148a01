---------------------------- MODULE DeployProofs ----------------------------
(***************************************************************************)
(* Proofs about Deploy for every number of functions, event sources, runs  *)
(* and versions of the project.                                            *)
(***************************************************************************)
EXTENDS Deploy, TLAPS

\* The code a configuration follows is of this very run, and nothing at the
\* service is of a run that has not begun.
CodeBeforeConfiguration ==
  /\ pc = "configuration" => code[cur].run = run
  /\ \A f \in 1..Functions :
       code[f].run <= run /\ \A s \in Settings : config[f][s].run <= code[f].run

\* The functions the loop has still to come to, and the settings that an update
\* does not send, have nothing of this run.
NotYetConfigured ==
  pc \in Calling => \A f \in 1..Functions, s \in Settings :
    \/ f > cur
    \/ f = cur /\ pc \in {"exists", "code"}
    \/ f = cur /\ pc = "configuration" /\ s \notin Sent(cur)
    => config[f][s].run < run

\* The triggers of a function are created by the run that created it.
CreatedByThisRun ==
  pc \in {"brn", "trigger"} /\ cur \notin denied =>
    code[cur].run = run /\ \A s \in Settings : config[cur][s] = Upload(template)

\* A trigger is created by the run that created its function, or in doubt: the
\* event sources still ahead have no trigger yet.
TriggersFollow ==
  /\ pc \in Calling => run > 0
  /\ \A f \in 1..Functions :
       code[f] = Nothing => \A t \in 1..Triggers : triggers[f][t] = 0
  /\ pc = "brn" =>
       cur \in doubt \/ \A t \in 1..Triggers : triggers[cur][t] = 0
  /\ pc = "trigger" =>
       /\ code[cur] # Nothing
       /\ cur \in doubt \/ \A t \in 1..Triggers : t >= nth => triggers[cur][t] = 0

DeployInv ==
  /\ TypeOK
  /\ CodeBeforeConfiguration
  /\ NotYetConfigured
  /\ DoneIsUploaded
  /\ CreatedByThisRun
  /\ TriggersFollow
  /\ SecondCopyNeedsDoubt

-----------------------------------------------------------------------------
LEMMA InitDeployInv == Init => DeployInv
<1> SUFFICES ASSUME Init PROVE DeployInv
  OBVIOUS
<1> USE DeployAssumption
<1>1. TypeOK
  BY DEF Init, TypeOK, Uploads, Nothing, NoZip, Torn, Versions, Resting, Configuration
<1>2. CodeBeforeConfiguration
  BY DEF Init, CodeBeforeConfiguration, Nothing, Configuration
<1>3. DoneIsUploaded
  BY DEF Init, DoneIsUploaded
<1>4. CreatedByThisRun /\ TriggersFollow /\ NotYetConfigured
  BY DEF Init, CreatedByThisRun, TriggersFollow, NotYetConfigured, Calling
<1>5. SecondCopyNeedsDoubt
  BY DEF Init, SecondCopyNeedsDoubt
<1> QED
  BY <1>1, <1>2, <1>3, <1>4, <1>5 DEF DeployInv

\* What an upload is, and that the first one makes the function exist.
LEMMA UploadType ==
  ASSUME TypeOK, NEW v \in Versions
  PROVE  /\ Upload(v) \in Uploads /\ Upload(v).run = run
         /\ run > 0 => Upload(v) # Nothing
BY DeployAssumption DEF TypeOK, Uploads, Upload, Nothing

\* What the service has of the current function's settings after an update or a
\* creation that took effect.
LEMMA ConfigurationType ==
  ASSUME TypeOK, NEW new \in {Updated(config[cur]), Configuration(Upload(template))},
         config' = [config EXCEPT ![cur] = new]
  PROVE  /\ config' \in [1..Functions -> [Settings -> Uploads]]
         /\ \A f \in 1..Functions : f # cur => config'[f] = config[f]
         /\ \A s \in Settings :
              /\ config'[cur][s] = Upload(template)
                 \/ (s \notin Sent(cur) /\ config'[cur][s] = config[cur][s])
              /\ new = Configuration(Upload(template)) => config'[cur][s] = Upload(template)
<1>1. template \in Versions /\ Upload(template) \in Uploads
  <2>1. template \in Versions
    BY DeployAssumption DEF TypeOK, Versions, Torn
  <2> QED
    BY <2>1, UploadType
<1>2. config[cur] \in [Settings -> Uploads] /\ cur \in 1..Functions
  BY DEF TypeOK
<1>3. new \in [Settings -> Uploads]
  BY <1>1, <1>2 DEF Updated, Configuration
<1>4. config'[cur] = new /\ \A f \in 1..Functions : f # cur => config'[f] = config[f]
  BY <1>2 DEF TypeOK
<1>5. \A s \in Settings :
        /\ new[s] = Upload(template) \/ (s \notin Sent(cur) /\ new[s] = config[cur][s])
        /\ new = Configuration(Upload(template)) => new[s] = Upload(template)
  <2>1. CASE new = Configuration(Upload(template))
    BY <2>1 DEF Configuration
  <2>2. CASE new = Updated(config[cur])
    <3>1. \A s \in Settings :
            new[s] = IF s \in Sent(cur) THEN Upload(template) ELSE config[cur][s]
      BY <2>2 DEF Updated
    <3>2. new = Configuration(Upload(template)) => \A s \in Settings : new[s] = Upload(template)
      BY DEF Configuration
    <3> QED
      BY <3>1, <3>2
  <2> QED
    BY <2>1, <2>2
<1> QED
  BY <1>3, <1>4, <1>5 DEF TypeOK

\* Where the loop over the functions goes on.
LEMMA NextFunctionType ==
  ASSUME TypeOK, NEW first, NextFunction(first)
  PROVE  pc' \in {"finished", first} /\ cur' \in 1..Functions /\ UNCHANGED nth
<1>1. CASE cur = Functions
  BY <1>1, DeployAssumption DEF TypeOK, NextFunction
<1>2. CASE cur # Functions
  BY <1>2, DeployAssumption DEF TypeOK, NextFunction
<1> QED
  BY <1>1, <1>2

LEMMA DeployDoneType ==
  ASSUME TypeOK, DeployDone
  PROVE  /\ pc' \in {"finished", "exists"} /\ cur' \in 1..Functions /\ UNCHANGED nth
         /\ done' \subseteq 1..Functions /\ done' \subseteq done \cup {cur}
<1>1. done' = done \cup {cur} /\ NextFunction("exists")
  BY DEF DeployDone
<1> QED
  BY <1>1, NextFunctionType DEF TypeOK

LEMMA TypeStep == TypeOK /\ [Next]_vars => TypeOK'
<1> SUFFICES ASSUME TypeOK, [Next]_vars PROVE TypeOK'
  OBVIOUS
<1> USE DeployAssumption
<1>d. Versions = 0..(MaxEdits + 1) /\ Torn \in Versions /\ NoZip \in Versions
      /\ edit \in Versions /\ template \in Versions /\ zip[cur] \in Versions
  BY DEF Versions, Torn, NoZip, TypeOK
<1>u. \A v \in Versions : Upload(v) \in Uploads
  BY UploadType
<1>1. CASE Edit
  BY SMTT(40), <1>1 DEF Edit, TypeOK, service, history
<1>2. CASE StartPackage
  BY SMTT(40), <1>2 DEF StartPackage, TypeOK, service, history, Packaging
<1>3. CASE OpenZip
  BY <1>3, <1>d DEF OpenZip, TypeOK, service, history, Packaging, Goto
<1>4. CASE WriteZip
  <2>1. zip' \in [1..Functions -> Versions]
    BY <1>4, <1>d DEF WriteZip, TypeOK
  <2>2. pc' \in {"finished", "failed", "open"} /\ cur' \in 1..Functions /\ UNCHANGED nth
    BY <1>4, NextFunctionType DEF WriteZip, Goto, TypeOK
  <2> QED
    BY <1>4, <2>1, <2>2 DEF WriteZip, TypeOK, service, history, Packaging, Resting
<1>5. CASE StartDeploy
  BY <1>5 DEF StartDeploy, TypeOK, service, Calling
<1>6. CASE CheckIfExist
  BY <1>6 DEF CheckIfExist, TypeOK, service, history, Calling, Goto
<1>7. CASE UpdateCode
  <2>1. code' \in [1..Functions -> Uploads]
    BY <1>7, <1>d, <1>u DEF UpdateCode, TypeOK
  <2>2. /\ pc' \in {"failed", "configuration", "code", "finished", "exists"}
        /\ cur' \in 1..Functions /\ UNCHANGED nth
        /\ done' \subseteq 1..Functions /\ denied' \subseteq 1..Functions
    BY <1>7, DeployDoneType DEF UpdateCode, TypeOK, Fail, Proceed, Goto, Forbidden
  <2> QED
    BY <1>7, <2>1, <2>2 DEF UpdateCode, TypeOK, Calling, Resting
<1>8. CASE UpdateConfiguration
  <2>1. config' \in [1..Functions -> [Settings -> Uploads]]
    BY <1>8, ConfigurationType DEF UpdateConfiguration, TypeOK
  <2>2. /\ pc' \in {"failed", "configuration", "finished", "exists"}
        /\ cur' \in 1..Functions /\ UNCHANGED nth
        /\ done' \subseteq 1..Functions /\ denied' \subseteq 1..Functions
    BY <1>8, DeployDoneType DEF UpdateConfiguration, TypeOK, Fail, Proceed, Goto, Forbidden
  <2> QED
    BY <1>8, <2>1, <2>2 DEF UpdateConfiguration, TypeOK, Calling, Resting
<1>9. CASE CreateFunction
  <2>1. code' \in [1..Functions -> Uploads]
    <3>1. UNCHANGED code \/ code' = [code EXCEPT ![cur] = Upload(zip[cur])]
      BY <1>9 DEF CreateFunction
    <3> QED
      BY <3>1, <1>d, <1>u DEF TypeOK
  <2>3. config' \in [1..Functions -> [Settings -> Uploads]]
    BY <1>9, ConfigurationType DEF CreateFunction, TypeOK
  <2>2. /\ pc' \in {"failed", "create", "brn"} /\ UNCHANGED <<cur, nth, done>>
        /\ denied' \subseteq 1..Functions /\ doubt' \subseteq 1..Functions
    BY <1>9 DEF CreateFunction, TypeOK, Fail, Proceed, Goto, Forbidden
  <2> QED
    BY <1>9, <2>1, <2>2, <2>3 DEF CreateFunction, TypeOK, Calling, Resting
<1>10. CASE GetFunctionConfiguration
  <2>1. /\ pc' \in {"failed", "trigger", "finished", "exists"}
        /\ cur' \in 1..Functions /\ nth' \in Nat \ {0}
        /\ pc' = "trigger" => nth' \in 1..Triggers
        /\ done' \subseteq 1..Functions
    <3>1. CASE DeployDone
      BY <3>1, DeployDoneType DEF TypeOK
    <3>2. CASE Triggers > 0 /\ pc' = "trigger" /\ nth' = 1 /\ UNCHANGED <<cur, done>>
      BY <3>2 DEF TypeOK
    <3>3. CASE Goto("failed") /\ UNCHANGED done
      BY <3>3 DEF TypeOK, Goto
    <3> QED
      BY <1>10, <3>1, <3>2, <3>3 DEF GetFunctionConfiguration
  <2> QED
    BY <1>10, <2>1 DEF GetFunctionConfiguration, TypeOK, Calling, Resting, service
<1>11. CASE CreateTrigger
  <2>1. triggers' \in [1..Functions -> [1..Triggers -> Nat]]
    <3>1. cur \in 1..Functions /\ nth \in 1..Triggers
      BY <1>11 DEF CreateTrigger, TypeOK
    <3>2. triggers[cur] \in [1..Triggers -> Nat] /\ triggers[cur][nth] + 1 \in Nat
      BY <3>1 DEF TypeOK
    <3>3. \/ UNCHANGED triggers
          \/ triggers' = [triggers EXCEPT ![cur] =
                             [triggers[cur] EXCEPT ![nth] = triggers[cur][nth] + 1]]
      BY <1>11 DEF CreateTrigger
    <3>4. [triggers[cur] EXCEPT ![nth] = triggers[cur][nth] + 1] \in [1..Triggers -> Nat]
      BY <3>1, <3>2
    <3> QED
      BY <3>1, <3>3, <3>4 DEF TypeOK
  <2>2. /\ pc' \in {"trigger", "finished", "exists"}
        /\ cur' \in 1..Functions /\ nth' \in Nat \ {0}
        /\ pc' = "trigger" => nth' \in 1..Triggers
        /\ done' \subseteq 1..Functions /\ doubt' \subseteq 1..Functions
    <3>1. cur \in 1..Functions /\ nth \in 1..Triggers /\ pc = "trigger"
      BY <1>11 DEF CreateTrigger, TypeOK
    <3>2. doubt' \subseteq 1..Functions
      BY <1>11, <3>1 DEF CreateTrigger, TypeOK
    <3>3. CASE NextTrigger
      <4>1. CASE nth < Triggers /\ nth' = nth + 1 /\ UNCHANGED <<pc, cur, done>>
        BY <3>1, <3>2, <4>1 DEF TypeOK
      <4>2. CASE DeployDone
        BY <3>1, <3>2, <4>2, DeployDoneType
      <4> QED
        BY <3>3, <4>1, <4>2 DEF NextTrigger
    <3>4. CASE Goto("trigger") /\ UNCHANGED done
      BY <3>1, <3>2, <3>4 DEF TypeOK, Goto
    <3> QED
      BY <1>11, <3>3, <3>4 DEF CreateTrigger
  <2> QED
    BY <1>11, <2>1, <2>2 DEF CreateTrigger, TypeOK, Calling, Resting
<1>12. CASE Abort
  BY <1>12 DEF Abort, TypeOK, service, history, Goto, Resting
<1>13. CASE UNCHANGED vars
  BY <1>13 DEF vars, local, service, history, TypeOK
<1> QED
  BY <1>1, <1>2, <1>3, <1>4, <1>5, <1>6, <1>7, <1>8, <1>9, <1>10, <1>11, <1>12, <1>13 DEF Next

-----------------------------------------------------------------------------
\* The done functions and the code of the current one, along every step.
LEMMA CodeStep ==
  ASSUME TypeOK, CodeBeforeConfiguration, [Next]_vars
  PROVE  CodeBeforeConfiguration'
<1> USE DeployAssumption
<1>t. /\ code \in [1..Functions -> Uploads] /\ config \in [1..Functions -> [Settings -> Uploads]]
      /\ cur \in 1..Functions /\ run \in Nat
      /\ \A u \in Uploads : u.run \in Nat
  BY DEF TypeOK, Uploads
<1>u. \A v \in Versions : Upload(v) \in Uploads /\ Upload(v).run = run
  BY UploadType
<1>v. zip[cur] \in Versions /\ template \in Versions
  BY DEF TypeOK, Versions, Torn
<1> DEFINE Ordered ==
      \A f \in 1..Functions :
        code[f].run <= run /\ \A s \in Settings : config[f][s].run <= code[f].run
<1>o. Ordered
  BY DEF CodeBeforeConfiguration
<1>1. CASE UpdateCode
  <2> DEFINE Updates == code' = [code EXCEPT ![cur] = Upload(zip[cur])]
  <2>1. UNCHANGED <<run, config>> /\ (UNCHANGED code \/ Updates)
    BY <1>1 DEF UpdateCode
  <2>2. pc' = "configuration" => UNCHANGED cur /\ Updates
    BY <1>1 DEF UpdateCode, Fail, Proceed, Goto, Forbidden, DeployDone, NextFunction
  <2>3. Updates => code'[cur].run = run
    BY <1>t, <1>u, <1>v
  <2>4. Ordered'
    <3>1. \A f \in 1..Functions : code'[f] = code[f] \/ code'[f].run = run
      BY <2>1, <2>3, <1>t
    <3>2. \A f \in 1..Functions : code[f].run <= code'[f].run /\ code'[f].run <= run
      <4> SUFFICES ASSUME NEW f \in 1..Functions
                   PROVE  code[f].run <= code'[f].run /\ code'[f].run <= run
        OBVIOUS
      <4>1. code[f].run \in Nat /\ code[f].run <= run /\ run \in Nat
        BY <1>o, <1>t
      <4>2. CASE code'[f] = code[f]
        BY <4>1, <4>2
      <4>3. CASE code'[f].run = run
        BY <4>1, <4>3
      <4> QED
        BY <3>1, <4>2, <4>3
    <3>t. \A f \in 1..Functions : \A s \in Settings :
            config[f][s].run \in Nat /\ code[f].run \in Nat /\ code'[f].run \in Nat
      BY <3>1, <1>t
    <3>3. \A f \in 1..Functions : \A s \in Settings : config[f][s].run <= code'[f].run
      <4> SUFFICES ASSUME NEW f \in 1..Functions, NEW s \in Settings
                   PROVE  config[f][s].run <= code'[f].run
        OBVIOUS
      <4>1. config[f][s].run <= code[f].run
        BY <1>o
      <4> QED
        BY <4>1, <3>2, <3>t
    <3>4. \A f \in 1..Functions : code'[f].run <= run
      BY <3>2
    <3> QED
      BY <2>1, <3>3, <3>4
  <2> QED
    BY <2>1, <2>2, <2>3, <2>4 DEF CodeBeforeConfiguration
<1>2. CASE UpdateConfiguration
  <2> DEFINE Updates == config' = [config EXCEPT ![cur] = Updated(config[cur])]
  <2>1. UNCHANGED <<run, code>> /\ (UNCHANGED config \/ Updates) /\ code[cur].run = run
    BY <1>2 DEF UpdateConfiguration, CodeBeforeConfiguration
  <2>2. pc' = "configuration" => UNCHANGED cur
    BY <1>2 DEF UpdateConfiguration, Fail, Proceed, Goto, Forbidden, DeployDone, NextFunction
  <2>3. Updates => /\ \A f \in 1..Functions : f # cur => config'[f] = config[f]
                   /\ \A s \in Settings : \/ config'[cur][s].run = run
                                            \/ config'[cur][s] = config[cur][s]
    BY ConfigurationType, <1>u, <1>v
  <2>4. Ordered'
    <3>1. CASE UNCHANGED config
      BY <2>1, <3>1, <1>o
    <3>2. CASE Updates
      <4>1. \A f \in 1..Functions, s \in Settings :
              config'[f][s] = config[f][s] \/ (f = cur /\ config'[f][s].run = run)
        BY <2>3, <3>2
      <4>2. \A f \in 1..Functions, s \in Settings : config'[f][s].run <= code[f].run
        BY <2>1, <4>1, <1>o, <1>t
      <4> QED
        BY <2>1, <4>2, <1>o
    <3> QED
      BY <2>1, <3>1, <3>2
  <2> QED
    BY <2>1, <2>2, <2>4 DEF CodeBeforeConfiguration
<1>3. CASE CreateFunction
  <2>1. pc' # "configuration"
    BY <1>3 DEF CreateFunction, Fail, Proceed, Goto, Forbidden
  <2>2. CASE UNCHANGED <<code, config>>
    BY <1>3, <2>1, <2>2, <1>o DEF CreateFunction, CodeBeforeConfiguration
  <2>3. CASE /\ code' = [code EXCEPT ![cur] = Upload(zip[cur])]
             /\ config' = [config EXCEPT ![cur] = Configuration(Upload(template))]
    <3>1. /\ code'[cur].run = run
          /\ \A s \in Settings : config'[cur][s].run = run
          /\ \A f \in 1..Functions : f # cur => config'[f] = config[f]
      BY <2>3, ConfigurationType, <1>t, <1>u, <1>v
    <3>2. Ordered'
      BY <1>3, <2>3, <3>1, <1>o, <1>t DEF CreateFunction
    <3> QED
      BY <2>1, <3>2 DEF CodeBeforeConfiguration
  <2> QED
    BY <1>3, <2>2, <2>3 DEF CreateFunction
<1>4. CASE StartDeploy
  <2>1. pc' # "configuration" /\ run' = run + 1 /\ UNCHANGED <<code, config>>
    BY <1>4 DEF StartDeploy, service
  <2> QED
    BY <2>1, <1>o, <1>t DEF CodeBeforeConfiguration
<1>5. CASE Edit \/ StartPackage \/ OpenZip \/ WriteZip \/ CheckIfExist \/ GetFunctionConfiguration
           \/ CreateTrigger \/ Abort \/ UNCHANGED vars
  <2>1. UNCHANGED <<code, config, run>>
    BY <1>5 DEF Edit, StartPackage, OpenZip, WriteZip, CheckIfExist, GetFunctionConfiguration,
      CreateTrigger, Abort, vars, local, service
  <2>2. pc' = "configuration" => pc = "configuration" /\ cur' = cur
    BY <1>5 DEF Edit, StartPackage, OpenZip, WriteZip, CheckIfExist, GetFunctionConfiguration,
      CreateTrigger, Abort, vars, local, Goto, NextFunction, NextTrigger, DeployDone
  <2> QED
    BY <2>1, <2>2 DEF CodeBeforeConfiguration
<1> QED
  BY <1>1, <1>2, <1>3, <1>4, <1>5 DEF Next

LEMMA AheadStep ==
  ASSUME TypeOK, CodeBeforeConfiguration, NotYetConfigured, [Next]_vars
  PROVE  NotYetConfigured'
<1> USE DeployAssumption
<1>t. /\ code \in [1..Functions -> Uploads] /\ config \in [1..Functions -> [Settings -> Uploads]]
      /\ cur \in 1..Functions /\ run \in Nat
      /\ \A u \in Uploads : u.run \in Nat
  BY DEF TypeOK, Uploads
<1>1. CASE UpdateConfiguration \/ CreateFunction
  <2>1. UNCHANGED <<run, template>> /\ pc \in Calling
    BY <1>1 DEF UpdateConfiguration, CreateFunction, Calling
  <2>2. /\ pc' = "configuration" => UNCHANGED <<pc, cur>>
        /\ pc' # "code"
        /\ pc' = "exists" => cur' = cur + 1
        /\ cur' = cur \/ cur' = cur + 1
    BY <1>1, <1>t DEF UpdateConfiguration, CreateFunction, Fail, Proceed, Goto, Forbidden, DeployDone,
      NextFunction
  <2>3. /\ \A f \in 1..Functions : f # cur => config'[f] = config[f]
        /\ pc = "configuration" => \A s \in Settings : s \notin Sent(cur) =>
             config'[cur][s] = config[cur][s] \/ config'[cur][s] = Upload(template)
    BY <1>1, ConfigurationType, <1>t DEF UpdateConfiguration, CreateFunction
  <2>4. pc = "configuration" => \A s \in Settings : s \notin Sent(cur) =>
          config'[cur][s] = config[cur][s]
    <3>1. CASE pc = "configuration" /\ config' = [config EXCEPT ![cur] = Updated(config[cur])]
      <4>1. config'[cur] = Updated(config[cur])
        BY <3>1, <1>t
      <4> QED
        BY <4>1 DEF Updated
    <3>2. CASE UNCHANGED config
      BY <3>2
    <3> QED
      BY <1>1, <3>1, <3>2 DEF UpdateConfiguration, CreateFunction
  <2> QED
    BY <2>1, <2>2, <2>3, <2>4, <1>t DEF NotYetConfigured, Sent
<1>2. CASE StartDeploy
  <2>1. UNCHANGED config /\ run' = run + 1
    BY <1>2 DEF StartDeploy, service
  <2>2. \A f \in 1..Functions, s \in Settings : config[f][s].run < run + 1
    BY <1>t DEF CodeBeforeConfiguration
  <2> QED
    BY <2>1, <2>2 DEF NotYetConfigured
<1>3. CASE CheckIfExist \/ UpdateCode \/ GetFunctionConfiguration \/ CreateTrigger
  <2>1. UNCHANGED <<run, template, config>> /\ pc \in Calling
    BY <1>3 DEF CheckIfExist, UpdateCode, GetFunctionConfiguration, CreateTrigger, service, Calling
  <2>2. /\ pc' = "exists" => cur' = cur + 1
        /\ cur' = cur \/ cur' = cur + 1
        /\ pc' \in {"code", "configuration"} => UNCHANGED cur /\ pc \in {"exists", "code"}
    BY <1>3, <1>t DEF CheckIfExist, UpdateCode, GetFunctionConfiguration, CreateTrigger, Fail, Proceed,
      Goto, Forbidden, DeployDone, NextFunction, NextTrigger
  <2> QED
    BY <2>1, <2>2, <1>t DEF NotYetConfigured, Sent
<1>4. CASE StartPackage \/ OpenZip \/ WriteZip \/ Abort
  <2>1. pc' \notin Calling
    BY <1>4 DEF StartPackage, OpenZip, WriteZip, Abort, Goto, NextFunction, Calling
  <2> QED
    BY <2>1 DEF NotYetConfigured
<1>5. CASE Edit \/ UNCHANGED vars
  BY <1>5 DEF Edit, vars, local, service, history, NotYetConfigured, Sent
<1> QED
  BY <1>1, <1>2, <1>3, <1>4, <1>5 DEF Next

LEMMA DoneStep ==
  ASSUME TypeOK, CodeBeforeConfiguration, NotYetConfigured, CreatedByThisRun, DoneIsUploaded,
         [Next]_vars
  PROVE  DoneIsUploaded'
<1> USE DeployAssumption
<1>t. /\ code \in [1..Functions -> Uploads] /\ config \in [1..Functions -> [Settings -> Uploads]]
      /\ cur \in 1..Functions /\ done \subseteq 1..Functions
  BY DEF TypeOK
<1>u. Upload(zip[cur]).run = run /\ Upload(template).run = run
  BY DEF Upload
<1>1. CASE UpdateCode
  <2>1. UNCHANGED <<run, template, config>> /\ done' \ denied' \subseteq done \ denied
    BY <1>1 DEF UpdateCode, Fail, Proceed, Goto, Forbidden, DeployDone
  <2>2. code' = code \/ code' = [code EXCEPT ![cur] = Upload(zip[cur])]
    BY <1>1 DEF UpdateCode
  <2> QED
    BY <2>1, <2>2, <1>t, <1>u DEF DoneIsUploaded, Upload, Sent
<1>2. CASE UpdateConfiguration
  <2>1. UNCHANGED <<run, template, code>> /\ code[cur].run = run
    BY <1>2 DEF UpdateConfiguration, CodeBeforeConfiguration
  <2>2. CASE /\ config' = [config EXCEPT ![cur] = Updated(config[cur])]
             /\ done' \subseteq done \cup {cur} /\ UNCHANGED denied
    <3>1. /\ \A f \in 1..Functions : f # cur => config'[f] = config[f]
          /\ \A s \in Settings :
               \/ config'[cur][s] = Upload(template)
               \/ s \notin Sent(cur) /\ config'[cur][s].run < run
      BY <1>2, <2>2, ConfigurationType, <1>t DEF NotYetConfigured, UpdateConfiguration, Calling
    <3> QED
      BY <2>1, <2>2, <3>1, <1>t DEF DoneIsUploaded, Upload, Sent
  <2>3. CASE UNCHANGED config /\ done' \ denied' \subseteq done \ denied
    BY <2>1, <2>3 DEF DoneIsUploaded, Upload, Sent
  <2> QED
    BY <1>2, <2>2, <2>3 DEF UpdateConfiguration, Fail, Proceed, Forbidden, DeployDone
<1>3. CASE CreateFunction
  <2>1. UNCHANGED <<run, template, done>> /\ denied \subseteq denied'
    BY <1>3 DEF CreateFunction, Fail, Proceed, Goto, Forbidden
  <2>2. \/ UNCHANGED <<code, config>>
        \/ /\ code' = [code EXCEPT ![cur] = Upload(zip[cur])]
           /\ \A f \in 1..Functions : f # cur => config'[f] = config[f]
           /\ \A s \in Settings : config'[cur][s] = Upload(template)
    BY <1>3, ConfigurationType DEF CreateFunction
  <2> QED
    BY <2>1, <2>2, <1>t, <1>u DEF DoneIsUploaded, Upload, Sent
<1>4. CASE StartDeploy
  BY <1>4 DEF StartDeploy, DoneIsUploaded
<1>5. CASE GetFunctionConfiguration \/ CreateTrigger
  <2>1. UNCHANGED <<run, template, code, config, denied>> /\ pc \in {"brn", "trigger"}
    BY <1>5 DEF GetFunctionConfiguration, CreateTrigger, service
  <2>2. done' \subseteq done \cup {cur}
    BY <1>5 DEF GetFunctionConfiguration, CreateTrigger, NextTrigger, DeployDone
  <2> QED
    BY <2>1, <2>2 DEF DoneIsUploaded, CreatedByThisRun, Upload, Sent
<1>6. CASE Edit \/ StartPackage \/ OpenZip \/ WriteZip \/ CheckIfExist \/ Abort \/ UNCHANGED vars
  <2>1. UNCHANGED <<run, template, code, config, done, denied>>
    BY <1>6 DEF Edit, StartPackage, OpenZip, WriteZip, CheckIfExist, Abort, vars, local, service,
      history
  <2> QED
    BY <2>1 DEF DoneIsUploaded, Upload, Sent
<1> QED
  BY <1>1, <1>2, <1>3, <1>4, <1>5, <1>6 DEF Next

LEMMA CreatedStep ==
  ASSUME TypeOK, CreatedByThisRun, [Next]_vars
  PROVE  CreatedByThisRun'
<1>1. CASE CreateFunction
  <2>1. UNCHANGED <<run, template, cur>>
    BY <1>1 DEF CreateFunction, Fail, Proceed, Goto, Forbidden
  <2>2. pc' \in {"brn", "trigger"} /\ cur \notin denied' =>
          /\ code' = [code EXCEPT ![cur] = Upload(zip[cur])]
          /\ config' = [config EXCEPT ![cur] = Configuration(Upload(template))]
    BY <1>1 DEF CreateFunction, Fail, Proceed, Goto, Forbidden
  <2> QED
    <3>1. pc' \in {"brn", "trigger"} /\ cur \notin denied' =>
            code'[cur] = Upload(zip[cur]) /\ \A s \in Settings : config'[cur][s] = Upload(template)
      BY <2>2, ConfigurationType DEF TypeOK
    <3> QED
      BY <2>1, <3>1 DEF CreatedByThisRun, Upload
<1>2. CASE GetFunctionConfiguration \/ CreateTrigger
  <2>1. UNCHANGED <<run, template, code, config, denied>> /\ pc \in {"brn", "trigger"}
    BY <1>2 DEF GetFunctionConfiguration, CreateTrigger, service
  <2>2. pc' \in {"brn", "trigger"} => UNCHANGED cur
    BY <1>2 DEF GetFunctionConfiguration, CreateTrigger, Goto, NextTrigger, DeployDone, NextFunction
  <2> QED
    BY <2>1, <2>2 DEF CreatedByThisRun, Upload
<1>3. CASE Edit \/ UNCHANGED vars
  BY <1>3 DEF Edit, CreatedByThisRun, Upload, vars, local, service, history
<1>4. CASE StartPackage \/ OpenZip \/ WriteZip \/ StartDeploy \/ CheckIfExist \/ UpdateCode
           \/ UpdateConfiguration \/ Abort
  <2>1. pc' \notin {"brn", "trigger"}
    BY <1>4 DEF StartPackage, OpenZip, WriteZip, StartDeploy, CheckIfExist, UpdateCode,
      UpdateConfiguration, Abort, Goto, Proceed, Fail, Forbidden, DeployDone, NextFunction
  <2> QED
    BY <2>1 DEF CreatedByThisRun
<1> QED
  BY <1>1, <1>2, <1>3, <1>4 DEF Next

-----------------------------------------------------------------------------
\* The event sources ahead of a run that creates triggers have none yet.
LEMMA TriggersStep ==
  ASSUME TypeOK, TriggersFollow, SecondCopyNeedsDoubt, [Next]_vars
  PROVE  TriggersFollow' /\ SecondCopyNeedsDoubt'
<1> USE DeployAssumption
<1>t. /\ code \in [1..Functions -> Uploads] /\ run \in Nat /\ cur \in 1..Functions
      /\ triggers \in [1..Functions -> [1..Triggers -> Nat]]
      /\ pc = "trigger" => nth \in 1..Triggers
  BY DEF TypeOK
<1>u. run > 0 => \A v \in Versions : Upload(v) # Nothing
  BY UploadType
<1>v. zip[cur] \in Versions
  BY DEF TypeOK
<1>1. CASE CreateTrigger
  <2>1. /\ UNCHANGED <<run, code>> /\ pc = "trigger" /\ nth \in 1..Triggers /\ run > 0
        /\ code[cur] # Nothing
        /\ cur \in doubt \/ \A t \in 1..Triggers : t >= nth => triggers[cur][t] = 0
    BY <1>1, <1>t DEF CreateTrigger, TriggersFollow, Calling
  <2>2. doubt \subseteq doubt' /\ pc' # "brn"
    BY <1>1, <2>1 DEF CreateTrigger, NextTrigger, DeployDone, NextFunction, Goto
  <2>3. \/ UNCHANGED triggers
        \/ triggers' = [triggers EXCEPT ![cur] =
                          [triggers[cur] EXCEPT ![nth] = triggers[cur][nth] + 1]]
    BY <1>1 DEF CreateTrigger
  <2>4. pc' = "trigger" =>
          UNCHANGED cur /\ (cur \in doubt' \/ nth' = nth + 1)
    BY <1>1 DEF CreateTrigger, NextTrigger, DeployDone, NextFunction, Goto
  <2>5. \A f \in 1..Functions : \A t \in 1..Triggers :
          \/ triggers'[f][t] = triggers[f][t]
          \/ f = cur /\ t = nth /\ triggers'[f][t] = triggers[f][t] + 1
    BY SMTT(40), <2>1, <2>3, <1>t
  <2>6. TriggersFollow'
    <3>1. \A f \in 1..Functions :
            code'[f] = Nothing => \A t \in 1..Triggers : triggers'[f][t] = 0
      BY <2>1, <2>5 DEF TriggersFollow
    <3>2. pc' = "trigger" /\ cur \notin doubt' =>
            \A t \in 1..Triggers : t >= nth + 1 => triggers'[cur][t] = 0
      <4> SUFFICES ASSUME cur \notin doubt', NEW t \in 1..Triggers, t >= nth + 1
                   PROVE  triggers'[cur][t] = 0
        OBVIOUS
      <4>1. cur \notin doubt
        BY <2>2
      <4>2. t >= nth /\ t # nth
        BY <2>1
      <4>3. triggers'[cur][t] = triggers[cur][t]
        BY <2>5, <4>2, <1>t
      <4>4. triggers[cur][t] = 0
        BY <2>1, <4>1, <4>2
      <4> QED
        BY <4>3, <4>4
    <3> QED
      BY <2>1, <2>2, <2>4, <3>1, <3>2 DEF TriggersFollow
  <2>7. SecondCopyNeedsDoubt'
    <3> SUFFICES ASSUME NEW f \in 1..Functions, NEW t \in 1..Triggers, triggers'[f][t] > 1
                 PROVE  f \in doubt'
      BY DEF SecondCopyNeedsDoubt
    <3>1. CASE triggers'[f][t] = triggers[f][t]
      BY <2>2, <3>1 DEF SecondCopyNeedsDoubt
    <3>2. CASE f = cur /\ t = nth /\ triggers'[f][t] = triggers[f][t] + 1
      <4>1. nth >= nth /\ ~(0 + 1 > 1)
        BY <2>1
      <4>2. cur \in doubt \/ triggers[cur][nth] = 0
        BY <2>1, <4>1
      <4> QED
        BY <2>2, <3>2, <4>1, <4>2
    <3> QED
      BY <2>5, <3>1, <3>2
  <2> QED
    BY <2>6, <2>7
<1>2. CASE CreateFunction
  <2>1. UNCHANGED <<run, triggers, cur>> /\ doubt \subseteq doubt' /\ pc' # "trigger" /\ run > 0
    BY <1>2 DEF CreateFunction, Fail, Proceed, Goto, Forbidden, TriggersFollow, Calling
  <2>2. UNCHANGED code \/ code' = [code EXCEPT ![cur] = Upload(zip[cur])]
    BY <1>2 DEF CreateFunction
  <2>3. pc' = "brn" => cur \in doubt' \/ code[cur] = Nothing
    BY <1>2 DEF CreateFunction, Fail, Proceed, Goto, Forbidden, Exists
  <2>4. \A f \in 1..Functions : code'[f] = Nothing => code[f] = Nothing
    BY <2>1, <2>2, <1>t, <1>u, <1>v
  <2> QED
    BY <2>1, <2>3, <2>4, <1>t DEF TriggersFollow, SecondCopyNeedsDoubt
<1>3. CASE UpdateCode
  <2>1. UNCHANGED <<run, triggers, doubt>> /\ pc' \notin {"brn", "trigger"} /\ run > 0
    BY <1>3 DEF UpdateCode, Fail, Proceed, Goto, Forbidden, DeployDone, NextFunction,
      TriggersFollow, Calling
  <2>2. UNCHANGED code \/ code' = [code EXCEPT ![cur] = Upload(zip[cur])]
    BY <1>3 DEF UpdateCode
  <2>3. \A f \in 1..Functions : code'[f] = Nothing => code[f] = Nothing
    BY <2>1, <2>2, <1>t, <1>u, <1>v
  <2> QED
    BY <2>1, <2>3 DEF TriggersFollow, SecondCopyNeedsDoubt
<1>4. CASE GetFunctionConfiguration
  <2>1. UNCHANGED <<run, code, triggers, doubt>> /\ pc = "brn" /\ pc' # "brn" /\ run > 0
    BY <1>4 DEF GetFunctionConfiguration, service, Goto, DeployDone, NextFunction, TriggersFollow,
      Calling
  <2>2. pc' = "trigger" => UNCHANGED cur /\ code[cur] # Nothing
    BY <1>4 DEF GetFunctionConfiguration, Goto, DeployDone, NextFunction, Exists
  <2> QED
    BY <2>1, <2>2 DEF TriggersFollow, SecondCopyNeedsDoubt
<1>5. CASE StartDeploy
  <2>1. UNCHANGED <<code, triggers, doubt>> /\ pc' = "exists" /\ run' = run + 1
    BY <1>5 DEF StartDeploy, service
  <2> QED
    BY <2>1, <1>t DEF TriggersFollow, SecondCopyNeedsDoubt
<1>6. CASE UpdateConfiguration \/ CheckIfExist
  <2>1. UNCHANGED <<run, code, triggers, doubt>> /\ pc' \notin {"brn", "trigger"} /\ run > 0
    BY <1>6 DEF UpdateConfiguration, CheckIfExist, service, history, Fail, Proceed, Goto, Forbidden,
      DeployDone, NextFunction, TriggersFollow, Calling
  <2> QED
    BY <2>1 DEF TriggersFollow, SecondCopyNeedsDoubt
<1>7. CASE Edit \/ UNCHANGED vars
  BY <1>7 DEF Edit, vars, local, service, history, TriggersFollow, SecondCopyNeedsDoubt
<1>8. CASE StartPackage \/ OpenZip \/ WriteZip \/ Abort
  <2>1. UNCHANGED <<run, code, triggers, doubt>> /\ pc' \notin Calling
    BY <1>8 DEF StartPackage, OpenZip, WriteZip, Abort, Goto, NextFunction, service, history, Calling
  <2> QED
    BY <2>1 DEF TriggersFollow, SecondCopyNeedsDoubt, Calling
<1> QED
  BY <1>1, <1>2, <1>3, <1>4, <1>5, <1>6, <1>7, <1>8 DEF Next

-----------------------------------------------------------------------------
\* The inductive invariant of every deploy history.
THEOREM DeployInvariant == Spec => []DeployInv
<1>1. DeployInv /\ [Next]_vars => DeployInv'
  BY TypeStep, CodeStep, AheadStep, DoneStep, CreatedStep, TriggersStep DEF DeployInv
<1> QED
  BY <1>1, InitDeployInv, PTL DEF Spec

\* Every variable of the command and of the service keeps its type.
THEOREM DeployTypeCorrect == Spec => []TypeOK
BY DeployInvariant, PTL DEF DeployInv

\* What a deploy calls done is what it has just uploaded: do_deploy's message
\* means both halves of the function, in every history of runs.
THEOREM DoneMeansUploaded == Spec => []DoneIsUploaded
BY DeployInvariant, PTL DEF DeployInv

\* update_function's order of calls: the configuration never overtakes the code.
THEOREM CodeGoesFirst == Spec => []ConfigurationNeverAhead
<1>1. DeployInv => ConfigurationNeverAhead
  BY DEF DeployInv, CodeBeforeConfiguration, ConfigurationNeverAhead
<1> QED
  BY <1>1, DeployInvariant, PTL

\* do_deploy creates triggers only along with the function, so no history of
\* deploys makes a second copy of one without an answer in doubt.
THEOREM NoIdleCopies == Spec => []SecondCopyNeedsDoubt
BY DeployInvariant, PTL DEF DeployInv

=============================================================================
