------------------------------- MODULE Deploy -------------------------------
(***************************************************************************)
(* `bsam package` and `bsam deploy` against the CFC service: which zip is  *)
(* uploaded, which calls are made for a function, and what is left behind  *)
(* by refusals, lost answers, Ctrl-C and kills over several runs.          *)
(*                                                                         *)
(* A call of CfcClient is made again until its answer is final (HttpRetry, *)
(* CountsRetries = FALSE), so a call that is answered late or never is one *)
(* that has taken effect, or not, and is still being made.                 *)
(***************************************************************************)
EXTENDS Naturals

CONSTANTS
  Functions,   \* number of functions of the template, deployed in this order
  Triggers,    \* number of event sources of a function, in provider order
  BadRuntime,  \* by edit: the functions whose runtime is unsupported
  Declares,    \* by edit and function: the optional settings the template has
  MaxEdits,    \* bound on the versions of the user's sources and template
  MaxRuns,     \* bound on the deploy runs
  MaxCopies    \* bound on the copies of one trigger at the service

\* The settings of a function, and those that a template may leave out
\* (function.memory too, but no update ever sends it).
Optional == {"description", "environment", "handler", "timeout"}
Settings == Optional \cup {"runtime", "memory"}

ASSUME DeployAssumption ==
  /\ Functions \in Nat \ {0} /\ Triggers \in Nat
  /\ MaxEdits \in Nat \ {0} /\ MaxRuns \in Nat /\ MaxCopies \in Nat
  /\ BadRuntime \in [1..MaxEdits -> SUBSET (1..Functions)]
  /\ Declares \in [1..MaxEdits -> [1..Functions -> SUBSET Optional]]

VARIABLES
  pc, cur, nth,    \* the running command, its function, its event source
  edit,            \* version of the sources and the template on disk
  template,        \* version of the template this run has loaded
  zip,             \* version inside <function>.zip
  run,             \* number of the deploy run
  code, config,    \* service: the upload a function's code and each of its
                   \* settings come from
  triggers,        \* service: copies of each trigger
  done, denied,    \* functions this run called done; that it met a 403 for
  doubt            \* history: functions a trigger may have been made twice for

local == <<pc, cur, nth, edit, template, zip, run>>
service == <<code, config, triggers>>
history == <<done, denied, doubt>>
vars == <<local, service, history>>

-----------------------------------------------------------------------------
NoZip == 0
Torn == MaxEdits + 1     \* a zip file whose writing was cut short
Versions == 0..Torn

Nothing == [version |-> NoZip, run |-> 0]
Upload(v) == [version |-> v, run |-> run]
Exists(f) == code[f] # Nothing
Configuration(upload) == [s \in Settings |-> upload]

\* deal_with_func_runtime, which raises for the others.
Supported == cur \notin BadRuntime[template]

\* The fields of the body of update_function_configuration: memory_size is no
\* parameter of it, and what is None is left out.
Sent(f) == {"runtime"} \cup Declares[template][f]

\* The service changes what it is sent and keeps the rest.
Updated(old) ==
  [s \in Settings |-> IF s \in Sent(cur) THEN Upload(template) ELSE old[s]]

Resting == {"idle", "finished", "failed"}
Packaging == {"open", "write"}
Calling == {"exists", "code", "configuration", "create", "brn", "trigger"}

Init ==
  /\ pc = "idle" /\ cur = 1 /\ nth = 1
  /\ edit = 1 /\ template = 0 /\ run = 0
  /\ zip = [f \in 1..Functions |-> NoZip]
  /\ code = [f \in 1..Functions |-> Nothing]
  /\ config = [f \in 1..Functions |-> Configuration(Nothing)]
  /\ triggers = [f \in 1..Functions |-> [t \in 1..Triggers |-> 0]]
  /\ done = {} /\ denied = {} /\ doubt = {}

Goto(label) == pc' = label /\ UNCHANGED <<cur, nth>>
Proceed(label) == Goto(label) /\ UNCHANGED <<done, denied>>
Fail == Proceed("failed")

\* The loop over all_functions goes to its next function or ends.
NextFunction(first) ==
  /\ UNCHANGED nth
  /\ \/ cur = Functions /\ pc' = "finished" /\ UNCHANGED cur
     \/ cur < Functions /\ pc' = first /\ cur' = cur + 1

\* "Funtion %s deploy done."
DeployDone == done' = done \cup {cur} /\ NextFunction("exists")

-----------------------------------------------------------------------------
(* The user and `bsam package`.                                            *)

Edit ==
  /\ edit < MaxEdits
  /\ edit' = edit + 1
  /\ UNCHANGED <<pc, cur, nth, template, zip, run, service, history>>

StartPackage ==
  /\ pc \in Resting
  /\ pc' = "open" /\ cur' = 1
  /\ UNCHANGED <<nth, edit, template, zip, run, service, history>>

\* Opening the zip file for writing empties it.
OpenZip ==
  /\ pc = "open"
  /\ zip' = [zip EXCEPT ![cur] = Torn]
  /\ Goto("write")
  /\ UNCHANGED <<edit, template, run, service, history>>

\* zip_up walks the code and closes the file; a file it cannot read raises.
WriteZip ==
  /\ pc = "write"
  /\ \/ zip' = [zip EXCEPT ![cur] = edit] /\ NextFunction("open")
     \/ UNCHANGED zip /\ Goto("failed")
  /\ UNCHANGED <<edit, template, run, service, history>>

-----------------------------------------------------------------------------
(* `bsam deploy`.                                                          *)

\* DeployContext loads the template once.
StartDeploy ==
  /\ pc \in Resting /\ run < MaxRuns
  /\ run' = run + 1
  /\ template' = edit
  /\ pc' = "exists" /\ cur' = 1
  /\ done' = {} /\ denied' = {}
  /\ UNCHANGED <<nth, edit, zip, service, doubt>>

\* check_if_exist: whatever the SDK gives up on is "does not exist".
CheckIfExist ==
  /\ pc = "exists"
  /\ \/ Exists(cur) /\ Goto("code")
     \/ Goto("create")
  /\ UNCHANGED <<edit, template, zip, run, service, history>>

\* The except clause of create_function and update_function: a 403 is logged
\* and forgotten, another refusal is raised; so is an answer that is no JSON,
\* for its exception has no status_code to look at.
Forbidden(rest) ==
  /\ denied' = denied \cup {cur}
  /\ rest

\* Mutants: nothing is sent but the code; each call has its own except clause.
UpdateCodeOnly ==
  /\ pc = "code" /\ zip[cur] # NoZip
  /\ code' = [code EXCEPT ![cur] = Upload(zip[cur])]
  /\ DeployDone
  /\ UNCHANGED <<edit, template, zip, run, config, triggers, denied, doubt>>

UpdateCodeGoesOn ==
  /\ pc = "code"
  /\ \/ /\ code' = [code EXCEPT ![cur] = Upload(zip[cur])]
        /\ Proceed("configuration")
     \/ Forbidden(Goto("configuration")) /\ UNCHANGED <<code, done>>
  /\ UNCHANGED <<edit, template, zip, run, config, triggers, doubt>>

\* The first half of update_function. The runtime is looked at once the code
\* is sent.
UpdateCode ==
  /\ pc = "code"
  /\ \/ zip[cur] = NoZip /\ Fail /\ UNCHANGED code
     \/ /\ zip[cur] # NoZip
        /\ code' = [code EXCEPT ![cur] = Upload(zip[cur])]
        /\ \/ Supported /\ Proceed("configuration")
           \/ ~Supported /\ Fail
           \/ Proceed("code")
           \/ Fail
     \/ /\ zip[cur] # NoZip
        /\ UNCHANGED code
        /\ Forbidden(DeployDone) \/ Fail
  /\ UNCHANGED <<edit, template, zip, run, config, triggers, doubt>>

\* Mutant: the triggers of a function that exists are created as well.
UpdateConfigurationTriggers ==
  /\ pc = "configuration"
  /\ config' = [config EXCEPT ![cur] = Updated(config[cur])]
  /\ Goto("brn")
  /\ UNCHANGED <<edit, template, zip, run, code, triggers, history>>

\* The second half of update_function.
UpdateConfiguration ==
  /\ pc = "configuration"
  /\ \/ /\ config' = [config EXCEPT ![cur] = Updated(config[cur])]
        /\ \/ DeployDone /\ UNCHANGED denied
           \/ Proceed("configuration")
           \/ Fail
     \/ /\ UNCHANGED config
        /\ Forbidden(DeployDone) \/ Fail
  /\ UNCHANGED <<edit, template, zip, run, code, triggers, doubt>>

\* create_function sends both halves at once, with defaults for most of what the
\* template leaves out; the function is new, so no setting of it is an older
\* one. The service refuses a name that it has. A 403 does not keep do_deploy from going on to create_triggers.
CreateFunction ==
  /\ pc = "create"
  /\ \/ /\ zip[cur] = NoZip \/ ~Supported
        /\ Fail /\ UNCHANGED <<code, config, doubt>>
     \/ /\ zip[cur] # NoZip /\ Supported /\ ~Exists(cur)
        /\ code' = [code EXCEPT ![cur] = Upload(zip[cur])]
        /\ config' = [config EXCEPT ![cur] = Configuration(Upload(template))]
        /\ Proceed("brn") \/ Proceed("create") \/ Fail
        /\ UNCHANGED doubt
     \/ /\ zip[cur] # NoZip /\ Supported
        /\ UNCHANGED <<code, config>>
        /\ \/ Forbidden(Goto("brn")) /\ doubt' = doubt \cup {cur} /\ UNCHANGED done
           \/ Fail /\ UNCHANGED doubt
  /\ UNCHANGED <<edit, template, zip, run, triggers>>

\* Mutant: the loop runs once too often.
NextTriggerOneMore ==
  \/ nth <= Triggers /\ nth' = nth + 1 /\ UNCHANGED <<pc, cur, done>>
  \/ nth > Triggers /\ DeployDone

NextTrigger ==
  \/ nth < Triggers /\ nth' = nth + 1 /\ UNCHANGED <<pc, cur, done>>
  \/ nth >= Triggers /\ DeployDone

\* create_triggers asks for the BRN outside its try, then goes over the event
\* sources of the three providers.
GetFunctionConfiguration ==
  /\ pc = "brn"
  /\ \/ Exists(cur) /\ Triggers > 0 /\ pc' = "trigger" /\ nth' = 1 /\ UNCHANGED <<cur, done>>
     \/ Exists(cur) /\ Triggers = 0 /\ DeployDone
     \/ Goto("failed") /\ UNCHANGED done
  /\ UNCHANGED <<edit, template, zip, run, service, denied, doubt>>

\* Each event source has a try of its own that swallows whatever is raised.
\* The service may take two triggers that are alike, or refuse the second.
CreateTrigger ==
  /\ pc = "trigger"
  /\ \/ /\ triggers[cur][nth] < MaxCopies
        /\ triggers' = [triggers EXCEPT ![cur][nth] = @ + 1]
        /\ \/ NextTrigger /\ UNCHANGED doubt
           \/ Goto("trigger") /\ UNCHANGED done /\ doubt' = doubt \cup {cur}
     \/ NextTrigger /\ UNCHANGED <<triggers, doubt>>
  /\ UNCHANGED <<edit, template, zip, run, code, config, denied>>

-----------------------------------------------------------------------------
\* Ctrl-C, a full disk, a kill: the command ends where it is. Between two event
\* sources Ctrl-C is swallowed (CreateTrigger's last disjunct).
Abort ==
  /\ pc \in Packaging \cup Calling
  /\ Goto("failed")
  /\ UNCHANGED <<edit, template, zip, run, service, history>>

Next ==
  \/ Edit \/ StartPackage \/ OpenZip \/ WriteZip
  \/ StartDeploy \/ CheckIfExist \/ UpdateCode \/ UpdateConfiguration
  \/ CreateFunction \/ GetFunctionConfiguration \/ CreateTrigger
  \/ Abort

Spec == Init /\ [][Next]_vars

-----------------------------------------------------------------------------
Uploads == [version : Versions, run : 0..MaxRuns]

TypeOK ==
  /\ pc \in Resting \cup Packaging \cup Calling
  /\ cur \in 1..Functions /\ nth \in Nat \ {0}
  /\ pc = "trigger" => nth \in 1..Triggers
  /\ edit \in 1..MaxEdits /\ template \in 0..MaxEdits /\ run \in 0..MaxRuns
  /\ zip \in [1..Functions -> Versions]
  /\ code \in [1..Functions -> Uploads]
  /\ config \in [1..Functions -> [Settings -> Uploads]]
  /\ triggers \in [1..Functions -> [1..Triggers -> Nat]]
  /\ done \subseteq 1..Functions /\ denied \subseteq 1..Functions
  /\ doubt \subseteq 1..Functions

\* A function that this run called done without a 403 has the code this run
\* sent, and every setting is the loaded template's, except those that no update
\* sends: the memory size, and what the template leaves out. These may be an
\* earlier run's, also if the template had them then, unless this run created
\* the function.
DoneIsUploaded ==
  \A f \in done \ denied :
    /\ code[f].run = run
    /\ \A s \in Settings :
         \/ config[f][s] = Upload(template)
         \/ s \notin Sent(f) /\ config[f][s].run < run

\* No setting of a function ever overtakes its code: a handler or a runtime is
\* never switched to by a run whose code did not arrive first.
ConfigurationNeverAhead ==
  \A f \in 1..Functions : \A s \in Settings : config[f][s].run <= code[f].run

\* However often a project is deployed, a trigger has a second copy only where
\* an answer to its creation was in doubt, or create_function met a 403 for a
\* function that may well exist.
SecondCopyNeedsDoubt ==
  \A f \in 1..Functions : \A t \in 1..Triggers : triggers[f][t] > 1 => f \in doubt
=============================================================================
