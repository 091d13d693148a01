-------------------------- MODULE CredentialsProofs --------------------------
(***************************************************************************)
(* The invariants of Credentials, for every number of configurations and   *)
(* functions. Each layer adds what the next one needs: types, what a       *)
(* `bsam config` has written by the stage it is in, what it cannot lose,   *)
(* and what a deploy run can meet.                                         *)
(***************************************************************************)
EXTENDS Credentials, TLAPS

-----------------------------------------------------------------------------
(* Types *)

\* A run of `bsam config` has a number, and it makes its folder before it
\* writes new files.
ConfigTypes ==
  /\ folder \in {"none", "dir", "file"}
  /\ files \in [Files -> Contents]
  /\ n \in 0..MaxConfigs
  /\ stage \in {"idle", "first", "init", "last"} /\ file \in Files
  /\ opened \in BOOLEAN /\ kept \in BOOLEAN /\ refused \subseteq Files
  /\ settled \in {Missing} \cup 1..MaxConfigs
  /\ killed \in BOOLEAN /\ hadOthers \subseteq Files
  /\ opened => stage # "idle"
  /\ stage # "idle" => n >= 1
  /\ opened /\ stage = "init" => folder = "dir"

DeployTypes ==
  /\ rpc \in {"idle", "endpoint", "keys", "exists", "region", "next", "failed"}
  /\ asked \in BOOLEAN /\ fn \in 1..Functions /\ looked \in BOOLEAN
  /\ got \in [{"endpoint", "keys", "region"} -> {Unread, Fallback, Initial} \cup Typed]
  /\ calm \in BOOLEAN

TypeInv == ConfigTypes /\ DeployTypes

\* The types hold at the beginning, and every step preserves them.
LEMMA TypeInit == Init => TypeInv
<1> USE CredentialsAssumption DEF Typed, Missing, Empty, Initial, Unread, Fallback
<1> SUFFICES ASSUME Init PROVE TypeInv
    OBVIOUS
<1>1. files \in [Files -> Contents]
  <2> SUFFICES ASSUME NEW f \in Files PROVE files[f] \in Contents
      BY DEF Init
  <2>1. files[f] \in {[value |-> 0, others |-> o] : o \in BOOLEAN} \/ files[f] = Absent
        BY DEF Init
  <2>2. CASE files[f] = Absent
        BY <2>2 DEF Absent, Contents
  <2>3. CASE files[f] \in {[value |-> 0, others |-> o] : o \in BOOLEAN}
    <3>1. PICK o \in BOOLEAN : files[f] = [value |-> 0, others |-> o]
          BY <2>3
    <3>. QED BY <3>1 DEF Contents
  <2>. QED BY <2>1, <2>2, <2>3
<1>2. folder \in {"none", "dir", "file"} /\ hadOthers \subseteq Files
      BY DEF Init
<1>3. got \in [{"endpoint", "keys", "region"} -> {Unread, Fallback, Initial} \cup Typed]
      BY DEF Init
<1>4. n \in 0..MaxConfigs /\ fn \in 1..Functions
      BY DEF Init
<1>5. /\ stage \in {"idle", "first", "init", "last"} /\ file \in Files
      /\ rpc \in {"idle", "endpoint", "keys", "exists", "region", "next", "failed"}
      /\ refused \subseteq Files
      BY DEF Init, Files
<1>6. /\ opened \in BOOLEAN /\ kept \in BOOLEAN /\ asked \in BOOLEAN /\ looked \in BOOLEAN
      /\ calm \in BOOLEAN /\ killed \in BOOLEAN
      /\ ~opened /\ stage = "idle"
      BY DEF Init
<1>7. settled \in {Missing} \cup 1..MaxConfigs
      BY DEF Init
<1>. QED BY <1>1, <1>2, <1>3, <1>4, <1>5, <1>6, <1>7 DEF TypeInv, ConfigTypes, DeployTypes

LEMMA TypeStep == TypeInv /\ [Next]_vars => TypeInv'
<1> USE CredentialsAssumption DEF Typed, Missing, Empty, Initial, Unread, Fallback
<1> SUFFICES ASSUME ConfigTypes, DeployTypes, [Next]_vars PROVE ConfigTypes' /\ DeployTypes'
    BY DEF TypeInv
<1>1. CASE Configure
  <2>1. ConfigTypes'
    <3>1. n' \in 0..MaxConfigs /\ n' >= 1
          BY <1>1 DEF Configure, ConfigTypes
    <3>2. refused' \subseteq Files /\ stage' = "first" /\ file' \in Files /\ settled' = Missing
          BY <1>1 DEF Configure, Files
    <3>3. opened' = FALSE /\ UNCHANGED <<folder, files, kept, killed, hadOthers>>
          BY <1>1 DEF Configure
    <3>. QED BY <3>1, <3>2, <3>3 DEF ConfigTypes
  <2>2. DeployTypes'
        BY <1>1 DEF Configure, DeployTypes
  <2>. QED BY <2>1, <2>2
<1>2. CASE Skip
      BY <1>2 DEF Skip, Advance, ConfigTypes, DeployTypes, Files, deploy
<1>3. CASE InitFolder
      BY <1>3 DEF InitFolder, Raise, ConfigTypes, DeployTypes, deploy
<1>4. CASE Set
  <2>1. CASE stage # "init" /\ file \in refused
    <3>1. Raise /\ UNCHANGED files
          BY <1>4, <2>1 DEF Set
    <3>2. ConfigTypes'
          BY <3>1 DEF Raise, ConfigTypes
    <3>3. DeployTypes'
          BY <3>1 DEF Raise, DeployTypes, deploy
    <3>. QED BY <3>2, <3>3
  <2>2. CASE ~(stage # "init" /\ file \in refused)
    <3>1. /\ kept' = files[file].others /\ Truncate /\ opened' = TRUE
          /\ UNCHANGED <<folder, n, stage, file, refused, settled, killed, hadOthers, deploy>>
          BY <1>4, <2>2 DEF Set
    <3>2. stage # "idle" /\ (stage = "init" => folder = "dir")
          BY <1>4 DEF Set, Rewrites
    <3>3. files' \in [Files -> Contents] /\ kept' \in BOOLEAN
          BY <3>1 DEF Truncate, ConfigTypes, Files, Contents
    <3>. QED BY <3>1, <3>2, <3>3 DEF ConfigTypes, DeployTypes, deploy
  <2>. QED BY <2>1, <2>2
<1>5. CASE Flush
  <2>1. files' \in [Files -> Contents]
        BY <1>5 DEF Flush, ConfigTypes, Files, Contents
  <2>2. stage' \in {"idle", "first", "init", "last"} /\ file' \in Files
        BY <1>5 DEF Flush, Advance, ConfigTypes, Files
  <2>3. settled' \in {Missing} \cup 1..MaxConfigs
        BY <1>5 DEF Flush, Advance, ConfigTypes
  <2>. QED BY <1>5, <2>1, <2>2, <2>3 DEF Flush, ConfigTypes, DeployTypes, deploy
<1>6. CASE Kill
      BY <1>6 DEF Kill, ConfigTypes, DeployTypes, deploy
<1>7. CASE StartDeploy
  <2>1. DeployTypes'
    <3>1. calm' \in BOOLEAN
          BY <1>7 DEF StartDeploy
    <3>2. rpc' \in {"endpoint", "keys"} /\ got' = NothingRead
          BY <1>7 DEF StartDeploy
    <3>3. asked' \in BOOLEAN /\ looked' = FALSE
          BY <1>7, Zenon DEF StartDeploy
    <3>5. fn' \in 1..Functions
          BY <1>7 DEF StartDeploy
    <3>4. got' \in [{"endpoint", "keys", "region"} -> {Unread, Fallback, Initial} \cup Typed]
          BY <3>2 DEF NothingRead
    <3>. QED BY <3>1, <3>2, <3>3, <3>4, <3>5 DEF DeployTypes
  <2>. QED BY <1>7, <2>1 DEF StartDeploy, ConfigTypes, config
<1>8. CASE Look
  <2>1. DeployTypes'
        BY <1>8 DEF Look, Follow, DeployTypes
  <2>. QED BY <1>8, <2>1 DEF Look, ConfigTypes, config
<1>9. CASE Read
  <2>1. rpc \in {"endpoint", "keys", "region"} /\ FileOf(rpc) \in Files
        BY <1>9 DEF Read, DeployTypes, FileOf, Files
  <2>2. files[FileOf(rpc)].value \in {Missing, Empty, Initial} \cup Typed
        BY <2>1 DEF ConfigTypes, Contents
  <2>3. DeployTypes'
        BY <1>9, <2>1, <2>2 DEF Read, Follow, DeployTypes
  <2>. QED BY <1>9, <2>3 DEF Read, ConfigTypes, config
<1>10. CASE CheckIfExist
       BY <1>10 DEF CheckIfExist, ConfigTypes, DeployTypes, config
<1>11. CASE NextFunction
  <2>1. DeployTypes'
        BY <1>11 DEF NextFunction, NothingRead, DeployTypes
  <2>. QED BY <1>11, <2>1 DEF NextFunction, ConfigTypes, config
<1>12. CASE UNCHANGED vars
       BY <1>12 DEF vars, config, deploy, ConfigTypes, DeployTypes
<1>. QED BY <1>1, <1>2, <1>3, <1>4, <1>5, <1>6, <1>7, <1>8, <1>9, <1>10, <1>11, <1>12 DEF Next

LEMMA TypesHold == Spec => []TypeInv
BY TypeInit, TypeStep, PTL DEF Spec

\* Every reachable state of Credentials is of the declared types
\* (config_interactive and the readers keep to their files and stages).
THEOREM CredentialsTypeCorrect == Spec => []TypeOK
<1>1. TypeInv => TypeOK
      BY DEF TypeInv, ConfigTypes, DeployTypes, TypeOK
<1>. QED BY <1>1, TypesHold, PTL

-----------------------------------------------------------------------------
(* What a `bsam config` has written *)

\* No configuration counts as completed while one is under way; a value in a
\* file is of a run that has begun; and by the time the config file is written,
\* the credentials are of this run, or not there yet in the first stage.
StageInv ==
  /\ stage # "idle" => settled = Missing
  /\ \A f \in Files : files[f].value <= n
  /\ stage = "first" /\ file = "config" => files["credentials"].value \in {Missing, n}
  /\ stage = "last" /\ file = "config" => files["credentials"].value = n

HealInv == StageInv /\ CompletedHeals

\* One step of `bsam config` or of deploy.
LEMMA HealStep == TypeInv /\ HealInv /\ [Next]_vars => HealInv'
<1> USE CredentialsAssumption DEF HealInv, StageInv, CompletedHeals, Typed, Missing, Empty, Initial
<1> SUFFICES ASSUME ConfigTypes, HealInv, [Next]_vars PROVE HealInv'
    BY DEF TypeInv
<1>0. /\ files \in [Files -> Contents] /\ n \in 0..MaxConfigs /\ file \in Files
      /\ settled \in {Missing} \cup 1..MaxConfigs
      BY DEF ConfigTypes
<1>1. CASE Configure
      BY <1>0, <1>1 DEF Configure, Contents, Files
<1>2. CASE Skip
      BY <1>0, <1>2 DEF Skip, Advance, Exists, Files, Contents
<1>3. CASE InitFolder
      BY <1>0, <1>3 DEF InitFolder, Raise, Files, Contents
<1>4. CASE Set
  <2>1. CASE stage # "init" /\ file \in refused
        BY <1>0, <1>4, <2>1 DEF Set, Raise, Files, Contents
  <2>2. CASE ~(stage # "init" /\ file \in refused)
    <3>1. Truncate /\ UNCHANGED <<n, stage, file, settled>> /\ stage # "idle"
          BY <1>4, <2>2 DEF Set, Rewrites
    <3>2. /\ files'[file].value = Empty
          /\ \A f \in Files \ {file} : files'[f] = files[f]
          BY <1>0, <3>1 DEF Truncate
    <3>. QED BY <1>0, <3>1, <3>2 DEF Files, Contents
  <2>. QED BY <2>1, <2>2
<1>5. CASE Flush
  <2>1. /\ files'[file].value = IF stage = "init" THEN Initial ELSE n
        /\ \A f \in Files \ {file} : files'[f] = files[f]
        /\ n' = n /\ stage # "idle" /\ settled = Missing
        BY <1>0, <1>5 DEF Flush, ConfigTypes
  <2>2. Advance(stage = "last" /\ file = "config")
        BY <1>5 DEF Flush
  <2>3. CASE file = "credentials"
        BY <1>0, <2>1, <2>2, <2>3 DEF Advance, Files, Contents, ConfigTypes
  <2>4. CASE file = "config"
        BY <1>0, <2>1, <2>2, <2>4 DEF Advance, Files, Contents, ConfigTypes
  <2>. QED BY <1>0, <2>3, <2>4 DEF Files
<1>6. CASE Kill
      BY <1>0, <1>6 DEF Kill, Files, Contents
<1>7. CASE UNCHANGED config
      BY <1>0, <1>7 DEF config, Files, Contents
<1>. QED BY <1>1, <1>2, <1>3, <1>4, <1>5, <1>6, <1>7
         DEF Next, vars, StartDeploy, Look, Read, CheckIfExist, NextFunction

LEMMA HealInit == Init => HealInv
<1> SUFFICES ASSUME Init PROVE HealInv
    OBVIOUS
<1>1. \A f \in Files : files[f].value \in {0, Missing}
  <2> SUFFICES ASSUME NEW f \in Files PROVE files[f].value \in {0, Missing}
      OBVIOUS
  <2>1. files[f] \in {[value |-> 0, others |-> o] : o \in BOOLEAN} \/ files[f] = Absent
        BY DEF Init
  <2>. QED BY <2>1 DEF Absent
<1>. QED BY <1>1 DEF Init, HealInv, StageInv, CompletedHeals, Missing

LEMMA HealHolds == Spec => []HealInv
BY TypesHold, HealInit, HealStep, PTL DEF Spec

\* However earlier runs were killed or refused, a `bsam config` that completes
\* leaves both files of its own configuration (config_interactive).
THEOREM CompletedRunHeals == Spec => []CompletedHeals
<1>1. HealInv => CompletedHeals
      BY DEF HealInv
<1>. QED BY <1>1, HealHolds, PTL

-----------------------------------------------------------------------------
(* What it cannot lose *)

\* While a file is open, what is to be written back holds the others' sections.
KeptInv == opened /\ ~killed => (file \in hadOthers => kept)

LossInv == KeptInv /\ LossNeedsKill

LEMMA LossStep == TypeInv /\ HealInv /\ LossInv /\ [Next]_vars => LossInv'
<1> USE DEF LossInv, KeptInv, LossNeedsKill
<1> SUFFICES ASSUME ConfigTypes, StageInv, LossInv, [Next]_vars PROVE LossInv'
    BY DEF TypeInv, HealInv
<1>0. /\ files \in [Files -> Contents] /\ file \in Files /\ n \in Nat
      /\ opened \in BOOLEAN /\ killed \in BOOLEAN /\ hadOthers \subseteq Files
      BY CredentialsAssumption DEF ConfigTypes
<1>1. CASE Configure
      BY <1>0, <1>1 DEF Configure, ConfigTypes
<1>2. CASE Skip
      BY <1>0, <1>2 DEF Skip
<1>3. CASE InitFolder
  <2>1. ~opened
        BY <1>3 DEF InitFolder, ConfigTypes
  <2>. QED BY <1>0, <1>3, <2>1 DEF InitFolder, Raise
<1>4. CASE Set
  <2>1. ~opened
        BY <1>4 DEF Set, Rewrites
  <2>2. CASE stage # "init" /\ file \in refused
        BY <1>0, <1>4, <2>1, <2>2 DEF Set, Raise
  <2>3. CASE ~(stage # "init" /\ file \in refused)
    <3>1. /\ kept' = files[file].others /\ opened'
          /\ UNCHANGED <<file, killed, hadOthers>>
          /\ \A f \in Files \ {file} : files'[f] = files[f]
          BY <1>0, <1>4, <2>3 DEF Set, Truncate
    <3>. QED BY <1>0, <2>1, <3>1
  <2>. QED BY <2>2, <2>3
<1>5. CASE Flush
  <2>1. /\ files'[file].others = kept
        /\ files'[file].value # Empty
        /\ \A f \in Files \ {file} : files'[f] = files[f]
        /\ opened /\ opened' = FALSE /\ UNCHANGED <<killed, hadOthers>>
        BY <1>0, <1>5 DEF Flush, Empty, Initial
  <2>. QED BY <1>0, <2>1
<1>6. CASE Kill
      BY <1>0, <1>6 DEF Kill
<1>7. CASE UNCHANGED config
      BY <1>0, <1>7 DEF config
<1>. QED BY <1>1, <1>2, <1>3, <1>4, <1>5, <1>6, <1>7
         DEF Next, vars, StartDeploy, Look, Read, CheckIfExist, NextFunction

LEMMA LossInit == Init => LossInv
<1> SUFFICES ASSUME Init PROVE LossInv
    OBVIOUS
<1>1. \A f \in Files : files[f].value \in {0, Missing}
  <2> SUFFICES ASSUME NEW f \in Files PROVE files[f].value \in {0, Missing}
      OBVIOUS
  <2>1. files[f] \in {[value |-> 0, others |-> o] : o \in BOOLEAN} \/ files[f] = Absent
        BY DEF Init
  <2>. QED BY <2>1 DEF Absent
<1>. QED BY <1>1 DEF Init, LossInv, KeptInv, LossNeedsKill, Missing, Empty

\* What a file holds, of this tool or of others, is lost only by a kill, and
\* never by a value that is refused (__set_credential_config, __set_cfc_config).
THEOREM OnlyKillsLose == Spec => []LossNeedsKill
<1>1. LossInv => LossNeedsKill
      BY DEF LossInv
<1>. QED BY <1>1, TypesHold, HealHolds, LossInit, LossStep, PTL DEF Spec

-----------------------------------------------------------------------------
(* What a deploy run can meet *)

\* The credentials file never goes away again, and what is in it is not older
\* than the config file, nor than the region that a deploy run has read.
ReaderInv ==
  /\ files["config"].value \in Typed =>
       \/ files["credentials"].value \in {Missing, Empty, Initial}
       \/ files["credentials"].value >= files["config"].value
  /\ looked => Exists("credentials")
  /\ rpc = "endpoint" => got.keys = Unread
  /\ got.endpoint \in Typed =>
       /\ got.endpoint <= n
       /\ \/ files["credentials"].value \in {Empty, Initial}
          \/ files["credentials"].value >= got.endpoint

RegionInv == ReaderInv /\ RegionNotAheadOfKeys

\* `bsam config` does not take from a deploy run what it relies on.
LEMMA RegionConfig ==
  TypeInv /\ HealInv /\ RegionInv /\ (Configure \/ Skip \/ InitFolder \/ Set \/ Flush \/ Kill)
    => RegionInv'
<1> USE CredentialsAssumption
    DEF RegionInv, ReaderInv, RegionNotAheadOfKeys, Exists, Typed, Missing, Empty, Initial, Unread,
        Fallback
<1> SUFFICES ASSUME ConfigTypes, DeployTypes, StageInv, RegionInv,
                    Configure \/ Skip \/ InitFolder \/ Set \/ Flush \/ Kill
             PROVE  RegionInv'
    BY DEF TypeInv, HealInv
<1>0. /\ files \in [Files -> Contents] /\ n \in Nat /\ n <= MaxConfigs /\ file \in Files
      /\ \A f \in Files : files[f].value \in -3..MaxConfigs /\ files[f].value <= n
      /\ got.endpoint \in -5..MaxConfigs /\ got.keys \in -5..MaxConfigs
      BY DEF ConfigTypes, DeployTypes, StageInv, Contents
<1>1. CASE Configure
      BY <1>0, <1>1 DEF Configure, Files
<1>2. CASE Set
  <2>1. UNCHANGED <<n, rpc, looked, got>>
        BY <1>2 DEF Set, Raise, deploy
  <2>2. CASE files' = files
        BY <1>0, <2>1, <2>2
  <2>3. CASE Truncate
    <3>1. files'[file].value = Empty /\ \A f \in Files \ {file} : files'[f] = files[f]
          BY <1>0, <2>3 DEF Truncate
    <3>. QED BY <1>0, <2>1, <3>1 DEF Files
  <2>. QED BY <1>2, <2>2, <2>3 DEF Set, Raise
<1>3. CASE Flush
  <2>1. /\ files'[file].value = IF stage = "init" THEN Initial ELSE n
        /\ \A f \in Files \ {file} : files'[f] = files[f]
        /\ UNCHANGED <<n, rpc, looked, got>>
        BY <1>0, <1>3 DEF Flush, deploy
  <2>2. CASE file = "credentials"
        BY <1>0, <2>1, <2>2 DEF Files
  <2>3. CASE file = "config"
    <3>1. stage = "init" \/ files["credentials"].value \in {Missing, n}
          BY <1>3, <2>3 DEF Flush, ConfigTypes, StageInv
    <3>. QED BY <1>0, <2>1, <2>3, <3>1 DEF Files
  <2>. QED BY <1>0, <2>2, <2>3 DEF Files
<1>4. CASE Skip \/ InitFolder \/ Kill
  <2>1. UNCHANGED <<files, n, rpc, looked, got>>
        BY <1>4 DEF Skip, InitFolder, Raise, Kill, deploy
  <2>. QED BY <1>0, <2>1
<1>. QED BY <1>1, <1>2, <1>3, <1>4

\* A deploy run reads the region before the keys, and looks before it reads.
LEMMA RegionDeploy ==
  TypeInv /\ HealInv /\ RegionInv /\ (StartDeploy \/ Look \/ Read \/ CheckIfExist \/ NextFunction)
    => RegionInv'
<1> USE CredentialsAssumption
    DEF RegionInv, ReaderInv, RegionNotAheadOfKeys, Exists, Typed, Missing, Empty, Initial, Unread,
        Fallback
<1> SUFFICES ASSUME ConfigTypes, DeployTypes, StageInv, RegionInv,
                    StartDeploy \/ Look \/ Read \/ CheckIfExist \/ NextFunction
             PROVE  RegionInv'
    BY DEF TypeInv, HealInv
<1>0. /\ \A f \in Files : files[f].value \in -3..MaxConfigs /\ files[f].value <= n
      /\ got \in [{"endpoint", "keys", "region"} -> {Unread, Fallback, Initial} \cup Typed]
      /\ MaxConfigs \in Nat
      BY DEF ConfigTypes, DeployTypes, StageInv, Contents
<1>00. UNCHANGED <<files, n>>
      BY DEF StartDeploy, Look, Read, CheckIfExist, NextFunction, config
<1>1. CASE StartDeploy
      BY <1>0, <1>00, <1>1 DEF StartDeploy, NothingRead
<1>2. CASE Look
  <2>1. CASE Exists("credentials")
        BY <1>0, <1>00, <1>2, <2>1 DEF Look
  <2>2. CASE ~Exists("credentials")
        BY <1>0, <1>00, <1>2, <2>2 DEF Look, Follow, Files
  <2>. QED BY <2>1, <2>2
<1>3. CASE Read
  <2>1. rpc \in {"endpoint", "keys", "region"} /\ looked' = FALSE
        BY <1>0, <1>3 DEF Read
  <2>2. CASE rpc' = "failed" /\ got' = got
        BY <1>0, <1>00, <2>1, <2>2
  <2>3. CASE /\ files[FileOf(rpc)].value \notin {Missing, Empty}
             /\ got' = [got EXCEPT ![rpc] = files[FileOf(rpc)].value] /\ Follow(rpc)
    <3>1. CASE rpc = "endpoint"
          BY <1>0, <1>00, <1>3, <2>1, <2>3, <3>1 DEF FileOf, Follow, Files, Read
    <3>2. CASE rpc = "keys"
          BY <1>0, <1>00, <1>3, <2>1, <2>3, <3>2 DEF FileOf, Follow, Files, Read
    <3>3. CASE rpc = "region"
          BY <1>0, <1>00, <2>1, <2>3, <3>3 DEF FileOf, Follow, Files
    <3>. QED BY <2>1, <3>1, <3>2, <3>3
  <2>. QED BY <1>3, <2>2, <2>3 DEF Read
<1>4. CASE CheckIfExist
      BY <1>0, <1>00, <1>4 DEF CheckIfExist
<1>5. CASE NextFunction
      BY <1>0, <1>00, <1>5 DEF NextFunction, NothingRead
<1>. QED BY <1>1, <1>2, <1>3, <1>4, <1>5

LEMMA RegionStep == TypeInv /\ HealInv /\ RegionInv /\ [Next]_vars => RegionInv'
<1>1. TypeInv /\ RegionInv /\ UNCHANGED vars => RegionInv'
      BY DEF vars, config, deploy, RegionInv, ReaderInv, RegionNotAheadOfKeys, Exists
<1>. QED BY <1>1, RegionConfig, RegionDeploy DEF Next

LEMMA RegionInit == Init => RegionInv
<1> SUFFICES ASSUME Init PROVE RegionInv
    OBVIOUS
<1>1. \A f \in Files : files[f].value \in {0, Missing}
  <2> SUFFICES ASSUME NEW f \in Files PROVE files[f].value \in {0, Missing}
      OBVIOUS
  <2>1. files[f] \in {[value |-> 0, others |-> o] : o \in BOOLEAN} \/ files[f] = Absent
        BY DEF Init
  <2>. QED BY <2>1 DEF Absent
<1>. QED BY <1>1, CredentialsAssumption
     DEF Init, RegionInv, ReaderInv, RegionNotAheadOfKeys, Files, Typed, Missing, Unread, Initial

\* However deploy runs and `bsam config`s overlap and are cut short, the region
\* of a configuration is never used with the keys of an earlier one
\* (do_deploy, config_interactive).
THEOREM RegionFollowsKeys == Spec => []RegionNotAheadOfKeys
<1>1. RegionInv => RegionNotAheadOfKeys
      BY DEF RegionInv
<1>. QED BY <1>1, TypesHold, HealHolds, RegionInit, RegionStep, PTL DEF Spec

-----------------------------------------------------------------------------
(* Undisturbed runs *)

CalmInv == (calm => settled # Missing) /\ CalmReadsSettled

LEMMA CalmStep == TypeInv /\ HealInv /\ CalmInv /\ [Next]_vars => CalmInv'
<1> USE CredentialsAssumption DEF CalmInv, CalmReadsSettled, Missing, Unread
<1> SUFFICES ASSUME ConfigTypes, DeployTypes, StageInv, CompletedHeals, CalmInv, [Next]_vars
             PROVE  CalmInv'
    BY DEF TypeInv, HealInv
<1>0. /\ got \in [{"endpoint", "keys", "region"} -> {Unread, Fallback, Initial} \cup Typed]
      /\ settled \in {Missing} \cup 1..MaxConfigs
      BY DEF ConfigTypes, DeployTypes
<1>1. CASE Configure
      BY <1>1 DEF Configure
<1>2. CASE Skip \/ InitFolder \/ Set \/ Flush \/ Kill
  <2>1. stage # "idle" /\ UNCHANGED deploy
        BY <1>2 DEF Skip, InitFolder, Set, Rewrites, Raise, Flush, Kill, ConfigTypes
  <2>. QED BY <2>1 DEF StageInv, deploy
<1>3. CASE StartDeploy
  <2>1. calm' => settled' # Missing
        BY <1>3 DEF StartDeploy, config
  <2>2. got' = NothingRead /\ rpc' # "failed"
        BY <1>3 DEF StartDeploy
  <2>. QED BY <2>1, <2>2 DEF NothingRead
<1>4. CASE Look
  <2>1. UNCHANGED <<settled, calm>>
        BY <1>4 DEF Look, config
  <2>2. CASE calm
    <3>1. Exists("credentials")
          BY <1>0, <2>2 DEF CompletedHeals, Exists, Files
    <3>. QED BY <1>4, <2>1, <3>1 DEF Look
  <2>. QED BY <2>1, <2>2
<1>5. CASE Read
  <2>1. UNCHANGED <<settled, calm>> /\ rpc \in {"endpoint", "keys", "region"}
        BY <1>0, <1>5 DEF Read, config
  <2>2. CASE calm
    <3>1. files[FileOf(rpc)].value = settled /\ settled \in 1..MaxConfigs
          BY <1>0, <2>2 DEF CompletedHeals, FileOf, Files
    <3>. QED BY <1>0, <1>5, <2>1, <2>2, <3>1 DEF Read, Follow, Empty
  <2>. QED BY <2>1, <2>2
<1>6. CASE CheckIfExist
      BY <1>6 DEF CheckIfExist, config
<1>7. CASE NextFunction
      BY <1>0, <1>7 DEF NextFunction, NothingRead, config
<1>8. CASE UNCHANGED vars
      BY <1>8 DEF vars, config, deploy
<1>. QED BY <1>1, <1>2, <1>3, <1>4, <1>5, <1>6, <1>7, <1>8 DEF Next

\* A deploy run that no `bsam config` overlaps uses the settings of the last one
\* that completed (get_credentials, get_region, get_region_endpoint).
THEOREM UndisturbedRunsReadSettled == Spec => []CalmReadsSettled
<1>1. Init => CalmInv
      BY DEF Init, CalmInv, CalmReadsSettled
<1>2. CalmInv => CalmReadsSettled
      BY DEF CalmInv
<1>. QED BY <1>1, <1>2, TypesHold, HealHolds, CalmStep, PTL DEF Spec
=============================================================================
