---------------------------- MODULE Credentials -----------------------------
(***************************************************************************)
(* The two files under ~/.bce: `bsam config` rewrites them one after the   *)
(* other (config_interactive), while deploy runs in other processes read   *)
(* them. The n-th `bsam config` types keys n and region n; a file is what  *)
(* its section holds, the number of the configuration it is of, and        *)
(* whether sections of other tools are still in it.                        *)
(***************************************************************************)
EXTENDS Integers

CONSTANTS
  MaxConfigs,   \* bound on the runs of `bsam config`
  Functions,    \* functions in the template of a deploy run
  Unsupported   \* configurations whose region is not in SUPPORTED_REGION

ASSUME CredentialsAssumption ==
  /\ MaxConfigs \in Nat /\ Functions \in Nat \ {0}
  /\ Unsupported \subseteq 1..MaxConfigs

\* What the section of a file holds beside a configuration: 0 is one typed
\* before the first step of this model.
Missing == -3   \* no such file
Empty == -2     \* truncated: no section
Initial == -1   \* blank keys, or DEFAULT_REGION
Unread == -4    \* a value a deploy run has not read yet
Fallback == -5  \* test-ak and test-sk, or DEFAULT_REGION without a file

Typed == 0..MaxConfigs
Files == {"credentials", "config"}
Contents == [value : {Missing, Empty, Initial} \cup Typed, others : BOOLEAN]
Absent == [value |-> Missing, others |-> FALSE]

VARIABLES
  folder,   \* config_folder: "none", "dir", or a "file" of that name
  files,    \* the contents of both files
  n,        \* how many times `bsam config` was run
  stage,    \* where config_interactive is: "idle", "first", "init", "last"
  file,     \* the file this stage is at
  opened,   \* the file is truncated, its new contents are not yet written
  kept,     \* the sections of other tools that conf.read found
  refused,  \* the files whose value ConfigParser.set raises ValueError for
  rpc,      \* where the deploy run is
  asked,    \* --region or --endpoint was given
  looked,   \* it has found that there is a credentials file
  fn,       \* the function it deploys
  got,      \* what it has read for this function
  settled,  \* history: the last configuration that completed, if none began since
  calm,     \* history: settled when this deploy run began, and ever since
  killed,   \* history: a `bsam config` was killed, or found the disk full
  hadOthers \* history: the sections of other tools at the beginning

config == <<folder, files, n, stage, file, opened, kept, refused, settled, killed, hadOthers>>
deploy == <<rpc, asked, looked, fn, got, calm>>
vars == <<config, deploy>>

Exists(f) == files[f].value # Missing

Init ==
  /\ folder \in {"none", "dir", "file"}
  /\ files \in [Files -> {[value |-> 0, others |-> o] : o \in BOOLEAN} \cup {Absent}]
  /\ folder # "dir" => \A f \in Files : ~Exists(f)
  /\ n = 0 /\ stage = "idle" /\ file = "credentials"
  /\ opened = FALSE /\ kept = FALSE /\ refused = {}
  /\ rpc = "idle" /\ asked = FALSE /\ looked = FALSE /\ fn = 1
  /\ got = [endpoint |-> Unread, keys |-> Unread, region |-> Unread]
  /\ settled = Missing /\ calm = FALSE /\ killed = FALSE
  /\ hadOthers = {f \in Files : files[f].others}

-----------------------------------------------------------------------------
(* bsam config *)

\* Mutant: the last two writes are left out.
AdvanceWithoutLast(done) ==
  /\ stage' = IF file = "credentials" THEN stage
              ELSE IF stage = "first" THEN "init" ELSE "idle"
  /\ file' = IF file = "credentials" THEN "config" ELSE "credentials"
  /\ settled' = IF file = "config" /\ stage = "init" THEN n ELSE settled

\* credentials before config in each of the three stages.
Advance(done) ==
  /\ stage' = IF file = "credentials" THEN stage
              ELSE CASE stage = "first" -> "init" [] stage = "init" -> "last" [] OTHER -> "idle"
  /\ file' = IF file = "credentials" THEN "config" ELSE "credentials"
  /\ settled' = IF done THEN n ELSE settled

\* The user types keys and a region; a stray % makes ConfigParser refuse one.
Configure ==
  /\ stage = "idle" /\ n < MaxConfigs
  /\ n' = n + 1
  /\ refused' \in SUBSET Files
  /\ stage' = "first" /\ file' = "credentials" /\ opened' = FALSE
  /\ settled' = Missing
  /\ calm' = FALSE
  /\ UNCHANGED <<folder, files, kept, killed, hadOthers, rpc, asked, looked, fn, got>>

\* Mutant: keys that are there are not written before the region.
SkipPresentKeys ==
  /\ ~opened
  /\ \/ stage = "first" /\ (~Exists(file) \/ file = "credentials")
     \/ stage = "init" /\ folder = "dir" /\ Exists(file)
  /\ Advance(FALSE)
  /\ UNCHANGED <<folder, files, n, opened, kept, refused, killed, hadOthers, deploy>>

\* `if os.path.exists(path)` of config_interactive, `if not` of init_conf_folder.
Skip ==
  /\ ~opened
  /\ \/ stage = "first" /\ ~Exists(file)
     \/ stage = "init" /\ folder = "dir" /\ Exists(file)
  /\ Advance(FALSE)
  /\ UNCHANGED <<folder, files, n, opened, kept, refused, killed, hadOthers, deploy>>

Raise ==
  /\ stage' = "idle" /\ opened' = FALSE
  /\ UNCHANGED <<folder, n, file, kept, refused, settled, killed, hadOthers, deploy>>

\* init_conf_folder: the folder is made, or its name is taken.
InitFolder ==
  /\ stage = "init" /\ folder # "dir"
  /\ \/ /\ folder = "none"
        /\ folder' = "dir"
        /\ UNCHANGED <<files, n, stage, file, opened, kept, refused, settled, killed, hadOthers, deploy>>
     \/ /\ folder = "file"
        /\ Raise /\ UNCHANGED files

\* Which file a stage rewrites.
Rewrites ==
  /\ ~opened
  /\ \/ stage = "first" /\ Exists(file)
     \/ stage = "init" /\ folder = "dir" /\ ~Exists(file)
     \/ stage = "last"

Truncate == files' = [files EXCEPT ![file] = [value |-> Empty, others |-> FALSE]]

\* Mutant: the file is opened for writing before the value is set.
SetOpensFirst ==
  /\ Rewrites /\ Truncate
  /\ IF stage # "init" /\ file \in refused
     THEN Raise
     ELSE /\ kept' = files[file].others
          /\ opened' = TRUE
          /\ UNCHANGED <<folder, n, stage, file, refused, settled, killed, hadOthers, deploy>>

\* __set_credential_config and __set_cfc_config up to open(path, "w"), and the
\* "w+" of the two __init functions.
Set ==
  /\ Rewrites
  /\ IF stage # "init" /\ file \in refused
     THEN Raise /\ UNCHANGED files
     ELSE /\ kept' = files[file].others
          /\ Truncate
          /\ opened' = TRUE
          /\ UNCHANGED <<folder, n, stage, file, refused, settled, killed, hadOthers, deploy>>

\* conf.write, flushed when the file is closed.
Flush ==
  /\ opened
  /\ files' = [files EXCEPT ![file] = [value |-> IF stage = "init" THEN Initial ELSE n,
                                       others |-> kept]]
  /\ opened' = FALSE
  /\ Advance(stage = "last" /\ file = "config")
  /\ UNCHANGED <<folder, n, kept, refused, killed, hadOthers, deploy>>

\* The process is killed, or the disk is full when the new contents of an open
\* file are flushed, which raises: either way the file stays as it is.
Kill ==
  /\ stage # "idle"
  /\ stage' = "idle" /\ opened' = FALSE /\ killed' = TRUE
  /\ UNCHANGED <<folder, files, n, file, kept, refused, settled, hadOthers, deploy>>

-----------------------------------------------------------------------------
(* bsam deploy *)

NothingRead == [endpoint |-> Unread, keys |-> Unread, region |-> Unread]

\* Mutant: the settings are read once and kept for every later run.
StartDeployKeeps ==
  /\ rpc \in {"idle", "failed"}
  /\ asked' \in BOOLEAN
  /\ rpc' = IF asked' THEN "keys" ELSE "endpoint"
  /\ fn' = 1 /\ looked' = FALSE
  /\ calm' = (settled # Missing)
  /\ UNCHANGED <<config, got>>

\* execute_deploy_command, with --region or --endpoint or without.
StartDeploy ==
  /\ rpc \in {"idle", "failed"}
  /\ asked' \in BOOLEAN
  /\ rpc' = IF asked' THEN "keys" ELSE "endpoint"
  /\ fn' = 1 /\ looked' = FALSE /\ got' = NothingRead
  /\ calm' = (settled # Missing)
  /\ UNCHANGED config

\* What is read after a value: get_region_endpoint, get_credentials, and
\* get_region once more for create_function.
Follow(what) ==
  rpc' = CASE what = "endpoint" -> "keys" [] what = "keys" -> "exists" [] OTHER -> "next"

\* `if not os.path.exists(default_credential_file)` in both readers.
Look ==
  /\ rpc \in DOMAIN got /\ ~looked
  /\ IF Exists("credentials")
     THEN looked' = TRUE /\ UNCHANGED <<rpc, got>>
     ELSE got' = [got EXCEPT ![rpc] = Fallback] /\ UNCHANGED looked /\ Follow(rpc)
  /\ UNCHANGED <<config, asked, fn, calm>>

FileOf(what) == IF what = "keys" THEN "credentials" ELSE "config"

\* conf.read and conf.get: NoSectionError without a section, and
\* DeployContextException for a region that is not supported.
Read ==
  /\ rpc \in DOMAIN got /\ looked
  /\ looked' = FALSE
  /\ LET found == files[FileOf(rpc)].value IN
       IF found \in {Missing, Empty} \/ (rpc = "endpoint" /\ found \in Unsupported)
       THEN rpc' = "failed" /\ UNCHANGED got
       ELSE got' = [got EXCEPT ![rpc] = found] /\ Follow(rpc)
  /\ UNCHANGED <<config, asked, fn, calm>>

\* check_if_exist decides between create_function, which calls get_region, and
\* update_function.
CheckIfExist ==
  /\ rpc = "exists"
  /\ rpc' \in {"region", "next"}
  /\ UNCHANGED <<config, asked, looked, fn, got, calm>>

\* Mutant: the run goes on after the last function.
NextFunctionOneMore ==
  /\ rpc = "next"
  /\ IF fn <= Functions
     THEN /\ fn' = fn + 1 /\ got' = NothingRead
          /\ rpc' = IF asked THEN "keys" ELSE "endpoint"
     ELSE rpc' = "idle" /\ UNCHANGED <<fn, got>>
  /\ UNCHANGED <<config, asked, looked, calm>>

\* `for f in context.all_functions`: the next one reads everything anew.
NextFunction ==
  /\ rpc = "next"
  /\ IF fn < Functions
     THEN /\ fn' = fn + 1 /\ got' = NothingRead
          /\ rpc' = IF asked THEN "keys" ELSE "endpoint"
     ELSE rpc' = "idle" /\ UNCHANGED <<fn, got>>
  /\ UNCHANGED <<config, asked, looked, calm>>

Next ==
  \/ Configure \/ Skip \/ InitFolder \/ Set \/ Flush \/ Kill
  \/ StartDeploy \/ Look \/ Read \/ CheckIfExist \/ NextFunction

Spec == Init /\ [][Next]_vars

-----------------------------------------------------------------------------
\* Every variable is of its type, and a file is open only where one is written.
TypeOK ==
  /\ folder \in {"none", "dir", "file"}
  /\ files \in [Files -> Contents]
  /\ n \in 0..MaxConfigs
  /\ stage \in {"idle", "first", "init", "last"} /\ file \in Files
  /\ opened \in BOOLEAN /\ kept \in BOOLEAN /\ refused \subseteq Files
  /\ opened => stage # "idle"
  /\ rpc \in {"idle", "endpoint", "keys", "exists", "region", "next", "failed"}
  /\ asked \in BOOLEAN /\ fn \in 1..Functions /\ looked \in BOOLEAN
  /\ got \in [{"endpoint", "keys", "region"} -> {Unread, Fallback, Initial} \cup Typed]
  /\ settled \in {Missing} \cup 1..MaxConfigs
  /\ calm \in BOOLEAN /\ killed \in BOOLEAN /\ hadOthers \subseteq Files

\* A `bsam config` that completes leaves both files of its own configuration,
\* whatever earlier ones that were killed or refused had left
\* (config_interactive writes what exists, what is missing, and all again).
CompletedHeals ==
  settled # Missing => \A f \in Files : files[f].value = settled

\* A deploy run that no `bsam config` overlaps uses the keys and the region of
\* the last one that completed, for every function and for create_function's
\* own get_region, and fails only for a region that is not supported.
CalmReadsSettled ==
  calm =>
    /\ \A what \in DOMAIN got : got[what] \in {Unread, settled}
    /\ rpc = "failed" => settled \in Unsupported

\* The region of a configuration is never used with the keys of an earlier one,
\* however a deploy run and several `bsam config`s overlap: the keys are
\* written before the region, and get_region_endpoint reads before
\* get_credentials. Only the blank keys of a new file can come between.
RegionNotAheadOfKeys ==
  got.endpoint \in Typed /\ got.keys # Unread =>
    got.keys = Initial \/ got.keys >= got.endpoint

\* What is in a file is lost only by a kill or a full disk: a value that
\* ConfigParser refuses is refused before the file is opened for writing, and
\* the sections of other tools are read before it (__set_credential_config,
\* __set_cfc_config).
LossNeedsKill ==
  \A f \in Files :
    files[f].value = Empty \/ (f \in hadOthers /\ ~files[f].others) =>
      killed \/ (opened /\ file = f)
=============================================================================
