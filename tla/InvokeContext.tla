---------------------------- MODULE InvokeContext ----------------------------
(***************************************************************************)
(* What the commands of `bsam local` do around a function: InvokeContext   *)
(* checks and opens what they need, one step after the other, `with` closes*)
(* it again, and do_cli turns some exceptions into messages for the user.  *)
(***************************************************************************)
VARIABLES
  options,  \* the command line: [command, debugging, envFile, logFile]
  main,     \* where the command is
  log,      \* _log_file_handle: "none", "open" or "closed"
  verdict   \* how it ended: "none", "done", "user error" or "traceback"

contextVars == <<options, main, log, verdict>>

Services == {"start-api", "start-lambda"}

ContextInit ==
  /\ main = "event" /\ log = "none" /\ verdict = "none"

\* An exception of __enter__: __exit__ is not called, an open log stays open.
Refuse(error) ==
  /\ main' = "ended" /\ verdict' = error
  /\ UNCHANGED <<options, log>>

Go(next) == main' = next /\ UNCHANGED <<options, log, verdict>>

\* do_cli of invoke, before its `with`: --no-event with --event, a file that is
\* not there. The other commands have no event yet.
GetEvent ==
  /\ main = "event"
  /\ \/ Go("template")
     \/ options.command = "invoke" /\ (Refuse("user error") \/ Refuse("traceback"))

\* _get_template_data and SamFunctionProvider: InvokeContextException and
\* InvalidSamDocumentException.
GetTemplate == main = "template" /\ (Go("env vars") \/ Refuse("user error"))

\* _get_env_vars_value: whatever goes wrong with the file is the user's error.
GetEnvVars ==
  /\ main = "env vars"
  /\ Go("log file") \/ (options.envFile /\ Refuse("user error"))

\* _setup_log_file opens it with 'wb': an earlier log is gone. An OSError is
\* nobody's to catch.
SetupLogFile ==
  /\ main = "log file"
  /\ \/ /\ main' = "debug context"
        /\ log' = IF options.logFile THEN "open" ELSE "none"
        /\ UNCHANGED <<options, verdict>>
     \/ options.logFile /\ Refuse("traceback")

\* _get_debug_context: the debugger's directory is missing, or cannot be read.
GetDebugContext ==
  /\ main = "debug context"
  /\ Go("ping") \/ (options.debugging /\ (Refuse("user error") \/ Refuse("traceback")))

\* _check_docker_connectivity, the last of __enter__'s steps.
CheckDocker == main = "ping" /\ (Go("inside") \/ Refuse("user error"))

Enter == GetTemplate \/ GetEnvVars \/ SetupLogFile \/ GetDebugContext \/ CheckDocker

\* __exit__, on a return as on an exception.
Leave(how) ==
  /\ main' = "ended" /\ verdict' = how
  /\ log' = IF log = "open" THEN "closed" ELSE log
  /\ UNCHANGED options

\* function_name of invoke and install: several functions and no identifier.
NameFunction ==
  /\ main = "inside" /\ options.command \notin Services
  /\ Go("named") \/ Leave("user error")

\* LocalLambdaRunner.invoke: FunctionNotFound is the user's error, an error of
\* the runtime is not.
RunFunction ==
  /\ main = "named"
  /\ \E how \in {"done", "user error", "traceback"} : Leave(how)

\* LocalApiService and LocalLambdaService up to Flask's run: no APIs, a bad API
\* event or no access to S3, a port that is taken.
StartService ==
  /\ main = "inside" /\ options.command \in Services
  /\ \/ Go("serving")
     \/ options.command = "start-api" /\ Leave("user error")
     \/ Leave("traceback")

\* Ctrl+C ends the server's loop as if it were done.
StopServing == main = "serving" /\ Leave("done")

ContextStep == GetEvent \/ Enter \/ NameFunction \/ RunFunction \/ StartService
=============================================================================
