--------------------------- MODULE FunctionSetup ----------------------------
(***************************************************************************)
(* The configuration a function runs with locally: LocalLambdaRunner reads *)
(* the template's function, the --env-vars file, the shell and the user's  *)
(* credentials into a FunctionConfig with its EnvironmentVariables.        *)
(*                                                                         *)
(* A value is [kind, text]: kind is "text" for whatever str() gives as it  *)
(* is, "boolean", "intrinsic" for an unresolved dict or list, or "none".   *)
(***************************************************************************)
EXTENDS Template

CONSTANTS
  DefaultTimeout,   \* FunctionConfig._DEFAULT_TIMEOUT_SECONDS
  MaxDebugTimeout   \* LocalLambdaRunner.MAX_DEBUG_TIMEOUT

VARIABLES
  setting,  \* what is outside of the template: [shell, file, keys, debugging]
  runs      \* the FunctionConfig of each invocation, in order

setupVars == <<setting, runs>>

String(text) == [kind |-> "text", text |-> text]
NoVariables == [n \in {} |-> String("")]

\* _stringify_value: a bool in lower case, no dict, list or None.
Stringify(value) ==
  CASE value.kind = "text" -> value
    [] value.kind = "boolean" -> String(IF value.text = "True" THEN "true" ELSE "false")
    [] OTHER -> String("")

\* A dictionary updated with another one: what is in the first stays.
Over(first, second) ==
  [n \in DOMAIN first \cup DOMAIN second |->
     IF n \in DOMAIN first THEN first[n] ELSE second[n]]

\* _HANDLER, _REQUEST_ID and the session token are left out: they are added as
\* these are.
BceNames == {"BCE_SAM_LOCAL", "BCE_ACCESS_KEY_ID", "BCE_ACCESS_KEY_SECRET", "_TIMEOUT"}

\* get_bce_creds leaves out empty keys, and _get_bce_variables has a default for
\* what is left out.
BceVariables(keys, timeout) ==
  [n \in BceNames |->
     CASE n = "BCE_SAM_LOCAL" -> String("true")
       [] n = "BCE_ACCESS_KEY_ID" -> String(IF keys = "" THEN "defaultkey" ELSE keys)
       [] n = "BCE_ACCESS_KEY_SECRET" -> String(IF keys = "" THEN "defaultsecret" ELSE keys)
       [] n = "_TIMEOUT" -> String(timeout)]

\* _make_env_vars: {"Parameters": {..}} is for every function, otherwise the
\* file is by function.
OverridesFor(file, name) ==
  IF "Parameters" \in DOMAIN file THEN file["Parameters"]
  ELSE IF name \in DOMAIN file THEN file[name] ELSE NoVariables

\* Mutants of resolve: all of the shell is passed on; the shell wins.
ResolveLeaks(variables, shell, overrides, bce) ==
  Over([n \in DOMAIN overrides |-> Stringify(overrides[n])],
       Over(shell, Over([n \in DOMAIN variables |-> Stringify(variables[n])], bce)))

\* EnvironmentVariables.resolve: only variables of the template count, with the
\* value of the override file, the shell, or the template, in this order, and
\* they go before the BCE ones.
Resolve(variables, shell, overrides, bce) ==
  Over([n \in DOMAIN variables |->
          Stringify(CASE n \in DOMAIN overrides -> overrides[n]
                      [] n \in DOMAIN shell /\ n \notin DOMAIN overrides -> shell[n]
                      [] OTHER -> variables[n])],
       bce)

\* FunctionConfig.__init__: `timeout or default`, applied again to env_vars.
Config(f, own, variables) ==
  LET timeout == IF own = 0 THEN DefaultTimeout ELSE own IN
  [name |-> f.id, timeout |-> timeout,
   env |-> Resolve(variables, setting.shell, OverridesFor(setting.file, f.id),
                   BceVariables(setting.keys, timeout))]

SetupInit == runs = <<>>

\* invoke and _get_invoke_config: FunctionNotFound, or a configuration for
\* CfcRuntime.invoke; ten hours when debugging.
SetUp(name) ==
  /\ \E i \in DOMAIN AllFunctions : AllFunctions[i].id = name
  /\ LET f == (CHOOSE g \in {AllFunctions[i] : i \in DOMAIN AllFunctions} : g.id = name)
         own == IF setting.debugging THEN MaxDebugTimeout ELSE f.timeout
     IN  runs' = Append(runs, Config(f, own, f.variables))
  /\ UNCHANGED <<resources, setting>>
=============================================================================
