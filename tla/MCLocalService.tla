--------------------------- MODULE MCLocalService ----------------------------
(***************************************************************************)
(* Two requests to start-api, with routes that serve, that lead nowhere and*)
(* that take binary bodies, and a static folder, or to start-lambda; output*)
(* that ends in every kind of line.                                        *)
(***************************************************************************)
EXTENDS LocalService

Line(kind) == [kind |-> kind]
Json(status, type, body, encoded) ==
  [kind |-> "json", status |-> status, type |-> type, body |-> body, encoded |-> encoded]
Out(line) == [stream |-> "stdout", line |-> line]
Err(line) == [stream |-> "stderr", line |-> line]

Plain == Json(200, "application/json", "text", FALSE)
MCOutputs ==
  { <<Err(Line("text")), Out(Line("text")), Out(Plain), Out(Blank)>>,
    <<Out(Json(0, "image/png", "base64", TRUE))>>,
    <<Out(Blank), Out(Json(200, "image/png", "none", TRUE))>>,
    <<Out(Line("text")), Out(Line("error"))>>,
    <<Out(Line("undecodable"))>>,
    <<Out(Json(-1, "text/css", "text", FALSE))>>,
    <<Out(Blank)>> }

MCRoutes ==
  { [path |-> "p", method |-> "GET", function |-> "F", media |-> {"image/png"}],
    [path |-> "p", method |-> "POST", function |-> "F", media |-> {}],
    [path |-> "gone", method |-> "GET", function |-> "G", media |-> {}] }

Call(path, method, body) ==
  [path |-> path, method |-> method, body |-> body, type |-> "text/css", accepts |-> {"image/png"}]
Invocation(path, method, body, function) ==
  [path |-> path, method |-> method, body |-> body, args |-> FALSE, logType |-> "None",
   invocationType |-> "RequestResponse", function |-> function]
Good == Invocation("invocations", "POST", "json", "F")

MCInputs ==
  [c \in {"invoke", "start-api", "start-lambda"} |->
     IF c = "start-lambda"
     THEN { Good, [Good EXCEPT !.args = TRUE], [Good EXCEPT !.logType = "Tail"],
            Invocation("elsewhere", "POST", "text", "F"), Invocation("elsewhere", "POST", "none", "F"),
            Invocation("invocations", "GET", "none", "F"), Invocation("invocations", "POST", "none", "G"),
            Invocation("invocations", "POST", "binary", "F") }
     ELSE { Call("p", "GET", "none"), Call("p", "HEAD", "none"), Call("p", "POST", "binary"),
            Call("elsewhere", "GET", "none"), Call("gone", "GET", "text"),
            Call("page", "GET", "none"), Call("p", "OPTIONS", "none") }]

\* The services with a log file and a static folder, or with a debugger: a server without either is
\* one whose log never closes.
MCOptions ==
  [command : {"start-api", "start-lambda"}, debugging : {FALSE}, envFile : {TRUE}, logFile : {TRUE},
   static : {TRUE}]
    \cup
  [command : {"start-api", "start-lambda"}, debugging : {TRUE}, envFile : {TRUE}, logFile : {FALSE},
   static : {FALSE}]
    \cup
  [command : {"invoke"}, debugging : BOOLEAN, envFile : {TRUE}, logFile : BOOLEAN, static : {FALSE}]
=============================================================================
