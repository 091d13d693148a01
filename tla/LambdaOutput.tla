---------------------------- MODULE LambdaOutput -----------------------------
(***************************************************************************)
(* How the local services read a request, and what they make of a          *)
(* function's output: LambdaOutputParser, LocalApigwService,               *)
(* LocalLambdaInvokeService and their error responses.                     *)
(*                                                                         *)
(* Output is a sequence of lines [kind, ..]. A line of kind "json" is a    *)
(* dictionary with the fields `status`, `type`, `body` and `encoded` of a  *)
(* response; "error" is one with exactly errorMessage, errorType and       *)
(* stackTrace; "scalar" is JSON that is no dictionary; "text" is no JSON;  *)
(* "undecodable" no UTF-8; "blank" has nothing.                            *)
(***************************************************************************)
EXTENDS Integers, Sequences, SequencesExt, FiniteSetsExt

Blank == [kind |-> "blank"]

\* An answer: its status, what is in it (a line of the function's, or a
\* message of the service's), and whether it says that the function failed.
Reply(status, body) == [status |-> status, body |-> body, error |-> FALSE]
Message(text) == [kind |-> text]

-----------------------------------------------------------------------------
(* LambdaOutputParser.get_lambda_output *)

\* rstrip(b'\n').
Stripped(lines) ==
  SubSeq(lines, 1, Max({0} \cup {i \in DOMAIN lines : lines[i] # Blank}))

Response(lines) == IF Stripped(lines) = <<>> THEN Blank ELSE Last(Stripped(lines))

\* Mutant: logs are only looked for where there are more than two lines.
LogsOfTwo(lines) == IF Len(Stripped(lines)) <= 2 THEN <<>> ELSE Front(Stripped(lines))

\* What is before the last line; a single line with nothing in it is b'', which
\* the handlers take for no logs.
Logs(lines) ==
  IF Stripped(lines) = <<>> \/ Front(Stripped(lines)) = <<Blank>> THEN <<>>
  ELSE Front(Stripped(lines))

-----------------------------------------------------------------------------
(* LocalApigwService *)

\* ServiceErrorResponses; LocalApigwService registers them for 404, 405 and 500.
RouteNotFound == Reply(403, Message("Missing Authentication Token"))
LambdaNotFound == Reply(502, Message("No function defined for resource method"))
LambdaFailure == Reply(502, Message("Internal server error"))

\* Flask's own lookup: GET rules serve HEAD, too.
Dispatches(route, request) ==
  /\ route.path = request.path
  /\ route.method = request.method \/ (route.method = "GET" /\ request.method = "HEAD")

\* Flask's own rule "/<path:filename>" for the files of static_folder: what is
\* not there is a 404, and it answers OPTIONS by itself.
StaticFile == Reply(200, Message("file"))
AutomaticOptions == Reply(200, Message("options"))
StaticReply(files, request) ==
  CASE request.path = "/" -> RouteNotFound
    [] request.path # "/" /\ request.method = "OPTIONS" -> AutomaticOptions
    [] request.path \in files \ {"/"} /\ request.method \in {"GET", "HEAD"} -> StaticFile
    [] OTHER -> RouteNotFound

\* _get_current_route, which raises KeyError for a HEAD.
RoutesFor(routes, request) ==
  {r \in routes : r.path = request.path /\ r.method = request.method}

\* _should_base64_encode and _construct_event: a body that is neither text nor
\* of a binary type cannot be decoded.
EventFails(route, request) ==
  /\ request.body = "binary"
  /\ request.type \notin route.media /\ "*/*" \notin route.media

\* _should_base64_decode_body: best_match gives a type that the client accepts.
ShouldDecode(line, route, request) ==
  /\ line.type \in request.accepts
  /\ line.type \in route.media \/ "*/*" \in route.media
  /\ line.encoded

\* Mutant: a response without a statusCode is not completed.
UnparsableBare(line, route, request) ==
  \/ line.kind \notin {"json", "error"}
  \/ line.kind = "json" /\ line.status <= 0

\* _parse_lambda_output raises KeyError, TypeError or ValueError; the default
\* body "no data" is no base64. A negative status stands for any field that is
\* of no use: a statusCode that is no number, headers or a body of a wrong type,
\* whose answer is 502 all the same.
Unparsable(line, route, request) ==
  \/ line.kind \notin {"json", "error"}
  \/ /\ line.kind = "json"
     /\ \/ line.status < 0
        \/ ShouldDecode(line, route, request) /\ line.body # "base64"

\* A dictionary of any shape is a response, {"statusCode": 0} and the error of
\* a function among them: 200 and "no data".
ApiReply(line, route, request) ==
  IF Unparsable(line, route, request) THEN LambdaFailure
  ELSE Reply(IF line.kind = "json" /\ line.status > 0 THEN line.status ELSE 200, line)

-----------------------------------------------------------------------------
(* LocalLambdaInvokeService *)

\* LambdaErrorResponses; the service registers the last three for 404, 405, 500.
InvalidRequestContent == Reply(400, Message("InvalidRequestContent"))
NotImplementedLocally == Reply(501, Message("NotImplemented"))
ResourceNotFound == Reply(404, Message("ResourceNotFound"))
PathNotFound == Reply(404, Message("PathNotFoundLocally"))
MethodNotAllowed == Reply(405, Message("MethodNotAllowedLocally"))
ServiceException == Reply(500, Message("Service"))

Accepted == Reply(0, Blank)

\* validate_request, before Flask looks for a route: no body is {}, one that is
\* no UTF-8 raises.
Validate(request) ==
  CASE request.body = "binary" -> ServiceException
    [] request.body = "text" -> InvalidRequestContent
    [] request.args -> InvalidRequestContent
    [] request.logType # "None" -> NotImplementedLocally
    [] request.invocationType # "RequestResponse" -> NotImplementedLocally
    [] OTHER -> Accepted

\* An error of the function is told in a header, and the status is 200.
InvokeReply(line) == [status |-> 200, body |-> line, error |-> line.kind = "error"]
=============================================================================
