---------------------------- MODULE LocalService -----------------------------
(***************************************************************************)
(* start-api and start-lambda serving requests: Flask runs a handler for   *)
(* each, in a thread of its own unless a debugger is attached; the handler *)
(* invokes the function, splits what it wrote to stdout into logs and a    *)
(* response, passes the logs on to stderr, and answers. stderr is shared   *)
(* by all handlers, and closed by the command when Ctrl+C ends it. What    *)
(* start-api has no route for is looked for in its static folder.          *)
(***************************************************************************)
EXTENDS LambdaOutput, InvokeContext, TLC

CONSTANTS
  Requests,        \* the requests of clients
  OptionChoices,   \* the command lines, with `static`: whether --static-dir exists
  Routes,          \* the routes of start-api: [path, method, function, media]
  StaticFiles,     \* the paths of the files in the static folder
  Functions,       \* the functions that the provider finds
  Inputs,          \* the requests a client may make, by command
  Outputs,         \* what a function may write: sequences of [stream, line]
  MaxInterrupts    \* how often Ctrl+C is pressed

VARIABLES
  pc,        \* where the handler of a request is
  request,   \* what the client sent
  output,    \* what the function of a request is to write
  written,   \* how much of it is written
  stdout,    \* the handler's BytesIO
  stderr,    \* the shared stream: [request, line], in order
  cut,       \* whether its container was stopped before the function ended
  unclean,   \* whether its event file or its container could not be removed
  reply,     \* the answer
  interrupts \* how often Ctrl+C may still be pressed

requestVars == <<pc, request, output, written, stdout, stderr, cut, unclean, reply>>
vars == <<contextVars, requestVars, interrupts>>

\* No output is the mark of a request whose function has not run.
NotRun == <<[stream |-> "none"]>>

ASSUME ServiceAssumption ==
  /\ \A o \in OptionChoices : /\ o.debugging \in BOOLEAN /\ o.static \in BOOLEAN
                               /\ Inputs[o.command] # {}
  /\ \A o \in Outputs :
       /\ o \in Seq(ToSet(o))
       /\ \A p \in ToSet(o) : /\ p.stream \in {"stdout", "stderr"}
                              /\ p.line.kind = "json" => p.line.status \in Int
  /\ NotRun \notin Outputs
  /\ MaxInterrupts \in Nat

\* LocalApigwService finds the function in the route, the other in the path.
Api == options.command = "start-api"
RouteOf(r) == CHOOSE route \in RoutesFor(Routes, request[r]) : TRUE
FunctionOf(r) == IF Api THEN RouteOf(r).function ELSE request[r].function

\* A request is for a function if Flask has a rule for it that leads to one.
ForFunction(r) ==
  IF Api THEN \E route \in Routes : Dispatches(route, request[r])
  ELSE request[r].path = "invocations"

InternalError == IF Api THEN LambdaFailure ELSE ServiceException

NoReply == Reply(0, Blank)
InHandler == {"handle", "run", "running", "cleanup", "parse", "logs", "answer"}
Open == {r \in Requests : pc[r] \in InHandler}

Init ==
  /\ options \in OptionChoices
  /\ ContextInit
  /\ pc = [r \in Requests |-> "none"]
  /\ request = [r \in Requests |-> CHOOSE i \in Inputs[options.command] : TRUE]
  /\ output = [r \in Requests |-> NotRun]
  /\ written = [r \in Requests |-> 0]
  /\ stdout = [r \in Requests |-> <<>>]
  /\ stderr = <<>>
  /\ cut = [r \in Requests |-> FALSE]
  /\ unclean = [r \in Requests |-> FALSE]
  /\ reply = [r \in Requests |-> NoReply]
  /\ interrupts = MaxInterrupts

Step(r, next) ==
  /\ pc' = [pc EXCEPT ![r] = next]
  /\ UNCHANGED <<contextVars, interrupts, unclean>>

AnswerWith(r, answer) ==
  /\ Step(r, "answer")
  /\ reply' = [reply EXCEPT ![r] = answer]
  /\ UNCHANGED <<request, output, written, stdout, stderr, cut>>

-----------------------------------------------------------------------------
(* Handlers *)

\* Mutant: the server is threaded with a debugger attached, too.
ReceiveThreaded(r) ==
  /\ main = "serving" /\ pc[r] = "none"
  /\ Step(r, "handle")
  /\ request' \in {[request EXCEPT ![r] = i] : i \in Inputs[options.command]}
  /\ UNCHANGED <<output, written, stdout, stderr, cut, reply>>

\* BaseLocalService.run: `threaded=not self.is_debugging`.
Receive(r) ==
  /\ main = "serving" /\ pc[r] = "none"
  /\ options.debugging => Open = {}
  /\ Step(r, "handle")
  /\ request' \in {[request EXCEPT ![r] = i] : i \in Inputs[options.command]}
  /\ UNCHANGED <<output, written, stdout, stderr, cut, reply>>

Proceed(r) ==
  /\ Step(r, "run")
  /\ UNCHANGED <<request, output, written, stdout, stderr, cut, reply>>

\* LocalApigwService: Flask's routing, with the static folder mounted at "/", and
\* _request_handler up to invoke.
HandleApi(r) ==
  LET q == request[r] IN
  /\ pc[r] = "handle" /\ Api
  /\ \/ /\ ~ForFunction(r)
        /\ AnswerWith(r, IF options.static THEN StaticReply(StaticFiles, q) ELSE RouteNotFound)
     \/ /\ ForFunction(r)
        /\ RoutesFor(Routes, q) = {}
        /\ AnswerWith(r, LambdaFailure)
     \/ /\ RoutesFor(Routes, q) # {}
        /\ IF EventFails(RouteOf(r), q) THEN AnswerWith(r, LambdaFailure)
           ELSE IF FunctionOf(r) \notin Functions THEN AnswerWith(r, LambdaNotFound)
           ELSE Proceed(r)

\* Mutant: the function of a path is not looked up.
HandleInvokeAny(r) ==
  /\ pc[r] = "handle" /\ ~Api
  /\ IF Validate(request[r]) # Accepted THEN AnswerWith(r, Validate(request[r])) ELSE Proceed(r)

\* LocalLambdaInvokeService: validate_request, Flask's routing and
\* _invoke_request_handler up to invoke.
HandleInvoke(r) ==
  LET q == request[r] IN
  /\ pc[r] = "handle" /\ ~Api
  /\ IF Validate(q) # Accepted THEN AnswerWith(r, Validate(q))
     ELSE IF q.path # "invocations" THEN AnswerWith(r, PathNotFound)
     ELSE IF q.method # "POST" THEN AnswerWith(r, MethodNotAllowed)
     ELSE IF FunctionOf(r) \notin Functions THEN AnswerWith(r, ResourceNotFound)
     ELSE Proceed(r)

\* LocalLambdaRunner.invoke reaches the container.
Run(r) ==
  /\ pc[r] = "run"
  /\ Step(r, "running")
  /\ output' \in {[output EXCEPT ![r] = o] : o \in Outputs}
  /\ UNCHANGED <<request, written, stdout, stderr, cut, reply>>

Piece(r) == output[r][written[r] + 1]

\* Container._write_container_output passes on what the function writes; a
\* closed log raises ValueError, and the finally block removes the container.
Emit(r) ==
  /\ pc[r] = "running" /\ written[r] < Len(output[r])
  /\ IF Piece(r).stream = "stderr" /\ log = "closed"
     THEN AnswerWith(r, InternalError)
     ELSE /\ written' = [written EXCEPT ![r] = @ + 1]
          /\ IF Piece(r).stream = "stdout"
             THEN stdout' = [stdout EXCEPT ![r] = Append(@, Piece(r).line)] /\ UNCHANGED stderr
             ELSE stderr' = Append(stderr, [request |-> r, line |-> Piece(r).line]) /\ UNCHANGED stdout
          /\ UNCHANGED <<contextVars, interrupts, pc, request, output, cut, unclean, reply>>

FunctionEnds(r) ==
  /\ pc[r] = "running" /\ written[r] = Len(output[r])
  /\ Step(r, "cleanup")
  /\ UNCHANGED <<request, output, written, stdout, stderr, cut, reply>>

\* Mutant: the timer is armed until the function first writes.
TimerFiresEarly(r) ==
  /\ pc[r] = "running" /\ ~options.debugging /\ written[r] = 0
  /\ Step(r, "cleanup")
  /\ cut' = [cut EXCEPT ![r] = TRUE]
  /\ UNCHANGED <<request, output, written, stdout, stderr, reply>>

\* The timer of CfcRuntime.invoke stops the container; there is none when
\* debugging.
TimerFires(r) ==
  /\ pc[r] = "running" /\ ~options.debugging
  /\ Step(r, "cleanup")
  /\ cut' = [cut EXCEPT ![r] = TRUE]
  /\ UNCHANGED <<request, output, written, stdout, stderr, reply>>

\* An error of Docker, or of the function's files, before wait_for_logs returns:
\* the finally block stops the container, the exception goes on.
RuntimeFails(r) ==
  /\ pc[r] \in {"run", "running"}
  /\ Step(r, "answer")
  /\ reply' = [reply EXCEPT ![r] = InternalError]
  /\ cut' = [cut EXCEPT ![r] = TRUE]
  /\ UNCHANGED <<request, output, written, stdout, stderr>>

\* The finally block after a function has ended or was stopped.
CleanUp(r) ==
  /\ pc[r] = "cleanup"
  /\ Step(r, "parse")
  /\ UNCHANGED <<request, output, written, stdout, stderr, cut, reply>>

\* os.unlink or the removal of the container raises there: the output is lost.
CleanUpFails(r) ==
  /\ pc[r] = "cleanup"
  /\ pc' = [pc EXCEPT ![r] = "answer"]
  /\ reply' = [reply EXCEPT ![r] = InternalError]
  /\ unclean' = [unclean EXCEPT ![r] = TRUE]
  /\ UNCHANGED <<contextVars, interrupts, request, output, written, stdout, stderr, cut>>

\* get_lambda_output, whose decode() no handler guards, and the write of the
\* logs to stderr, which may be closed.
Parse(r) ==
  LET logs == Logs(stdout[r]) IN
  /\ pc[r] = "parse"
  /\ IF Response(stdout[r]).kind = "undecodable" \/ (logs # <<>> /\ log = "closed")
     THEN AnswerWith(r, InternalError)
     ELSE /\ Step(r, "logs")
          /\ stderr' = stderr \o [i \in DOMAIN logs |-> [request |-> r, line |-> logs[i]]]
          /\ UNCHANGED <<request, output, written, stdout, cut, reply>>

\* The rest of both handlers.
MakeReply(r) ==
  LET line == Response(stdout[r]) IN
  /\ pc[r] = "logs"
  /\ AnswerWith(r, IF Api THEN ApiReply(line, RouteOf(r), request[r]) ELSE InvokeReply(line))

Answer(r) ==
  /\ pc[r] = "answer"
  /\ Step(r, "answered")
  /\ UNCHANGED <<request, output, written, stdout, stderr, cut, reply>>

Handler(r) ==
  \/ HandleApi(r) \/ HandleInvoke(r) \/ Run(r)
  \/ CleanUp(r) \/ Parse(r) \/ MakeReply(r) \/ Answer(r)

Function(r) == Emit(r) \/ FunctionEnds(r) \/ RuntimeFails(r) \/ CleanUpFails(r)

-----------------------------------------------------------------------------
(* The command *)

Command == ContextStep /\ UNCHANGED <<requestVars, interrupts>>

Drop(dropped) == pc' = [r \in Requests |-> IF r \in dropped THEN "dropped" ELSE pc[r]]

\* Ctrl+C on a threaded server ends its loop; its handlers go on as long as the
\* process lives.
CtrlC ==
  /\ interrupts > 0 /\ interrupts' = interrupts - 1
  /\ StopServing
  /\ options.debugging => Open = {}
  /\ UNCHANGED requestVars

\* With a debugger the handler runs in the main thread: CfcRuntime.invoke
\* swallows Ctrl+C while the function runs; at any other point it ends the
\* handler, and the command with it.
CtrlCInHandler ==
  /\ interrupts > 0 /\ interrupts' = interrupts - 1
  /\ options.debugging
  /\ \E r \in Open :
       \/ /\ pc[r] = "running"
          /\ pc' = [pc EXCEPT ![r] = "cleanup"]
          /\ cut' = [cut EXCEPT ![r] = TRUE]
          /\ UNCHANGED <<contextVars, request, output, written, stdout, stderr, unclean, reply>>
       \/ /\ StopServing
          /\ Drop({r})
          /\ UNCHANGED <<request, output, written, stdout, stderr, cut, unclean, reply>>

\* The process ends once no timer is left, whose threads are no daemons'.
ProcessEnds ==
  /\ main = "ended" /\ Open # {}
  /\ \A r \in Open : pc[r] # "running"
  /\ Drop(Open)
  /\ UNCHANGED <<contextVars, interrupts, request, output, written, stdout, stderr, cut, unclean,
                 reply>>

Next ==
  \/ Command \/ CtrlC \/ CtrlCInHandler \/ ProcessEnds
  \/ \E r \in Requests : Receive(r) \/ Handler(r) \/ Function(r) \/ TimerFires(r)

Spec == Init /\ [][Next]_vars

\* Handlers are scheduled and timers go off; whether a function ever ends is its
\* own affair.
FairSpec == Spec /\ \A r \in Requests : WF_vars(Handler(r)) /\ WF_vars(TimerFires(r))

-----------------------------------------------------------------------------
LineKinds == {"blank", "text", "scalar", "undecodable", "json", "error"}
Replied(r) == pc[r] \in {"answer", "answered"}
\* The answer is the function's, not an error of the service.
FromFunction(r) == reply[r].body.kind \in LineKinds
\* The answer is Flask's own, from the static folder.
StaticKinds == {"file", "options"}
FromStatic(r) == Api /\ reply[r].body.kind \in StaticKinds

\* The lines of those elements of s that have the value in the field.
LinesOf(s, field, value) ==
  LET f[n \in 0..Len(s)] ==
        IF n = 0 THEN <<>>
        ELSE IF s[n][field] = value THEN Append(f[n - 1], s[n].line) ELSE f[n - 1]
  IN  f[Len(s)]

\* What the function of a request wrote to a stream.
Lines(r, stream) == LinesOf(SubSeq(output[r], 1, written[r]), "stream", stream)

\* What of a request has gone to the shared stderr.
Passed(r) == LinesOf(stderr, "request", r)

TypeOK ==
  /\ main \in {"event", "template", "env vars", "log file", "debug context", "ping", "inside",
                 "named", "serving", "ended"}
  /\ log \in {"none", "open", "closed"}
  /\ verdict \in {"none", "done", "user error", "traceback"}
  /\ pc \in [Requests -> InHandler \cup {"none", "answered", "dropped"}]
  /\ \A r \in Requests :
       /\ request[r] \in Inputs[options.command]
       /\ output[r] \in Outputs \cup {NotRun} /\ written[r] \in 0..Len(output[r])
       /\ pc[r] = "running" => main \in {"serving", "ended"} /\ FunctionOf(r) \in Functions
       /\ Len(stdout[r]) <= written[r]
       /\ cut[r] \in BOOLEAN /\ unclean[r] \in BOOLEAN /\ reply[r].error \in BOOLEAN
  /\ interrupts \in 0..MaxInterrupts

\* An answer that comes from a function is made of the output of this request's
\* run and of no other's, and of all of it: the last line that is not empty is
\* the response, and what precedes it was passed on to stderr, in order, before
\* the answer, but for a first line with nothing in it that is all there is (the
\* comments in LambdaOutputParser and the request handlers).
WholeOutput ==
  \A r \in Requests :
    Replied(r) /\ FromFunction(r) =>
      LET out == Lines(r, "stdout")
          err == Lines(r, "stderr")
          logs == SubSeq(Passed(r), Len(err) + 1, Len(Passed(r)))
      IN  /\ ~cut[r] => written[r] = Len(output[r])
          /\ IsPrefix(err, Passed(r))
          /\ \/ logs = <<>> /\ reply[r].body = Blank /\ ToSet(out) \subseteq {Blank}
             \/ \E n \in 0..Len(out), first \in {logs, <<Blank>>} :
                  /\ first = logs \/ logs = <<>>
                  /\ out = first \o <<reply[r].body>> \o [i \in 1..n |-> Blank]

\* A status tells what happened: a request that is refused with 4xx or 501 ran
\* nothing, and a function that ended by itself with a plain response is never
\* answered for with an error, unless the log was closed under it or its event
\* file or its container could not be removed after it (runtime.py:108-116).
StatusTellsCause ==
  \A r \in Requests :
    Replied(r) /\ ~FromFunction(r) =>
      LET out == Lines(r, "stdout") IN
      /\ reply[r].status \in {400, 403, 404, 405, 501} => output[r] = NotRun
      /\ ~cut[r] /\ ~unclean[r] /\ written[r] = Len(output[r]) /\ out # <<>> /\ log # "closed" =>
           ~(Last(out).kind = "json" /\ Last(out).status >= 0
               /\ (Last(out).encoded => Last(out).body = "base64"))

\* Whatever its function does, a request to a threaded server is answered, or
\* goes down with the process.
EveryRequestAnswered ==
  \A r \in Requests :
    ~options.debugging /\ pc[r] \in InHandler ~> pc[r] \in {"answered", "dropped"}

-----------------------------------------------------------------------------
(* The services implement RequestReply. *)
ServiceState == IF main = "serving" THEN "up" ELSE IF main = "ended" THEN "stopped" ELSE "down"
CallOf(r) ==
  IF pc[r] \in InHandler THEN "open"
  ELSE IF pc[r] = "answered"
  THEN IF FromFunction(r) THEN "success" ELSE IF FromStatic(r) THEN "resource" ELSE "failure"
  ELSE pc[r]

Contract == INSTANCE RequestReply WITH
  service <- ServiceState,
  serial <- options.debugging,
  call <- [r \in Requests |-> CallOf(r)],
  declared <- [r \in Requests |-> ForFunction(r)],
  ran <- [r \in Requests |-> output[r] # NotRun]

\* Every step of a service is one that its clients may expect: one run and one
\* answer for a request, one request at a time under a debugger, no success
\* without a run but for the static files of a path that no route has, and none
\* left behind but by the end of the command.
ImplementsRequestReply == Contract!Spec
=============================================================================
