------------------------- MODULE LocalServiceProofs --------------------------
(***************************************************************************)
(* The local services implement RequestReply, and their answers are made   *)
(* of the output of their own functions and of all of it, whatever the     *)
(* routes, the functions and their output, and however many requests there *)
(* are.                                                                    *)
(***************************************************************************)
EXTENDS LocalService, SequenceTheorems, WellFoundedInduction, TLAPS

Places ==
  {"event", "template", "env vars", "log file", "debug context", "ping", "inside", "named",
   "serving", "ended"}

\* Where a request is tells whether its function has run; what is answered for a
\* function is so after it has.
RunsOnce ==
  \A r \in Requests :
    /\ pc[r] \in {"none", "handle", "run"} => output[r] = NotRun
    /\ pc[r] \in {"running", "cleanup", "parse", "logs"} => output[r] # NotRun
    /\ pc[r] = "answer" /\ FromFunction(r) => output[r] # NotRun

\* What is run is a request for a function, and no other is answered from the
\* static folder.
ToItsPlace ==
  \A r \in Requests :
    /\ pc[r] = "run" => ForFunction(r)
    /\ pc[r] = "answer" /\ FromStatic(r) => ~ForFunction(r)

Shapes ==
  /\ main \in Places
  /\ options.debugging \in BOOLEAN
  /\ pc \in [Requests -> InHandler \cup {"none", "answered", "dropped"}]
  /\ DOMAIN output = Requests /\ output = [r \in Requests |-> output[r]]
  /\ DOMAIN reply = Requests /\ reply = [r \in Requests |-> reply[r]]
  /\ DOMAIN request = Requests

ServiceInv == Shapes /\ RunsOnce /\ ToItsPlace

\* The services' own messages are no lines of a function, and none but Flask's
\* are of the static folder.
LEMMA MessagesAreNoLines ==
  /\ RouteNotFound.body.kind \notin LineKinds
  /\ LambdaNotFound.body.kind \notin LineKinds
  /\ LambdaFailure.body.kind \notin LineKinds
  /\ PathNotFound.body.kind \notin LineKinds
  /\ MethodNotAllowed.body.kind \notin LineKinds
  /\ ResourceNotFound.body.kind \notin LineKinds
  /\ InternalError.body.kind \notin LineKinds
  /\ \A q : Validate(q) # Accepted => Validate(q).body.kind \notin LineKinds
  /\ \A files, q : StaticReply(files, q).body.kind \notin LineKinds
  /\ LambdaNotFound.body.kind \notin StaticKinds
  /\ LambdaFailure.body.kind \notin StaticKinds
  /\ PathNotFound.body.kind \notin StaticKinds
  /\ MethodNotAllowed.body.kind \notin StaticKinds
  /\ ResourceNotFound.body.kind \notin StaticKinds
  /\ InternalError.body.kind \notin StaticKinds
  /\ \A q : Validate(q) # Accepted => Validate(q).body.kind \notin StaticKinds
<1> USE DEF Reply, Message, LineKinds, StaticKinds
<1>1. \A kinds \in {LineKinds, StaticKinds} :
      /\ LambdaNotFound.body.kind \notin kinds
      /\ LambdaFailure.body.kind \notin kinds
      /\ PathNotFound.body.kind \notin kinds
      /\ MethodNotAllowed.body.kind \notin kinds
      /\ ResourceNotFound.body.kind \notin kinds
      /\ ServiceException.body.kind \notin kinds
      /\ InvalidRequestContent.body.kind \notin kinds
      /\ NotImplementedLocally.body.kind \notin kinds
      BY DEF LambdaNotFound, LambdaFailure, PathNotFound, MethodNotAllowed,
             ResourceNotFound, ServiceException, InvalidRequestContent, NotImplementedLocally
<1>2. \A kinds \in {LineKinds, StaticKinds} : InternalError.body.kind \notin kinds
      BY <1>1 DEF InternalError
<1>3. \A q : Validate(q) \in {ServiceException, InvalidRequestContent, NotImplementedLocally, Accepted}
      BY DEF Validate
<1>4. /\ RouteNotFound.body.kind \notin LineKinds
      /\ StaticFile.body.kind \notin LineKinds
      /\ AutomaticOptions.body.kind \notin LineKinds
      BY DEF RouteNotFound, StaticFile, AutomaticOptions
<1>5. \A files, q : StaticReply(files, q) \in {RouteNotFound, StaticFile, AutomaticOptions}
      BY DEF StaticReply
<1>. QED BY <1>1, <1>2, <1>3, <1>4, <1>5

\* A request that a route is declared for is one for a function.
LEMMA RoutesLead ==
  ASSUME NEW r \in Requests, Api, RoutesFor(Routes, request[r]) # {}
  PROVE  ForFunction(r)
BY DEF ForFunction, RoutesFor, Dispatches

\* A handler's steps before its function runs: a refusal, or on to the function.
LEMMA HandlerRefuses ==
  ASSUME NEW r \in Requests, HandleApi(r) \/ HandleInvoke(r)
  PROVE  /\ pc[r] = "handle"
         /\ \/ ForFunction(r) /\ Proceed(r)
            \/ \E a : /\ a.body.kind \notin LineKinds /\ AnswerWith(r, a)
                      /\ a.body.kind \in StaticKinds => ~ForFunction(r)
<1>1. CASE HandleApi(r)
  <2>1. CASE ~ForFunction(r)
    <3>1. PICK a : /\ AnswerWith(r, a)
                   /\ a = RouteNotFound \/ a = StaticReply(StaticFiles, request[r])
          BY <1>1, <2>1, RoutesLead DEF HandleApi
    <3>. QED BY <1>1, <2>1, <3>1, MessagesAreNoLines DEF HandleApi
  <2>2. CASE ForFunction(r)
        BY <1>1, <2>2, MessagesAreNoLines DEF HandleApi
  <2>. QED BY <2>1, <2>2
<1>2. CASE HandleInvoke(r)
  <2>1. ~Api
        BY <1>2 DEF HandleInvoke
  <2>2. CASE request[r].path = "invocations"
        BY <1>2, <2>1, <2>2, MessagesAreNoLines DEF HandleInvoke, ForFunction
  <2>3. CASE request[r].path # "invocations"
        BY <1>2, <2>3, MessagesAreNoLines DEF HandleInvoke
  <2>. QED BY <2>2, <2>3
<1>. QED BY <1>1, <1>2

-----------------------------------------------------------------------------
(* The invariant *)

\* What the steps of handlers, functions and timers have in common: one request
\* moves on, the command stays where it is.
Moves(r, next) ==
  /\ pc' = [pc EXCEPT ![r] = next]
  /\ UNCHANGED <<options, main>>
  /\ \A s \in Requests \ {r} : output'[s] = output[s] /\ reply'[s] = reply[s]
  /\ DOMAIN output' = Requests /\ output' = [s \in Requests |-> output'[s]]
  /\ DOMAIN reply' = Requests /\ reply' = [s \in Requests |-> reply'[s]]
  /\ DOMAIN request' = Requests /\ \A s \in Requests \ {r} : request'[s] = request[s]

\* A request enters, or goes from one place of its handler to another.
Enters(r) == pc[r] = "none" /\ Moves(r, "handle") /\ output'[r] = output[r]
Goes(r) ==
  \E next \in InHandler :
    /\ pc[r] \in InHandler /\ Moves(r, next)
    /\ output'[r] = output[r] /\ request'[r] = request[r]
    /\ next \in {"handle", "run"} => pc[r] = "handle"
    /\ next = "run" => ForFunction(r)
    /\ next \in {"running", "cleanup", "parse", "logs"} =>
         pc[r] \in {"running", "cleanup", "parse", "logs"}
    /\ next = "answer" => /\ \/ reply'[r].body.kind \notin LineKinds
                             \/ pc[r] = "logs"
                          /\ Api /\ reply'[r].body.kind \in StaticKinds => ~ForFunction(r)
Runs(r) ==
  /\ pc[r] = "run" /\ Moves(r, "running") /\ request'[r] = request[r]
  /\ output[r] = NotRun /\ output'[r] # NotRun
Answers(r) ==
  /\ pc[r] = "answer" /\ Moves(r, "answered")
  /\ output'[r] = output[r] /\ reply'[r] = reply[r] /\ request'[r] = request[r]

LEMMA RequestSteps ==
  ASSUME ServiceInv, NEW r \in Requests,
         Receive(r) \/ Handler(r) \/ Function(r) \/ TimerFires(r)
  PROVE  Enters(r) \/ Goes(r) \/ Runs(r) \/ Answers(r)
         \/ UNCHANGED <<options, main, pc, request, output, reply>>
<1> USE DEF ServiceInv, Shapes, Moves, InHandler, Step, contextVars
<1>1. CASE Receive(r)
      BY <1>1 DEF Receive, Enters
<1>2. CASE HandleApi(r) \/ HandleInvoke(r)
  <2>0. /\ pc[r] = "handle"
        /\ \/ ForFunction(r) /\ Proceed(r)
           \/ \E a : /\ a.body.kind \notin LineKinds /\ AnswerWith(r, a)
                     /\ a.body.kind \in StaticKinds => ~ForFunction(r)
        BY <1>2, HandlerRefuses
  <2>1. CASE ForFunction(r) /\ Proceed(r)
        BY <2>0, <2>1 DEF Proceed, Goes
  <2>2. CASE \E a : /\ a.body.kind \notin LineKinds /\ AnswerWith(r, a)
                    /\ a.body.kind \in StaticKinds => ~ForFunction(r)
    <3>1. PICK a : /\ a.body.kind \notin LineKinds /\ AnswerWith(r, a)
                   /\ a.body.kind \in StaticKinds => ~ForFunction(r)
          BY <2>2
    <3>. QED BY <2>0, <3>1 DEF AnswerWith, Goes
  <2>. QED BY <2>0, <2>1, <2>2
<1>3. CASE Run(r)
  <2>1. PICK o \in Outputs : output' = [output EXCEPT ![r] = o]
        BY <1>3 DEF Run
  <2>2. o # NotRun
        BY ServiceAssumption
  <2>3. output[r] = NotRun
        BY <1>3 DEF Run, RunsOnce
  <2>. QED BY <1>3, <2>1, <2>2, <2>3 DEF Run, Runs
<1>4. CASE Emit(r)
  <2>1. CASE AnswerWith(r, InternalError)
        BY <1>4, <2>1, MessagesAreNoLines DEF Emit, AnswerWith, Goes
  <2>. QED BY <1>4, <2>1 DEF Emit
<1>5. CASE FunctionEnds(r) \/ TimerFires(r) \/ CleanUp(r)
      BY <1>5 DEF FunctionEnds, TimerFires, CleanUp, Goes
<1>6. CASE RuntimeFails(r) \/ CleanUpFails(r)
      BY <1>6, MessagesAreNoLines DEF RuntimeFails, CleanUpFails, Goes
<1>7. CASE Parse(r)
  <2>1. CASE AnswerWith(r, InternalError)
        BY <1>7, <2>1, MessagesAreNoLines DEF Parse, AnswerWith, Goes
  <2>2. CASE Step(r, "logs") /\ UNCHANGED <<request, output, reply>>
        BY <1>7, <2>2 DEF Parse, Goes
  <2>. QED BY <1>7, <2>1, <2>2 DEF Parse
<1>8. CASE MakeReply(r)
  <2> DEFINE line == Response(stdout[r])
             answer == IF Api THEN ApiReply(line, RouteOf(r), request[r]) ELSE InvokeReply(line)
  <2>1. pc[r] = "logs" /\ AnswerWith(r, answer)
        BY <1>8 DEF MakeReply
  <2>2. Api => answer.body.kind \notin StaticKinds
    <3> HIDE DEF line
    <3>1. CASE Unparsable(line, RouteOf(r), request[r])
          BY <3>1, MessagesAreNoLines DEF ApiReply
    <3>2. CASE ~Unparsable(line, RouteOf(r), request[r])
          BY <3>2 DEF ApiReply, Unparsable, Reply, StaticKinds
    <3>. QED BY <3>1, <3>2
  <2> HIDE DEF answer
  <2>. QED BY <2>1, <2>2 DEF AnswerWith, Goes
<1>9. CASE Answer(r)
      BY <1>9 DEF Answer, Answers
<1>. QED BY <1>1, <1>2, <1>3, <1>4, <1>5, <1>6, <1>7, <1>8, <1>9 DEF Handler, Function

\* The command on its way to serving, or to an early end.
Advances ==
  /\ main \notin {"serving", "ended"} /\ main' \in Places
  /\ UNCHANGED <<options, pc, request, output, reply>>

\* The end of the command, or of its process, and of requests with it.
Ends ==
  /\ \/ main = "serving" /\ main' = "ended"
     \/ main = "ended" /\ main' = "ended"
  /\ \E dropped \in SUBSET Open : Drop(dropped)
  /\ UNCHANGED <<options, request, output, reply>>

LEMMA CommandSteps ==
  ASSUME ServiceInv, Command \/ CtrlC \/ CtrlCInHandler \/ ProcessEnds
  PROVE  Advances \/ Ends \/ \E r \in Requests : Goes(r)
<1> USE DEF ServiceInv, Shapes
<1>1. CASE Command
      BY <1>1 DEF Command, ContextStep, GetEvent, Enter, GetTemplate, GetEnvVars, SetupLogFile,
             GetDebugContext, CheckDocker, NameFunction, RunFunction, StartService, Refuse, Go, Leave,
             requestVars, Advances, Places
<1>2. CASE CtrlC
  <2>1. /\ main = "serving" /\ main' = "ended"
        /\ UNCHANGED <<options, pc, request, output, reply>>
        BY <1>2 DEF CtrlC, StopServing, Leave, requestVars
  <2>2. Drop({})
        BY <2>1 DEF Drop
  <2>. QED BY <2>1, <2>2 DEF Ends
<1>3. CASE CtrlCInHandler
  <2>1. PICK r \in Open :
          \/ /\ pc[r] = "running" /\ pc' = [pc EXCEPT ![r] = "cleanup"]
             /\ UNCHANGED <<contextVars, request, output, reply>>
          \/ StopServing /\ Drop({r}) /\ UNCHANGED <<request, output, reply>>
        BY <1>3 DEF CtrlCInHandler
  <2>2. CASE /\ pc[r] = "running" /\ pc' = [pc EXCEPT ![r] = "cleanup"]
             /\ UNCHANGED <<contextVars, request, output, reply>>
        BY <2>1, <2>2 DEF Open, Goes, Moves, InHandler, contextVars
  <2>3. CASE StopServing /\ Drop({r}) /\ UNCHANGED <<request, output, reply>>
        BY <2>1, <2>3 DEF StopServing, Leave, Ends
  <2>. QED BY <2>1, <2>2, <2>3 DEF Open
<1>4. CASE ProcessEnds
      BY <1>4 DEF ProcessEnds, contextVars, Ends
<1>. QED BY <1>1, <1>2, <1>3, <1>4

\* Every step is one of these.
LEMMA Steps ==
  ASSUME ServiceInv, [Next]_vars
  PROVE  \/ \E r \in Requests : Enters(r) /\ Receive(r)
         \/ \E r \in Requests : Goes(r) \/ Runs(r) \/ Answers(r)
         \/ Advances \/ Ends
         \/ UNCHANGED <<options, main, pc, request, output, reply>>
<1>1. CASE Command \/ CtrlC \/ CtrlCInHandler \/ ProcessEnds
      BY <1>1, CommandSteps
<1>2. CASE \E r \in Requests : Receive(r) \/ Handler(r) \/ Function(r) \/ TimerFires(r)
  <2>1. PICK r \in Requests : Receive(r) \/ Handler(r) \/ Function(r) \/ TimerFires(r)
        BY <1>2
  <2>2. Enters(r) => Receive(r)
        BY <2>1 DEF Enters, Handler, HandleApi, HandleInvoke, Run, CleanUp, Parse, MakeReply, Answer,
                    Function, Emit, FunctionEnds, RuntimeFails, CleanUpFails, TimerFires
  <2>. QED BY <2>1, <2>2, RequestSteps
<1>3. CASE UNCHANGED vars
      BY <1>3 DEF vars, contextVars, requestVars
<1>. QED BY <1>1, <1>2, <1>3 DEF Next

LEMMA ServiceInit == Init => ServiceInv
BY ServiceAssumption
   DEF Init, ContextInit, ServiceInv, Shapes, RunsOnce, ToItsPlace, Places, NoReply, Reply, InHandler

LEMMA ServiceStep == ServiceInv /\ [Next]_vars => ServiceInv'
<1> SUFFICES ASSUME ServiceInv, [Next]_vars PROVE Shapes' /\ RunsOnce' /\ ToItsPlace'
    BY DEF ServiceInv
<1> USE DEF ServiceInv, Shapes
<1>1. CASE \E r \in Requests : Enters(r) \/ Goes(r) \/ Runs(r) \/ Answers(r)
  <2>1. PICK r \in Requests : Enters(r) \/ Goes(r) \/ Runs(r) \/ Answers(r)
        BY <1>1
  <2>2. PICK next \in InHandler \cup {"answered"} : Moves(r, next)
        BY <2>1 DEF Enters, Goes, Runs, Answers, InHandler
  <2>3. Shapes'
        BY <2>2 DEF Moves
  <2>4. RunsOnce'
    <3> SUFFICES ASSUME NEW s \in Requests
                 PROVE  /\ pc'[s] \in {"none", "handle", "run"} => output'[s] = NotRun
                        /\ pc'[s] \in {"running", "cleanup", "parse", "logs"} => output'[s] # NotRun
                        /\ pc'[s] = "answer" /\ FromFunction(s)' => output'[s] # NotRun
        BY DEF RunsOnce
    <3>1. CASE s # r
          BY <2>2, <3>1 DEF Moves, RunsOnce, FromFunction
    <3>2. CASE s = r
      <4>1. CASE Enters(r)
            BY <3>2, <4>1 DEF Enters, Moves, RunsOnce
      <4>2. CASE Goes(r)
            BY <3>2, <4>2 DEF Goes, Moves, RunsOnce, FromFunction, InHandler
      <4>3. CASE Runs(r)
            BY <3>2, <4>3 DEF Runs, Moves
      <4>4. CASE Answers(r)
            BY <3>2, <4>4 DEF Answers, Moves
      <4>. QED BY <2>1, <4>1, <4>2, <4>3, <4>4
    <3>. QED BY <3>1, <3>2
  <2>5. ToItsPlace'
    <3> SUFFICES ASSUME NEW s \in Requests
                 PROVE  /\ pc'[s] = "run" => ForFunction(s)'
                        /\ pc'[s] = "answer" /\ FromStatic(s)' => ~ForFunction(s)'
        BY DEF ToItsPlace
    <3>0. options' = options
          BY <2>2 DEF Moves
    <3>1. CASE s # r
      <4>1. /\ pc'[s] = pc[s] /\ FromStatic(s)' = FromStatic(s) /\ ForFunction(s)' = ForFunction(s)
            BY <2>2, <3>1 DEF Moves, FromStatic, ForFunction, Api
      <4>. QED BY <4>1 DEF ToItsPlace
    <3>2. CASE s = r
      <4>1. CASE Enters(r)
            BY <3>2, <4>1 DEF Enters, Moves
      <4>2. CASE Goes(r)
        <5>1. request'[r] = request[r] /\ FromStatic(r)' = (Api /\ reply'[r].body.kind \in StaticKinds)
              BY <3>0, <4>2 DEF Goes, FromStatic, Api
        <5>2. ForFunction(r)' = ForFunction(r)
              BY <3>0, <5>1 DEF ForFunction, Api
        <5>. QED BY <3>2, <4>2, <5>1, <5>2 DEF Goes, Moves
      <4>3. CASE Runs(r)
            BY <3>2, <4>3 DEF Runs, Moves
      <4>4. CASE Answers(r)
            BY <3>2, <4>4 DEF Answers, Moves
      <4>. QED BY <2>1, <4>1, <4>2, <4>3, <4>4
    <3>. QED BY <3>1, <3>2
  <2>. QED BY <2>3, <2>4, <2>5
<1>2. CASE Advances
      BY <1>2 DEF Advances, RunsOnce, ToItsPlace, FromFunction, FromStatic, ForFunction, Api
<1>3. CASE Ends
      BY <1>3 DEF Ends, Drop, RunsOnce, ToItsPlace, FromFunction, FromStatic, ForFunction, Api, Places
<1>4. CASE UNCHANGED <<options, main, pc, request, output, reply>>
      BY <1>4 DEF RunsOnce, ToItsPlace, FromFunction, FromStatic, ForFunction, Api
<1>. QED BY <1>1, <1>2, <1>3, <1>4, Steps

LEMMA ServiceInvariant == Spec => []ServiceInv
BY ServiceInit, ServiceStep, PTL DEF Spec

-----------------------------------------------------------------------------
(* The refinement *)

Calls == [r \in Requests |-> CallOf(r)]
Declared == [r \in Requests |-> ForFunction(r)]
Ran == [r \in Requests |-> output[r] # NotRun]

\* Requests other than the one that moves stay what they are to their clients.
LEMMA OthersStay ==
  ASSUME Shapes, NEW r \in Requests, NEW next, Moves(r, next), NEW s \in Requests \ {r}
  PROVE  CallOf(s)' = CallOf(s) /\ output'[s] = output[s] /\ ForFunction(s)' = ForFunction(s)
BY DEF Shapes, Moves, CallOf, FromFunction, FromStatic, ForFunction, Api

\* A request that stays what the client sent is declared or not as it was.
LEMMA DeclaredStays ==
  ASSUME options' = options, \A s \in Requests : request'[s] = request[s]
  PROVE  Declared' = Declared
<1>1. \A s \in Requests : ForFunction(s)' = ForFunction(s)
      BY DEF ForFunction, Api
<1>. QED BY <1>1 DEF Declared

LEMMA RefinementStep == ServiceInv /\ [Next]_vars => [Contract!Next]_Contract!vars
<1> SUFFICES ASSUME ServiceInv, [Next]_vars PROVE [Contract!Next]_Contract!vars
    OBVIOUS
<1> USE DEF ServiceInv, Shapes
<1>1. ASSUME NEW r \in Requests, Enters(r), Receive(r)
      PROVE  Contract!Take(r)
  <2>1. main = "serving" /\ (options.debugging => Open = {})
        BY <1>1 DEF Receive
  <2>2. options.debugging => \A s \in Requests : CallOf(s) # "open"
        BY <2>1 DEF Open, CallOf
  <2>3. Calls' = [Calls EXCEPT ![r] = "open"] /\ Calls[r] = "none"
    <3>1. CallOf(r)' = "open" /\ CallOf(r) = "none"
          BY <1>1 DEF Enters, Moves, CallOf, InHandler
    <3>2. \A s \in Requests \ {r} : CallOf(s)' = CallOf(s)
          BY <1>1, OthersStay DEF Enters
    <3>. QED BY <3>1, <3>2 DEF Calls
  <2>4. Ran' = Ran
        BY <1>1 DEF Enters, Moves, Ran
  <2>5. \E d \in BOOLEAN : Declared' = [Declared EXCEPT ![r] = d]
    <3>1. ForFunction(r)' \in BOOLEAN
          BY DEF ForFunction
    <3>2. \A s \in Requests \ {r} : ForFunction(s)' = ForFunction(s)
          BY <1>1, OthersStay DEF Enters
    <3>3. Declared' = [Declared EXCEPT ![r] = ForFunction(r)']
          BY <3>2 DEF Declared
    <3>. QED BY <3>1, <3>3
  <2>. QED BY <1>1, <2>1, <2>2, <2>3, <2>4, <2>5
           DEF Contract!Take, Calls, Declared, Ran, ServiceState, Enters, Moves
<1>2. ASSUME NEW r \in Requests, Goes(r)
      PROVE  UNCHANGED Contract!vars
  <2>1. Calls' = Calls
    <3>1. CallOf(r)' = "open" /\ CallOf(r) = "open"
          BY <1>2 DEF Goes, Moves, CallOf
    <3>2. \A s \in Requests \ {r} : CallOf(s)' = CallOf(s)
          BY <1>2, OthersStay DEF Goes
    <3>. QED BY <3>1, <3>2 DEF Calls
  <2>2. Ran' = Ran
        BY <1>2 DEF Goes, Moves, Ran
  <2>3. Declared' = Declared
        BY <1>2, DeclaredStays DEF Goes, Moves
  <2>. QED BY <1>2, <2>1, <2>2, <2>3 DEF Contract!vars, Calls, Declared, Ran, ServiceState, Goes, Moves
<1>3. ASSUME NEW r \in Requests, Runs(r)
      PROVE  Contract!Run(r)
  <2>1. Calls' = Calls /\ Calls[r] = "open"
    <3>1. CallOf(r)' = "open" /\ CallOf(r) = "open"
          BY <1>3 DEF Runs, Moves, CallOf, InHandler
    <3>2. \A s \in Requests \ {r} : CallOf(s)' = CallOf(s)
          BY <1>3, OthersStay DEF Runs
    <3>. QED BY <3>1, <3>2 DEF Calls
  <2>2. Ran' = [Ran EXCEPT ![r] = TRUE] /\ ~Ran[r]
    <3>1. ~Ran[r] /\ Ran'[r] = TRUE
          BY <1>3 DEF Runs, Ran
    <3>2. \A s \in Requests \ {r} : Ran'[s] = Ran[s]
          BY <1>3 DEF Runs, Moves, Ran
    <3>3. Ran = [s \in Requests |-> Ran[s]] /\ Ran' = [s \in Requests |-> Ran'[s]]
          BY DEF Ran
    <3>. QED BY <3>1, <3>2, <3>3
  <2>3. Declared' = Declared /\ Declared[r]
        BY <1>3, DeclaredStays DEF Runs, Moves, Declared, ToItsPlace
  <2>. QED BY <1>3, <2>1, <2>2, <2>3 DEF Contract!Run, Calls, Declared, Ran, ServiceState, Runs, Moves
<1>4. ASSUME NEW r \in Requests, Answers(r)
      PROVE  Contract!Answer(r)
  <2> DEFINE answer == IF FromFunction(r) THEN "success"
                       ELSE IF FromStatic(r) THEN "resource" ELSE "failure"
  <2>1. Calls' = [Calls EXCEPT ![r] = answer] /\ Calls[r] = "open"
    <3>1. CallOf(r)' = answer /\ CallOf(r) = "open"
          BY <1>4 DEF Answers, Moves, CallOf, InHandler, FromFunction, FromStatic, Api
    <3>2. \A s \in Requests \ {r} : CallOf(s)' = CallOf(s)
          BY <1>4, OthersStay DEF Answers
    <3>. QED BY <3>1, <3>2 DEF Calls
  <2>2. Ran' = Ran
        BY <1>4 DEF Answers, Moves, Ran
  <2>3. answer = "success" => Ran[r]
        BY <1>4 DEF Answers, RunsOnce, Ran
  <2>4. answer = "resource" => ~Declared[r]
        BY <1>4 DEF Answers, ToItsPlace, Declared
  <2>5. Declared' = Declared
        BY <1>4, DeclaredStays DEF Answers, Moves
  <2>. QED BY <1>4, <2>1, <2>2, <2>3, <2>4, <2>5
           DEF Contract!Answer, Contract!Answers, Calls, Declared, Ran, ServiceState, Answers, Moves
<1>5. CASE Advances
  <2>1. Calls' = Calls /\ Ran' = Ran /\ Declared' = Declared
        BY <1>5, DeclaredStays DEF Advances, Calls, CallOf, FromFunction, FromStatic, Api, Ran
  <2>2. Contract!Drop
    <3>1. Calls' = [s \in Requests |-> IF s \in {} THEN "dropped" ELSE Calls[s]]
          BY <2>1 DEF Calls
    <3>2. {} \in SUBSET {s \in Requests : Calls[s] = "open"}
          OBVIOUS
    <3>. QED BY <3>1, <3>2 DEF Contract!Drop, Calls
  <2>. QED BY <1>5, <2>1, <2>2
           DEF Advances, Contract!Next, Contract!Up, Contract!Stop, Contract!vars, Calls, Declared,
               Ran, ServiceState
<1>6. CASE Ends
  <2>1. PICK dropped \in SUBSET Open : Drop(dropped)
        BY <1>6 DEF Ends
  <2>2. dropped \in SUBSET {s \in Requests : Calls[s] = "open"}
        BY <2>1 DEF Open, Calls, CallOf
  <2>3. Calls' = [s \in Requests |-> IF s \in dropped THEN "dropped" ELSE Calls[s]]
        BY <1>6, <2>1 DEF Ends, Drop, Calls, CallOf, FromFunction, FromStatic, Api, InHandler
  <2>4. Contract!Drop
        BY <2>2, <2>3 DEF Contract!Drop, Calls
  <2>5. Ran' = Ran /\ options' = options /\ Declared' = Declared
        BY <1>6, DeclaredStays DEF Ends, Ran
  <2>. QED BY <1>6, <2>4, <2>5
           DEF Ends, Contract!Next, Contract!Stop, Contract!GoDown, Declared, Ran, ServiceState
<1>7. CASE UNCHANGED <<options, main, pc, request, output, reply>>
      BY <1>7 DEF Contract!vars, CallOf, FromFunction, FromStatic, ForFunction, Api, ServiceState
<1>. QED BY <1>1, <1>2, <1>3, <1>4, <1>5, <1>6, <1>7, Steps DEF Contract!Next

\* Threads, debuggers, time-outs, failures and Ctrl+C notwithstanding, a client
\* of either service gets one run and one answer for a request, a success only
\* from a function that ran for it, a static file only for what no route is
\* declared for, and is dropped only by the end of the command.
THEOREM ServicesKeepTheirContract == Spec => ImplementsRequestReply
<1>1. Init => Contract!Init
      BY ServiceAssumption
         DEF Init, ContextInit, Contract!Init, CallOf, ForFunction, ServiceState, InHandler
<1>. QED BY <1>1, RefinementStep, ServiceInvariant, PTL DEF Spec, ImplementsRequestReply, Contract!Spec

-----------------------------------------------------------------------------
(* Collecting lines *)

\* Induction over the naturals, by the smallest that is missing.
LEMMA SetInduction ==
  ASSUME NEW T, 0 \in T, \A n \in Nat : n \in T => n + 1 \in T
  PROVE  Nat \subseteq T
<1> DEFINE R == {ss \in Nat \X Nat : ss[1] < ss[2]}
<1> SUFFICES ASSUME Nat \ T # {} PROVE FALSE
    OBVIOUS
<1>1. IsWellFoundedOn(R, Nat)
      BY NatLessThanWellFounded DEF OpToRel
<1>2. PICK x \in Nat \ T : \A y \in Nat \ T : ~(<<y, x>> \in R)
  <2> HIDE DEF R
  <2>. QED BY <1>1, WFMin
<1>3. x # 0 /\ x - 1 \in Nat /\ x - 1 \notin T
      BY <1>2
<1>4. <<x - 1, x>> \in R
      BY <1>3
<1>. QED BY <1>2, <1>3, <1>4

\* f collects the lines of s, element by element.
Collects(f, s, field, value) ==
  f = [n \in 0..Len(s) |->
         IF n = 0 THEN <<>>
         ELSE IF s[n][field] = value THEN Append(f[n - 1], s[n].line) ELSE f[n - 1]]

LEMMA CollectorExists ==
  ASSUME NEW s, Len(s) \in Nat, NEW field, NEW value
  PROVE  \E f : Collects(f, s, field, value)
<1> DEFINE Round(g, n) == IF n = 0 THEN <<>>
                          ELSE IF s[n][field] = value THEN Append(g[n - 1], s[n].line) ELSE g[n - 1]
           T == {k \in Nat : \E f : f = [n \in 0..k |-> Round(f, n)]}
<1>1. 0 \in T
  <2>1. [n \in 0..0 |-> <<>>] = [n \in 0..0 |-> Round([m \in 0..0 |-> <<>>], n)]
        OBVIOUS
  <2>. QED BY <2>1
<1>2. ASSUME NEW k \in Nat, k \in T
      PROVE  k + 1 \in T
  <2>1. PICK f : f = [n \in 0..k |-> Round(f, n)]
        BY <1>2
  <2> DEFINE g == [n \in 0..k + 1 |-> IF n = k + 1 THEN Round(f, n) ELSE f[n]]
  <2>2. ASSUME NEW n \in 0..k + 1
        PROVE  g[n] = Round(g, n)
    <3>1. CASE n = 0
          BY <2>1, <3>1
    <3>2. CASE n # 0
      <4>1. n - 1 \in 0..k + 1 /\ n - 1 # k + 1 /\ g[n - 1] = f[n - 1]
            BY <3>2
      <4>2. Round(g, n) = Round(f, n)
            BY <4>1
      <4>3. g[n] = Round(f, n)
        <5>1. CASE n = k + 1
              BY <5>1
        <5>2. CASE n \in 0..k
              BY <2>1, <5>2
        <5>. QED BY <5>1, <5>2
      <4>. QED BY <4>2, <4>3
    <3>. QED BY <3>1, <3>2
  <2>3. g = [n \in 0..k + 1 |-> Round(g, n)]
        BY <2>2
  <2> HIDE DEF g
  <2>. QED BY <2>3
<1>3. Len(s) \in T
  <2> HIDE DEF T
  <2>. QED BY <1>1, <1>2, SetInduction
<1>. QED BY <1>3 DEF Collects

LEMMA LinesOfIsCollected ==
  ASSUME NEW s, Len(s) \in Nat, NEW field, NEW value
  PROVE  \E f : Collects(f, s, field, value) /\ LinesOf(s, field, value) = f[Len(s)]
<1> DEFINE f == CHOOSE g : Collects(g, s, field, value)
<1>1. Collects(f, s, field, value)
      BY CollectorExists
<1>2. LinesOf(s, field, value) = f[Len(s)]
      BY Zenon DEF LinesOf, Collects
<1>. QED BY <1>1, <1>2

\* What is collected of a sequence does not depend on what follows.
LEMMA CollectorsAgree ==
  ASSUME NEW s, NEW t, Len(s) \in Nat, Len(t) \in Nat, Len(s) <= Len(t),
         \A i \in 1..Len(s) : t[i] = s[i],
         NEW field, NEW value, NEW f, NEW g,
         Collects(f, s, field, value), Collects(g, t, field, value)
  PROVE  \A n \in 0..Len(s) : f[n] = g[n]
<1> DEFINE T == {n \in Nat : n <= Len(s) => f[n] = g[n]}
<1>1. /\ \A n \in 0..Len(s) :
           f[n] = IF n = 0 THEN <<>>
                  ELSE IF s[n][field] = value THEN Append(f[n - 1], s[n].line) ELSE f[n - 1]
      /\ \A n \in 0..Len(t) :
           g[n] = IF n = 0 THEN <<>>
                  ELSE IF t[n][field] = value THEN Append(g[n - 1], t[n].line) ELSE g[n - 1]
  <2>1. /\ f = [n \in 0..Len(s) |->
                  IF n = 0 THEN <<>>
                  ELSE IF s[n][field] = value THEN Append(f[n - 1], s[n].line) ELSE f[n - 1]]
        /\ g = [n \in 0..Len(t) |->
                  IF n = 0 THEN <<>>
                  ELSE IF t[n][field] = value THEN Append(g[n - 1], t[n].line) ELSE g[n - 1]]
        BY DEF Collects
  <2>. QED BY <2>1
<1>2. 0 \in T
      BY <1>1
<1>3. ASSUME NEW n \in Nat, n \in T
      PROVE  n + 1 \in T
  <2>1. ASSUME n + 1 <= Len(s)
        PROVE  f[n + 1] = g[n + 1]
    <3>1. /\ n + 1 \in 0..Len(s) /\ n + 1 \in 0..Len(t) /\ n + 1 # 0 /\ n + 1 - 1 = n
          /\ t[n + 1] = s[n + 1] /\ f[n] = g[n]
          BY <1>3, <2>1
    <3>. QED BY <1>1, <3>1
  <2>. QED BY <2>1
<1>4. Nat \subseteq T
  <2> HIDE DEF T
  <2>. QED BY <1>2, <1>3, SetInduction
<1>. QED BY <1>4

\* What is collected are lines, no more than there are elements.
LEMMA CollectsLines ==
  ASSUME NEW S, NEW L, NEW s \in Seq(S), NEW field, NEW value,
         \A e \in S : e[field] = value => e.line \in L,
         NEW f, Collects(f, s, field, value)
  PROVE  \A n \in 0..Len(s) : f[n] \in Seq(L) /\ Len(f[n]) <= n
<1> DEFINE T == {n \in Nat : n <= Len(s) => f[n] \in Seq(L) /\ Len(f[n]) <= n}
<1>1. \A n \in 0..Len(s) :
        f[n] = IF n = 0 THEN <<>>
               ELSE IF s[n][field] = value THEN Append(f[n - 1], s[n].line) ELSE f[n - 1]
  <2>1. f = [n \in 0..Len(s) |->
               IF n = 0 THEN <<>>
               ELSE IF s[n][field] = value THEN Append(f[n - 1], s[n].line) ELSE f[n - 1]]
        BY DEF Collects
  <2>. QED BY <2>1
<1>2. 0 \in T
  <2>1. 0 \in 0..Len(s)
        OBVIOUS
  <2>2. f[0] = <<>>
        BY <1>1, <2>1
  <2>3. <<>> \in Seq(L) /\ Len(<<>>) <= 0
        OBVIOUS
  <2>. QED BY <2>2, <2>3
<1>3. ASSUME NEW n \in Nat, n \in T
      PROVE  n + 1 \in T
  <2>1. ASSUME n + 1 <= Len(s)
        PROVE  f[n + 1] \in Seq(L) /\ Len(f[n + 1]) <= n + 1
    <3>1. /\ n + 1 \in 0..Len(s) /\ n + 1 # 0 /\ n + 1 - 1 = n /\ n + 1 \in 1..Len(s)
          /\ f[n] \in Seq(L) /\ Len(f[n]) <= n
          BY <1>3, <2>1
    <3>2. s[n + 1] \in S
          BY <3>1
    <3>3. CASE s[n + 1][field] = value
      <4>1. f[n + 1] = Append(f[n], s[n + 1].line) /\ s[n + 1].line \in L
        <5>1. f[n + 1] = IF s[n + 1][field] = value THEN Append(f[n], s[n + 1].line) ELSE f[n]
              BY <1>1, <3>1
        <5>. QED BY <3>2, <3>3, <5>1
      <4>2. Append(f[n], s[n + 1].line) \in Seq(L)
            BY <3>1, <4>1
      <4>3. Len(Append(f[n], s[n + 1].line)) = Len(f[n]) + 1 /\ Len(f[n]) \in Nat
            BY <3>1, <4>1
      <4>. QED BY <3>1, <4>1, <4>2, <4>3
    <3>4. CASE s[n + 1][field] # value
      <4>1. f[n + 1] = f[n] /\ Len(f[n]) \in Nat
            BY <1>1, <3>1, <3>4
      <4>. QED BY <3>1, <4>1
    <3>. QED BY <3>3, <3>4
  <2>. QED BY <2>1
<1>4. Nat \subseteq T
  <2> HIDE DEF T
  <2>. QED BY <1>2, <1>3, SetInduction
<1>. QED BY <1>4

LEMMA LinesOfType ==
  ASSUME NEW S, NEW L, NEW s \in Seq(S), NEW field, NEW value,
         \A e \in S : e[field] = value => e.line \in L
  PROVE  LinesOf(s, field, value) \in Seq(L) /\ Len(LinesOf(s, field, value)) <= Len(s)
<1>1. Len(s) \in Nat /\ Len(s) \in 0..Len(s)
      OBVIOUS
<1>2. PICK f : Collects(f, s, field, value) /\ LinesOf(s, field, value) = f[Len(s)]
      BY <1>1, LinesOfIsCollected
<1>. QED BY <1>1, <1>2, CollectsLines

\* The lines of two sequences in a row.
LEMMA LinesOfConcat ==
  ASSUME NEW S, NEW s \in Seq(S), NEW t \in Seq(S), NEW field, NEW value
  PROVE  LinesOf(s \o t, field, value) = LinesOf(s, field, value) \o LinesOf(t, field, value)
<1> DEFINE u == s \o t
           L == {e.line : e \in S}
<1>0. \A e \in S : e.line \in L
      OBVIOUS
<1> HIDE DEF L
<1>1. /\ u \in Seq(S) /\ Len(u) = Len(s) + Len(t)
      /\ Len(s) \in Nat /\ Len(t) \in Nat
      /\ \A i \in 1..Len(s) + Len(t) : u[i] = IF i <= Len(s) THEN s[i] ELSE t[i - Len(s)]
      BY ConcatProperties
<1> HIDE DEF u
<1>2. PICK f : Collects(f, s, field, value) /\ LinesOf(s, field, value) = f[Len(s)]
      BY <1>1, LinesOfIsCollected
<1>3. PICK g : Collects(g, t, field, value) /\ LinesOf(t, field, value) = g[Len(t)]
      BY <1>1, LinesOfIsCollected
<1>4. PICK h : Collects(h, u, field, value) /\ LinesOf(u, field, value) = h[Len(u)]
  <2>1. Len(u) \in Nat
        BY <1>1
  <2>. QED BY <2>1, LinesOfIsCollected
<1>5. /\ \A n \in 0..Len(t) :
           g[n] = IF n = 0 THEN <<>>
                  ELSE IF t[n][field] = value THEN Append(g[n - 1], t[n].line) ELSE g[n - 1]
      /\ \A n \in 0..Len(u) :
           h[n] = IF n = 0 THEN <<>>
                  ELSE IF u[n][field] = value THEN Append(h[n - 1], u[n].line) ELSE h[n - 1]
  <2>1. /\ g = [n \in 0..Len(t) |->
                  IF n = 0 THEN <<>>
                  ELSE IF t[n][field] = value THEN Append(g[n - 1], t[n].line) ELSE g[n - 1]]
        /\ h = [n \in 0..Len(u) |->
                  IF n = 0 THEN <<>>
                  ELSE IF u[n][field] = value THEN Append(h[n - 1], u[n].line) ELSE h[n - 1]]
        BY <1>3, <1>4 DEF Collects
  <2>. QED BY <2>1
<1>6. f[Len(s)] = h[Len(s)] /\ f[Len(s)] \in Seq(L)
  <2>1. Len(u) \in Nat /\ Len(s) <= Len(u) /\ Len(s) \in 0..Len(s)
        BY <1>1
  <2>2. \A i \in 1..Len(s) : u[i] = s[i]
        BY <1>1
  <2>3. \A n \in 0..Len(s) : f[n] = h[n]
    <3>1. Len(s) \in Nat /\ Collects(f, s, field, value) /\ Collects(h, u, field, value)
          BY <1>1, <1>2, <1>4
    <3>. QED BY <2>1, <2>2, <3>1, CollectorsAgree
  <2>4. f[Len(s)] \in Seq(L)
        BY <1>0, <1>2, <2>1, CollectsLines
  <2>. QED BY <2>1, <2>3, <2>4
<1>7. \A n \in 0..Len(t) : g[n] \in Seq(L)
      BY <1>0, <1>3, CollectsLines
<1> DEFINE T == {n \in Nat : n <= Len(t) => h[Len(s) + n] = f[Len(s)] \o g[n]}
<1>8. 0 \in T
  <2>1. g[0] = <<>> /\ Len(s) + 0 = Len(s)
        BY <1>1, <1>5
  <2>2. f[Len(s)] \o <<>> = f[Len(s)]
        BY <1>6, ConcatEmptySeq
  <2>. QED BY <1>6, <2>1, <2>2
<1>9. ASSUME NEW n \in Nat, n \in T
      PROVE  n + 1 \in T
  <2>1. ASSUME n + 1 <= Len(t)
        PROVE  h[Len(s) + (n + 1)] = f[Len(s)] \o g[n + 1]
    <3>0. h[Len(s) + n] = f[Len(s)] \o g[n]
      <4>1. n <= Len(t)
            BY <1>1, <2>1
      <4>. QED BY <1>9, <4>1
    <3> DEFINE m == Len(s) + (n + 1)
    <3>1. /\ n + 1 \in 0..Len(t) /\ n + 1 # 0 /\ n + 1 - 1 = n /\ n \in 0..Len(t)
          /\ m \in 0..Len(u) /\ m # 0 /\ m - 1 = Len(s) + n /\ m \in 1..Len(s) + Len(t)
          /\ ~(m <= Len(s)) /\ m - Len(s) = n + 1
          BY <1>1, <1>9, <2>1
    <3>2. g[n + 1] = IF t[n + 1][field] = value THEN Append(g[n], t[n + 1].line) ELSE g[n]
          BY <1>5, <3>1
    <3>3. u[m] = t[n + 1] /\ t[n + 1] \in S
          BY <1>1, <3>1
    <3> HIDE DEF m
    <3>6. h[m] = IF t[n + 1][field] = value THEN Append(h[Len(s) + n], t[n + 1].line)
                 ELSE h[Len(s) + n]
      <4>1. h[m] = IF u[m][field] = value THEN Append(h[m - 1], u[m].line) ELSE h[m - 1]
            BY <1>5, <3>1
      <4>. QED BY <3>1, <3>3, <4>1
    <3>4. CASE t[n + 1][field] = value
      <4>1. h[m] = Append(h[Len(s) + n], t[n + 1].line) /\ g[n + 1] = Append(g[n], t[n + 1].line)
            BY <3>2, <3>4, <3>6
      <4>2. t[n + 1].line \in L /\ g[n] \in Seq(L)
            BY <1>0, <1>7, <3>1, <3>3, <3>4
      <4>3. ASSUME NEW a \in Seq(L), NEW b \in Seq(L), NEW e \in L
            PROVE  Append(a \o b, e) = a \o Append(b, e)
        <5>1. a \o b \in Seq(L) /\ <<e>> \in Seq(L)
              BY ConcatProperties
        <5>2. Append(a \o b, e) = (a \o b) \o <<e>> /\ Append(b, e) = b \o <<e>>
              BY <5>1, AppendIsConcat
        <5>3. (a \o b) \o <<e>> = a \o (b \o <<e>>)
              BY <5>1, ConcatAssociative
        <5>. QED BY <5>2, <5>3
      <4>. QED BY <1>6, <3>0, <4>1, <4>2, <4>3 DEF m
    <3>5. CASE t[n + 1][field] # value
          BY <3>0, <3>2, <3>5, <3>6 DEF m
    <3>. QED BY <3>4, <3>5
  <2>2. n + 1 \in Nat
        OBVIOUS
  <2>. QED BY <2>1, <2>2, Zenon
<1>10. Nat \subseteq T
  <2> HIDE DEF T
  <2>. QED BY <1>8, <1>9, SetInduction
<1>11. h[Len(u)] = f[Len(s)] \o g[Len(t)]
  <2>1. Len(t) \in T
    <3> HIDE DEF T
    <3>. QED BY <1>1, <1>10
  <2>2. Len(t) <= Len(t)
        BY <1>1
  <2>3. h[Len(s) + Len(t)] = f[Len(s)] \o g[Len(t)]
        BY <2>1, <2>2
  <2>. QED BY <1>1, <2>3
<1>. QED BY <1>2, <1>3, <1>4, <1>11 DEF u

\* A sequence whose elements are all of the kind, or none.
LEMMA LinesOfAll ==
  ASSUME NEW S, NEW s \in Seq(S), NEW field, NEW value,
         \A e \in S : e[field] = value
  PROVE  LinesOf(s, field, value) = [i \in 1..Len(s) |-> s[i].line]
<1> DEFINE L == {e.line : e \in S}
<1>0. \A e \in S : e.line \in L
      OBVIOUS
<1> HIDE DEF L
<1>1. Len(s) \in Nat /\ Len(s) \in 0..Len(s)
      OBVIOUS
<1>2. PICK f : Collects(f, s, field, value) /\ LinesOf(s, field, value) = f[Len(s)]
      BY <1>1, LinesOfIsCollected
<1>3. \A n \in 0..Len(s) :
        f[n] = IF n = 0 THEN <<>>
               ELSE IF s[n][field] = value THEN Append(f[n - 1], s[n].line) ELSE f[n - 1]
  <2>1. f = [n \in 0..Len(s) |->
               IF n = 0 THEN <<>>
               ELSE IF s[n][field] = value THEN Append(f[n - 1], s[n].line) ELSE f[n - 1]]
        BY <1>2 DEF Collects
  <2>. QED BY <2>1
<1>4. \A i \in 1..Len(s) : s[i][field] = value /\ s[i].line \in L
  <2>1. \A i \in 1..Len(s) : s[i] \in S
        OBVIOUS
  <2>. QED BY <1>0, <2>1
<1> DEFINE T == {n \in Nat : n <= Len(s) => f[n] = [i \in 1..n |-> s[i].line]}
<1>5. 0 \in T
  <2>1. <<>> = [i \in 1..0 |-> s[i].line]
        OBVIOUS
  <2>. QED BY <1>3, <2>1
<1>6. ASSUME NEW n \in Nat, n \in T
      PROVE  n + 1 \in T
  <2>1. ASSUME n + 1 <= Len(s)
        PROVE  f[n + 1] = [i \in 1..n + 1 |-> s[i].line]
    <3>1. /\ n + 1 \in 0..Len(s) /\ n + 1 # 0 /\ n + 1 - 1 = n /\ n + 1 \in 1..Len(s)
          /\ f[n] = [i \in 1..n |-> s[i].line]
          BY <1>6, <2>1
    <3>2. f[n + 1] = Append(f[n], s[n + 1].line)
      <4>1. f[n + 1] = IF s[n + 1][field] = value THEN Append(f[n], s[n + 1].line) ELSE f[n]
            BY <1>3, <3>1
      <4>. QED BY <1>4, <3>1, <4>1
    <3>3. \A i \in 1..n + 1 : s[i].line \in L
          BY <1>4, <2>1
    <3> DEFINE a == [i \in 1..n |-> s[i].line]
               b == [i \in 1..n + 1 |-> s[i].line]
    <3>4. /\ a \in Seq(L) /\ Len(a) = n /\ \A i \in 1..n : a[i] = s[i].line
          /\ b \in Seq(L) /\ Len(b) = n + 1 /\ \A i \in 1..n + 1 : b[i] = s[i].line
          BY <3>3
    <3>5. /\ Append(a, s[n + 1].line) \in Seq(L) /\ Len(Append(a, s[n + 1].line)) = n + 1
          /\ \A i \in 1..n : Append(a, s[n + 1].line)[i] = s[i].line
          /\ Append(a, s[n + 1].line)[n + 1] = s[n + 1].line
      <4> HIDE DEF a
      <4>1. s[n + 1].line \in L
            BY <3>3
      <4>. QED BY <3>4, <4>1, AppendProperties
    <3>6. Append(a, s[n + 1].line) = b
      <4> HIDE DEF a, b
      <4>1. \A i \in 1..n + 1 : i \in 1..n \/ i = n + 1
            OBVIOUS
      <4>2. \A i \in 1..Len(b) : Append(a, s[n + 1].line)[i] = b[i]
            BY <3>4, <3>5, <4>1
      <4>. QED BY <3>4, <3>5, <4>2, SeqEqual
    <3>. QED BY <3>1, <3>2, <3>6
  <2>. QED BY <2>1
<1>7. Nat \subseteq T
  <2> HIDE DEF T
  <2>. QED BY <1>5, <1>6, SetInduction
<1>8. f[Len(s)] = [i \in 1..Len(s) |-> s[i].line]
      BY <1>1, <1>7
<1>. QED BY <1>2, <1>8

LEMMA LinesOfNone ==
  ASSUME NEW S, NEW s \in Seq(S), NEW field, NEW value,
         \A e \in S : e[field] # value
  PROVE  LinesOf(s, field, value) = <<>>
<1>1. LinesOf(s, field, value) \in Seq({})
      BY LinesOfType
<1>. QED BY <1>1

LEMMA LinesOfNothing ==
  ASSUME NEW field, NEW value
  PROVE  LinesOf(<<>>, field, value) = <<>>
<1> DEFINE none == {}
<1>1. <<>> \in Seq(none) /\ \A e \in none : e[field] # value
      OBVIOUS
<1> HIDE DEF none
<1>. QED BY <1>1, LinesOfNone

\* One element more.
LEMMA LinesOfOneMore ==
  ASSUME NEW S, NEW s \in Seq(S), NEW field, NEW value, NEW e \in S
  PROVE  LinesOf(s \o <<e>>, field, value) =
           IF e[field] = value THEN Append(LinesOf(s, field, value), e.line)
           ELSE LinesOf(s, field, value)
<1> DEFINE one == <<e>>
           only == {e}
           L == {x.line : x \in S}
<1>1. /\ one \in Seq(S) /\ one \in Seq(only) /\ Len(one) = 1 /\ one[1] = e
      /\ \A x \in S : x.line \in L
      OBVIOUS
<1> HIDE DEF one, only, L
<1>2. LinesOf(s \o one, field, value) = LinesOf(s, field, value) \o LinesOf(one, field, value)
      BY <1>1, LinesOfConcat
<1>3. LinesOf(s, field, value) \in Seq(L)
      BY <1>1, LinesOfType
<1>4. CASE e[field] = value
  <2>1. e.line \in L
        BY <1>1
  <2>2. LinesOf(one, field, value) = [i \in 1..1 |-> e.line]
    <3>1. LinesOf(one, field, value) = [i \in 1..Len(one) |-> one[i].line]
      <4>1. \A x \in only : x[field] = value
            BY <1>4 DEF only
      <4>. QED BY <1>1, <4>1, LinesOfAll
    <3>2. [i \in 1..Len(one) |-> one[i].line] = [i \in 1..1 |-> e.line]
      <4>1. \A i \in 1..1 : one[i].line = e.line
            BY <1>1
      <4>. QED BY <1>1, <4>1
    <3>. QED BY <3>1, <3>2
  <2>3. [i \in 1..1 |-> e.line] = <<e.line>>
        OBVIOUS
  <2>4. Append(LinesOf(s, field, value), e.line) = LinesOf(s, field, value) \o <<e.line>>
        BY <1>3, <2>1, AppendIsConcat
  <2>. QED BY <1>2, <1>4, <2>2, <2>3, <2>4 DEF one
<1>5. CASE e[field] # value
  <2>1. LinesOf(one, field, value) = <<>>
    <3>1. \A x \in only : x[field] # value
          BY <1>5 DEF only
    <3>. QED BY <1>1, <3>1, LinesOfNone
  <2>. QED BY <1>2, <1>3, <1>5, <2>1, ConcatEmptySeq DEF one
<1>. QED BY <1>4, <1>5 DEF one

-----------------------------------------------------------------------------
(* The end of the output *)

\* Where the last line that is not blank stands, if there is one.
Ending(s, m) ==
  /\ m \in 0..Len(s) /\ Stripped(s) = SubSeq(s, 1, m)
  /\ m # 0 => s[m] # Blank
  /\ \A i \in m + 1..Len(s) : s[i] = Blank

LEMMA EndingExists ==
  ASSUME NEW L, NEW s \in Seq(L)
  PROVE  \E m : Ending(s, m)
<1> DEFINE A == {0} \cup {i \in DOMAIN s : s[i] # Blank}
           T == {n \in Nat : \A a \in A : a <= n}
<1>1. Len(s) \in Nat /\ A \subseteq 0..Len(s)
      OBVIOUS
<1>2. Len(s) \in T
      BY <1>1
<1>3. PICK m \in T : \A n \in T : m <= n
  <2> DEFINE U == {k \in Nat : \A n \in Nat : n < k => n \notin T}
  <2>1. ASSUME \A m \in T : \E n \in T : n < m
        PROVE  FALSE
    <3>1. 0 \in U
          OBVIOUS
    <3>2. ASSUME NEW k \in Nat, k \in U
          PROVE  k + 1 \in U
      <4>1. k \notin T
            BY <2>1, <3>2
      <4>. QED BY <3>2, <4>1
    <3>3. Nat \subseteq U
      <4> HIDE DEF U
      <4>. QED BY <3>1, <3>2, SetInduction
    <3>4. Len(s) + 1 \in U
      <4> HIDE DEF U
      <4>. QED BY <1>1, <3>3
    <3>. QED BY <1>1, <1>2, <3>4
  <2>2. PICK m \in T : \A n \in T : ~(n < m)
        BY <2>1
  <2>3. \A n \in T : n \in Nat
        OBVIOUS
  <2> HIDE DEF T
  <2>4. \A n \in T : m <= n
        BY <2>2, <2>3
  <2>. QED BY <2>4
<1>4. m \in A
  <2>1. CASE m = 0
        BY <2>1
  <2>2. CASE m # 0 /\ m \notin A
    <3>1. m - 1 \in Nat /\ \A a \in A : a <= m - 1
          BY <1>1, <2>2
    <3>. QED BY <1>3, <3>1
  <2>. QED BY <2>1, <2>2
<1>5. \A a \in A : m >= a
      BY <1>1
<1>6. Max(A) = m
  <2>1. Max(A) \in A /\ \A a \in A : Max(A) >= a
    <3> HIDE DEF A
    <3>. QED BY <1>4, <1>5, Zenon DEF Max
  <2>. QED BY <1>1, <1>4, <1>5, <2>1
<1>7. Stripped(s) = SubSeq(s, 1, m)
      BY <1>6 DEF Stripped
<1>8. ASSUME NEW i \in m + 1..Len(s)
      PROVE  s[i] = Blank
  <2>1. i \in DOMAIN s /\ i \notin A
        BY <1>1, <1>5
  <2>. QED BY <2>1
<1>. QED BY <1>1, <1>4, <1>7, <1>8 DEF Ending

LEMMA ResponseAndLogs ==
  ASSUME NEW L, NEW s \in Seq(L), NEW m, Ending(s, m)
  PROVE  /\ Response(s) = IF m = 0 THEN Blank ELSE s[m]
         /\ Logs(s) = IF m = 0 \/ SubSeq(s, 1, m - 1) = <<Blank>> THEN <<>>
                      ELSE SubSeq(s, 1, m - 1)
<1>1. Len(s) \in Nat /\ m \in Nat /\ m <= Len(s) /\ Stripped(s) = SubSeq(s, 1, m)
      BY DEF Ending
<1>2. \A i \in 1..m : s[i] \in L
      BY <1>1
<1>3. /\ SubSeq(s, 1, m) \in Seq(L) /\ Len(SubSeq(s, 1, m)) = m
      /\ \A i \in 1..m : SubSeq(s, 1, m)[i] = s[i]
  <2>1. /\ SubSeq(s, 1, m) \in Seq(L)
        /\ Len(SubSeq(s, 1, m)) = IF 1 <= m THEN m - 1 + 1 ELSE 0
        /\ \A i \in 1..m - 1 + 1 : SubSeq(s, 1, m)[i] = s[1 + i - 1]
        BY <1>1, <1>2, SubSeqProperties
  <2>2. m - 1 + 1 = m /\ (~(1 <= m) => m = 0) /\ \A i \in 1..m : 1 + i - 1 = i
        BY <1>1
  <2>. QED BY <2>1, <2>2
<1>4. CASE m = 0
  <2>1. SubSeq(s, 1, m) = <<>>
        BY <1>3, <1>4, EmptySeq
  <2>. QED BY <1>1, <1>4, <2>1 DEF Response, Logs
<1>5. CASE m # 0
  <2>1. SubSeq(s, 1, m) # <<>> /\ m \in 1..m /\ m - 1 \in 0..m
        BY <1>1, <1>3, <1>5
  <2>2. Last(SubSeq(s, 1, m)) = s[m]
        BY <1>3, <2>1 DEF Last
  <2>3. Front(SubSeq(s, 1, m)) = SubSeq(s, 1, m - 1)
    <3>1. Front(SubSeq(s, 1, m)) = SubSeq(SubSeq(s, 1, m), 1, m - 1)
          BY <1>3 DEF Front
    <3> DEFINE a == SubSeq(SubSeq(s, 1, m), 1, m - 1)
               b == SubSeq(s, 1, m - 1)
    <3>2. \A i \in 1..m - 1 : SubSeq(s, 1, m)[i] \in L /\ s[i] \in L /\ SubSeq(s, 1, m)[i] = s[i]
          BY <1>1, <1>2, <1>3
    <3>3. /\ a \in Seq(L) /\ Len(a) = (IF 1 <= m - 1 THEN m - 1 - 1 + 1 ELSE 0)
          /\ \A i \in 1..m - 1 - 1 + 1 : a[i] = SubSeq(s, 1, m)[1 + i - 1]
          BY <1>1, <3>2, SubSeqProperties
    <3>4. /\ b \in Seq(L) /\ Len(b) = (IF 1 <= m - 1 THEN m - 1 - 1 + 1 ELSE 0)
          /\ \A i \in 1..m - 1 - 1 + 1 : b[i] = s[1 + i - 1]
          BY <1>1, <3>2, SubSeqProperties
    <3>5. /\ m - 1 - 1 + 1 = m - 1 /\ (~(1 <= m - 1) => m - 1 = 0)
          /\ \A i \in 1..m - 1 : 1 + i - 1 = i
          BY <1>1, <1>5
    <3> HIDE DEF a, b
    <3>6. Len(a) = Len(b) /\ \A i \in 1..Len(a) : a[i] = b[i]
      <4>1. Len(a) = m - 1 /\ Len(b) = m - 1 /\ 0 \in Nat
            BY <3>3, <3>4, <3>5
      <4>2. \A i \in 1..m - 1 : a[i] = SubSeq(s, 1, m)[i] /\ b[i] = s[i]
            BY <3>3, <3>4, <3>5
      <4>. QED BY <3>2, <4>1, <4>2
    <3>7. a = b
          BY <3>3, <3>4, <3>6, SeqEqual
    <3>. QED BY <3>1, <3>7 DEF a, b
  <2>. QED BY <1>1, <1>5, <2>1, <2>2, <2>3 DEF Response, Logs
<1>. QED BY <1>4, <1>5

-----------------------------------------------------------------------------
(* What a request has and is told *)

Pieces == UNION {ToSet(o) : o \in Outputs}
LineSet == {p.line : p \in Pieces}
Entries == [request : Requests, line : LineSet]

Refused == {400, 403, 404, 405, 501}

\* Output that ends in a response with which nothing is wrong.
PlainEnd(out) ==
  /\ out # <<>> /\ Last(out).kind = "json" /\ Last(out).status >= 0
  /\ Last(out).encoded => Last(out).body = "base64"

\* stderr has what the function wrote to it, and the logs of its stdout once
\* these were parsed.
Said(r) ==
  \/ pc[r] # "logs" /\ Passed(r) = Lines(r, "stderr")
  \/ /\ pc[r] \in {"logs", "answer", "answered", "dropped"}
     /\ Passed(r) = Lines(r, "stderr") \o Logs(stdout[r])

\* An answer is the response in the output, or there is a reason why it is not.
Told(r) ==
  Replied(r) =>
    IF FromFunction(r)
    THEN /\ reply[r].body = Response(stdout[r])
         /\ Passed(r) = Lines(r, "stderr") \o Logs(stdout[r])
         /\ cut[r] \/ written[r] = Len(output[r])
    ELSE /\ reply[r].status \in Refused => output[r] = NotRun
         /\ output[r] = NotRun \/ cut[r] \/ unclean[r] \/ log = "closed" \/ ~PlainEnd(stdout[r])

\* What is so of every request.
Own(r) ==
  /\ request[r] \in Inputs[options.command]
  /\ cut[r] \in BOOLEAN /\ unclean[r] \in BOOLEAN /\ reply[r].error \in BOOLEAN
  /\ output[r] \in Outputs \cup {NotRun} /\ written[r] \in 0..Len(output[r])
  /\ output[r] = NotRun => written[r] = 0
  /\ pc[r] # "none" => main \in {"serving", "ended"}
  /\ pc[r] \in {"run", "running"} => FunctionOf(r) \in Functions
  /\ pc[r] \in {"cleanup", "parse", "logs"} => cut[r] \/ written[r] = Len(output[r])
  /\ stdout[r] = Lines(r, "stdout")
  /\ Said(r) /\ Told(r)

\* What is so of the command and of the tables of requests.
Common ==
  /\ options \in OptionChoices
  /\ log \in {"none", "open", "closed"} /\ (log = "closed" => main = "ended")
  /\ verdict \in {"none", "done", "user error", "traceback"}
  /\ interrupts \in 0..MaxInterrupts
  /\ DOMAIN request = Requests /\ DOMAIN written = Requests /\ DOMAIN stdout = Requests
  /\ DOMAIN cut = Requests /\ DOMAIN unclean = Requests
  /\ stderr \in Seq(Entries)

OutputInv == ServiceInv /\ Common /\ \A r \in Requests : Own(r)

LEMMA OutputTypes ==
  /\ \A o \in Outputs : o \in Seq(Pieces) /\ Len(o) \in Nat
  /\ \A p \in Pieces : p.stream \in {"stdout", "stderr"} /\ p.line \in LineSet
  /\ \A l \in LineSet : l.kind = "json" => l.status \in Int
<1>1. ASSUME NEW o \in Outputs
      PROVE  o \in Seq(Pieces)
  <2>1. o \in Seq(ToSet(o)) /\ ToSet(o) \subseteq Pieces
        BY ServiceAssumption DEF Pieces
  <2>. QED BY <2>1, SeqMonotonic
<1>2. ASSUME NEW p \in Pieces
      PROVE  /\ p.stream \in {"stdout", "stderr"} /\ p.line \in LineSet
             /\ p.line.kind = "json" => p.line.status \in Int
  <2>1. PICK o \in Outputs : p \in ToSet(o)
        BY DEF Pieces
  <2>. QED BY <2>1, ServiceAssumption DEF LineSet
<1>3. \A o \in Outputs : Len(o) \in Nat
      BY <1>1
<1>4. \A l \in LineSet : l.kind = "json" => l.status \in Int
      BY <1>2 DEF LineSet
<1>. QED BY <1>1, <1>2, <1>3, <1>4

-----------------------------------------------------------------------------
(* Requests that a step leaves alone *)

Same(r) ==
  /\ request'[r] = request[r] /\ output'[r] = output[r] /\ written'[r] = written[r]
  /\ stdout'[r] = stdout[r] /\ cut'[r] = cut[r] /\ unclean'[r] = unclean[r] /\ reply'[r] = reply[r]

LEMMA OwnStays ==
  ASSUME NEW r \in Requests, Own(r), Same(r), Passed(r)' = Passed(r), options' = options,
         pc'[r] = pc[r] \/ (pc[r] \in InHandler /\ pc'[r] = "dropped"),
         main \in {"serving", "ended"} => main' \in {"serving", "ended"},
         log = "closed" => log' = "closed"
  PROVE  Own(r)'
<1>1. /\ Lines(r, "stdout")' = Lines(r, "stdout") /\ Lines(r, "stderr")' = Lines(r, "stderr")
      /\ FunctionOf(r)' = FunctionOf(r) /\ FromFunction(r)' = FromFunction(r)
      BY DEF Same, Lines, FunctionOf, Api, RouteOf, FromFunction
<1>2. Said(r)'
  <2>1. CASE pc[r] # "logs" /\ Passed(r) = Lines(r, "stderr")
        BY <1>1, <2>1 DEF Said
  <2>2. CASE /\ pc[r] \in {"logs", "answer", "answered", "dropped"}
             /\ Passed(r) = Lines(r, "stderr") \o Logs(stdout[r])
        BY <1>1, <2>2 DEF Said, Same
  <2>. QED BY <2>1, <2>2 DEF Own, Said
<1>3. Told(r)'
  <2> SUFFICES ASSUME pc'[r] \in {"answer", "answered"} PROVE Told(r)'
      BY DEF Told, Replied
  <2>1. Replied(r) /\ Told(r)
        BY DEF Replied, Own
  <2>2. CASE FromFunction(r)
        BY <1>1, <2>1, <2>2 DEF Told, Same
  <2>3. CASE ~FromFunction(r)
        BY <1>1, <2>1, <2>3 DEF Told, Same
  <2>. QED BY <2>2, <2>3
<1>4. /\ request'[r] \in Inputs[options'.command]
      /\ cut'[r] \in BOOLEAN /\ unclean'[r] \in BOOLEAN /\ reply'[r].error \in BOOLEAN
      /\ output'[r] \in Outputs \cup {NotRun} /\ written'[r] \in 0..Len(output'[r])
      /\ output'[r] = NotRun => written'[r] = 0
      BY DEF Own, Same
<1>5. /\ pc'[r] # "none" => main' \in {"serving", "ended"}
      /\ pc'[r] \in {"run", "running"} => FunctionOf(r)' \in Functions
      /\ pc'[r] \in {"cleanup", "parse", "logs"} => cut'[r] \/ written'[r] = Len(output'[r])
      BY <1>1 DEF Own, Same, InHandler
<1>6. stdout'[r] = Lines(r, "stdout")'
      BY <1>1 DEF Own, Same
<1>. QED BY <1>2, <1>3, <1>4, <1>5, <1>6 DEF Own

\* One request moves, and nothing is written.
LEMMA QuietStep ==
  ASSUME OutputInv, NEW r \in Requests, NEW next,
         pc' = [pc EXCEPT ![r] = next],
         UNCHANGED <<contextVars, output, written, stdout, stderr>>,
         interrupts' \in 0..MaxInterrupts,
         DOMAIN request' = Requests, DOMAIN cut' = Requests, DOMAIN unclean' = Requests,
         \A s \in Requests \ {r} : Same(s),
         request'[r] \in Inputs[options.command],
         cut'[r] \in BOOLEAN, unclean'[r] \in BOOLEAN, reply'[r].error \in BOOLEAN,
         main \in {"serving", "ended"},
         next \in {"run", "running"} => FunctionOf(r)' \in Functions,
         next \in {"cleanup", "parse", "logs"} => cut'[r] \/ written[r] = Len(output[r]),
         Said(r)', Told(r)'
  PROVE  Common' /\ \A s \in Requests : Own(s)'
<1>1. DOMAIN pc = Requests
      BY DEF OutputInv, ServiceInv, Shapes
<1>2. pc'[r] = next /\ \A s \in Requests \ {r} : pc'[s] = pc[s] /\ Same(s)
      BY <1>1
<1>3. \A s \in Requests : Passed(s)' = Passed(s) /\ Lines(s, "stdout")' = Lines(s, "stdout")
      BY DEF Passed, Lines
<1>4. ASSUME NEW s \in Requests \ {r}
      PROVE  Own(s)'
      BY <1>2, <1>3, <1>4, OwnStays DEF OutputInv, contextVars
<1>5. Own(r)'
      BY <1>2, <1>3 DEF OutputInv, Own, contextVars
<1>6. Common'
      BY <1>1 DEF OutputInv, Common, contextVars
<1>. QED BY <1>4, <1>5, <1>6

\* Nobody moves, but some requests may be dropped; the command goes where it goes.
LEMMA CommandStep ==
  ASSUME OutputInv, UNCHANGED <<request, output, written, stdout, stderr, cut, unclean, reply>>,
         \A r \in Requests : pc'[r] = pc[r] \/ (pc[r] \in InHandler /\ pc'[r] = "dropped"),
         options' = options, interrupts' \in 0..MaxInterrupts,
         log' \in {"none", "open", "closed"}, log' = "closed" => main' = "ended",
         log = "closed" => log' = "closed",
         verdict' \in {"none", "done", "user error", "traceback"},
         main \in {"serving", "ended"} => main' \in {"serving", "ended"}
  PROVE  Common' /\ \A r \in Requests : Own(r)'
<1>1. ASSUME NEW r \in Requests
      PROVE  Own(r)'
  <2>1. Same(r) /\ Passed(r)' = Passed(r)
        BY DEF Same, Passed
  <2>. QED BY <1>1, <2>1, OwnStays DEF OutputInv
<1>2. Common'
      BY DEF OutputInv, Common
<1>. QED BY <1>1, <1>2

-----------------------------------------------------------------------------
(* Steps that write nothing *)

LEMMA SaidStays ==
  ASSUME NEW r \in Requests, Said(r), UNCHANGED <<output, written, stdout, stderr>>,
         pc'[r] # "logs",
         pc[r] \in {"logs", "answer", "answered", "dropped"} =>
           pc'[r] \in {"answer", "answered", "dropped"}
  PROVE  Said(r)'
<1>1. /\ Passed(r)' = Passed(r) /\ Lines(r, "stderr")' = Lines(r, "stderr")
      /\ Logs(stdout[r])' = Logs(stdout[r])
      BY DEF Passed, Lines
<1>. QED BY <1>1 DEF Said

\* What a service answers on its own account.
LEMMA ErrorTold ==
  ASSUME NEW r \in Requests, reply'[r].body.kind \notin LineKinds,
         reply'[r].status \in Refused => output'[r] = NotRun,
         output'[r] = NotRun \/ cut'[r] \/ unclean'[r] \/ log' = "closed" \/ ~PlainEnd(stdout'[r])
  PROVE  Told(r)'
BY DEF Told, FromFunction

LEMMA MessagesAreNoErrors ==
  /\ \A files, q : StaticReply(files, q).error = FALSE
  /\ RouteNotFound.error = FALSE /\ LambdaNotFound.error = FALSE /\ LambdaFailure.error = FALSE
  /\ PathNotFound.error = FALSE /\ MethodNotAllowed.error = FALSE /\ ResourceNotFound.error = FALSE
  /\ InternalError.error = FALSE /\ InternalError.status \notin Refused
  /\ \A q : Validate(q).error = FALSE
<1> USE DEF Reply
<1>1. \A q : Validate(q) \in {ServiceException, InvalidRequestContent, NotImplementedLocally, Accepted}
      BY DEF Validate
<1>2. \A files, q : StaticReply(files, q) \in {RouteNotFound, StaticFile, AutomaticOptions}
      BY DEF StaticReply
<1>3. /\ RouteNotFound.error = FALSE /\ StaticFile.error = FALSE
      /\ AutomaticOptions.error = FALSE
      BY DEF RouteNotFound, StaticFile, AutomaticOptions
<1>. QED BY <1>1, <1>2, <1>3
     DEF LambdaNotFound, LambdaFailure, PathNotFound, MethodNotAllowed, ResourceNotFound,
         InternalError, ServiceException, InvalidRequestContent, NotImplementedLocally, Accepted,
         Refused

LEMMA ReceiveStep ==
  ASSUME OutputInv, NEW r \in Requests, Receive(r)
  PROVE  Common' /\ \A s \in Requests : Own(s)'
<1> USE DEF OutputInv, ServiceInv, Shapes, Common
<1>1. /\ pc' = [pc EXCEPT ![r] = "handle"] /\ pc[r] = "none" /\ main = "serving"
      /\ UNCHANGED <<contextVars, interrupts, output, written, stdout, stderr, cut, unclean, reply>>
      /\ \E i \in Inputs[options.command] : request' = [request EXCEPT ![r] = i]
      BY DEF Receive, Step
<1>2. DOMAIN request' = Requests /\ request'[r] \in Inputs[options.command]
      BY <1>1
<1>3. \A s \in Requests \ {r} : Same(s)
      BY <1>1 DEF Same
<1>4. Said(r)'
      BY <1>1, SaidStays DEF Own
<1>5. Told(r)'
      BY <1>1 DEF Told, Replied
<1>6. cut'[r] \in BOOLEAN /\ unclean'[r] \in BOOLEAN /\ reply'[r].error \in BOOLEAN
      BY <1>1 DEF Own
<1>7. DOMAIN cut' = Requests /\ DOMAIN unclean' = Requests /\ interrupts' \in 0..MaxInterrupts
      BY <1>1
<1>. QED BY <1>1, <1>2, <1>3, <1>4, <1>5, <1>6, <1>7, QuietStep

\* A refusal, a failure of the runtime, or a reply: the handler is done.
LEMMA AnswerStep ==
  ASSUME OutputInv, NEW r \in Requests, pc[r] \in InHandler, NEW answer,
         AnswerWith(r, answer), answer.error \in BOOLEAN, Told(r)'
  PROVE  Common' /\ \A s \in Requests : Own(s)'
<1> USE DEF OutputInv, ServiceInv, Shapes, Common
<1>1. /\ pc' = [pc EXCEPT ![r] = "answer"] /\ reply' = [reply EXCEPT ![r] = answer]
      /\ UNCHANGED <<contextVars, interrupts, request, output, written, stdout, stderr, cut, unclean>>
      BY DEF AnswerWith, Step
<1>2. reply'[r] = answer /\ \A s \in Requests \ {r} : Same(s)
      BY <1>1 DEF Same
<1>3. Said(r)'
      BY <1>1, SaidStays DEF Own
<1>4. /\ main \in {"serving", "ended"} /\ cut'[r] \in BOOLEAN /\ unclean'[r] \in BOOLEAN
      /\ request'[r] \in Inputs[options.command]
      BY <1>1 DEF Own, InHandler
<1>5. /\ DOMAIN request' = Requests /\ DOMAIN cut' = Requests /\ DOMAIN unclean' = Requests
      /\ interrupts' \in 0..MaxInterrupts
      BY <1>1
<1>. QED BY <1>1, <1>2, <1>3, <1>4, <1>5, QuietStep

LEMMA RefusalStep ==
  ASSUME OutputInv, NEW r \in Requests, pc[r] = "handle", NEW answer, AnswerWith(r, answer),
         answer.body.kind \notin LineKinds, answer.error = FALSE
  PROVE  Common' /\ \A s \in Requests : Own(s)'
<1>1. reply'[r] = answer /\ output'[r] = output[r]
      BY DEF AnswerWith, OutputInv, ServiceInv, Shapes
<1>2. output[r] = NotRun
      BY DEF OutputInv, ServiceInv, RunsOnce
<1>3. Told(r)'
      BY <1>1, <1>2, ErrorTold
<1>. QED BY <1>3, AnswerStep DEF InHandler

LEMMA ProceedStep ==
  ASSUME OutputInv, NEW r \in Requests, pc[r] = "handle", Proceed(r), FunctionOf(r) \in Functions
  PROVE  Common' /\ \A s \in Requests : Own(s)'
<1> USE DEF OutputInv, ServiceInv, Shapes, Common
<1>1. /\ pc' = [pc EXCEPT ![r] = "run"]
      /\ UNCHANGED <<contextVars, interrupts, request, output, written, stdout, stderr, cut, unclean,
                     reply>>
      BY DEF Proceed, Step
<1>2. \A s \in Requests \ {r} : Same(s)
      BY <1>1 DEF Same
<1>3. Said(r)' /\ Told(r)'
      BY <1>1, SaidStays DEF Own, Told, Replied
<1>4. FunctionOf(r)' = FunctionOf(r)
  <2>1. request'[r] = request[r] /\ options' = options
        BY <1>1 DEF contextVars
  <2>2. RouteOf(r)' = RouteOf(r) /\ Api' = Api
        BY <2>1 DEF RouteOf, Api
  <2>. QED BY <2>1, <2>2 DEF FunctionOf
<1>5. /\ main \in {"serving", "ended"} /\ cut'[r] \in BOOLEAN /\ unclean'[r] \in BOOLEAN
      /\ reply'[r].error \in BOOLEAN
      /\ request'[r] \in Inputs[options.command]
      BY <1>1 DEF Own
<1>6. /\ DOMAIN request' = Requests /\ DOMAIN cut' = Requests /\ DOMAIN unclean' = Requests
      /\ interrupts' \in 0..MaxInterrupts
      BY <1>1
<1>. QED BY <1>1, <1>2, <1>3, <1>4, <1>5, <1>6, QuietStep

LEMMA HandleStep ==
  ASSUME OutputInv, NEW r \in Requests, HandleApi(r) \/ HandleInvoke(r)
  PROVE  Common' /\ \A s \in Requests : Own(s)'
<1>1. CASE HandleApi(r)
  <2>1. pc[r] = "handle"
        BY <1>1 DEF HandleApi
  <2>2. CASE AnswerWith(r, StaticReply(StaticFiles, request[r])) \/ AnswerWith(r, RouteNotFound)
        BY <2>1, <2>2, MessagesAreNoLines, MessagesAreNoErrors, RefusalStep
  <2>3. CASE AnswerWith(r, LambdaFailure)
        BY <2>1, <2>3, MessagesAreNoLines, MessagesAreNoErrors, RefusalStep
  <2>4. CASE AnswerWith(r, LambdaNotFound)
        BY <2>1, <2>4, MessagesAreNoLines, MessagesAreNoErrors, RefusalStep
  <2>5. CASE FunctionOf(r) \in Functions /\ Proceed(r)
        BY <2>1, <2>5, ProceedStep
  <2>. QED BY <1>1, <2>2, <2>3, <2>4, <2>5 DEF HandleApi
<1>2. CASE HandleInvoke(r)
  <2>1. pc[r] = "handle"
        BY <1>2 DEF HandleInvoke
  <2>2. CASE Validate(request[r]) # Accepted /\ AnswerWith(r, Validate(request[r]))
        BY <2>1, <2>2, MessagesAreNoLines, MessagesAreNoErrors, RefusalStep
  <2>3. CASE AnswerWith(r, PathNotFound)
        BY <2>1, <2>3, MessagesAreNoLines, MessagesAreNoErrors, RefusalStep
  <2>4. CASE AnswerWith(r, MethodNotAllowed)
        BY <2>1, <2>4, MessagesAreNoLines, MessagesAreNoErrors, RefusalStep
  <2>5. CASE AnswerWith(r, ResourceNotFound)
        BY <2>1, <2>5, MessagesAreNoLines, MessagesAreNoErrors, RefusalStep
  <2>6. CASE FunctionOf(r) \in Functions /\ Proceed(r)
        BY <2>1, <2>6, ProceedStep
  <2>. QED BY <1>2, <2>2, <2>3, <2>4, <2>5, <2>6 DEF HandleInvoke
<1>. QED BY <1>1, <1>2
\* The function ends, or its container is stopped, and then they are cleaned up.
LEMMA FunctionEndsStep ==
  ASSUME OutputInv, NEW r \in Requests, pc[r] \in {"running", "cleanup"},
         NEW next \in {"cleanup", "parse"}, pc' = [pc EXCEPT ![r] = next],
         UNCHANGED <<contextVars, request, output, written, stdout, stderr, unclean, reply>>,
         interrupts' \in 0..MaxInterrupts,
         \/ cut' = cut /\ (cut[r] \/ written[r] = Len(output[r]))
         \/ cut' = [cut EXCEPT ![r] = TRUE]
  PROVE  Common' /\ \A s \in Requests : Own(s)'
<1> USE DEF OutputInv, ServiceInv, Shapes, Common
<1>1. \A s \in Requests \ {r} : Same(s)
      BY DEF Same
<1>2. Said(r)' /\ Told(r)'
      BY SaidStays DEF Own, Told, Replied
<1>3. /\ cut'[r] \in BOOLEAN /\ (cut'[r] \/ written[r] = Len(output[r])) /\ DOMAIN cut' = Requests
      /\ unclean'[r] \in BOOLEAN /\ DOMAIN unclean' = Requests
      /\ main \in {"serving", "ended"} /\ reply'[r].error \in BOOLEAN
      /\ request'[r] \in Inputs[options.command]
      BY DEF Own
<1>. QED BY <1>1, <1>2, <1>3, QuietStep

\* Running a function, or the clean-up after it, fails.
LEMMA RuntimeFailsStep ==
  ASSUME OutputInv, NEW r \in Requests, RuntimeFails(r) \/ CleanUpFails(r)
  PROVE  Common' /\ \A s \in Requests : Own(s)'
<1> USE DEF OutputInv, ServiceInv, Shapes, Common
<1>1. /\ pc' = [pc EXCEPT ![r] = "answer"] /\ pc[r] \in {"run", "running", "cleanup"}
      /\ reply' = [reply EXCEPT ![r] = InternalError]
      /\ \/ cut' = [cut EXCEPT ![r] = TRUE] /\ unclean' = unclean
         \/ unclean' = [unclean EXCEPT ![r] = TRUE] /\ cut' = cut
      /\ UNCHANGED <<contextVars, interrupts, request, output, written, stdout, stderr>>
      BY DEF RuntimeFails, CleanUpFails, Step
<1>2. /\ reply'[r] = InternalError /\ (cut'[r] = TRUE \/ unclean'[r] = TRUE)
      /\ cut'[r] \in BOOLEAN /\ unclean'[r] \in BOOLEAN
      /\ \A s \in Requests \ {r} : Same(s)
      BY <1>1 DEF Same, Own
<1>3. Said(r)'
      BY <1>1, SaidStays DEF Own
<1>4. Told(r)'
      BY <1>2, ErrorTold, MessagesAreNoLines, MessagesAreNoErrors
<1>5. /\ main \in {"serving", "ended"} /\ reply'[r].error \in BOOLEAN
      /\ request'[r] \in Inputs[options.command]
      BY <1>1, <1>2, MessagesAreNoErrors DEF Own
<1>6. /\ DOMAIN request' = Requests /\ DOMAIN cut' = Requests /\ DOMAIN unclean' = Requests
      /\ interrupts' \in 0..MaxInterrupts
      BY <1>1
<1>. QED BY <1>1, <1>2, <1>3, <1>4, <1>5, <1>6, QuietStep

LEMMA AnsweredStep ==
  ASSUME OutputInv, NEW r \in Requests, Answer(r)
  PROVE  Common' /\ \A s \in Requests : Own(s)'
<1> USE DEF OutputInv, ServiceInv, Shapes, Common
<1>1. /\ pc' = [pc EXCEPT ![r] = "answered"] /\ pc[r] = "answer"
      /\ UNCHANGED <<contextVars, interrupts, request, output, written, stdout, stderr, cut, unclean,
                     reply>>
      BY DEF Answer, Step
<1>2. \A s \in Requests \ {r} : Same(s)
      BY <1>1 DEF Same
<1>3. Said(r)'
      BY <1>1, SaidStays DEF Own
<1>4. Told(r)'
  <2>1. /\ FromFunction(r)' = FromFunction(r) /\ Passed(r)' = Passed(r)
        /\ Lines(r, "stderr")' = Lines(r, "stderr")
        BY <1>1 DEF FromFunction, Passed, Lines
  <2>2. Replied(r) /\ Told(r)
        BY <1>1 DEF Own, Replied
  <2>3. log' = log
        BY <1>1 DEF contextVars
  <2>4. CASE FromFunction(r)
        BY <1>1, <2>1, <2>2, <2>4 DEF Told
  <2>5. CASE ~FromFunction(r)
        BY <1>1, <2>1, <2>2, <2>3, <2>5 DEF Told
  <2>. QED BY <2>4, <2>5
<1>5. /\ main \in {"serving", "ended"} /\ cut'[r] \in BOOLEAN /\ unclean'[r] \in BOOLEAN
      /\ reply'[r].error \in BOOLEAN
      /\ request'[r] \in Inputs[options.command]
      BY <1>1 DEF Own
<1>6. /\ DOMAIN request' = Requests /\ DOMAIN cut' = Requests /\ DOMAIN unclean' = Requests
      /\ interrupts' \in 0..MaxInterrupts
      BY <1>1
<1>. QED BY <1>1, <1>2, <1>3, <1>4, <1>5, <1>6, QuietStep

-----------------------------------------------------------------------------
(* Replies *)

\* What is collected of a request's output are lines, no more than are written.
LEMMA OutputIsLines ==
  ASSUME OutputInv, NEW r \in Requests, NEW stream
  PROVE  /\ Lines(r, stream) \in Seq(LineSet) /\ Len(Lines(r, stream)) <= written[r]
         /\ written[r] \in Nat /\ Len(output[r]) \in Nat
<1>1. /\ output[r] \in Outputs \cup {NotRun} /\ written[r] \in 0..Len(output[r])
      /\ output[r] = NotRun => written[r] = 0
      BY DEF OutputInv, Own
<1>2. CASE output[r] = NotRun
  <2>1. SubSeq(output[r], 1, written[r]) = <<>> /\ Len(output[r]) = 1
        BY <1>1, <1>2 DEF NotRun
  <2>2. Lines(r, stream) = <<>>
        BY <2>1, LinesOfNothing DEF Lines
  <2>3. <<>> \in Seq(LineSet) /\ Len(<<>>) = 0
        OBVIOUS
  <2>. QED BY <1>1, <1>2, <2>1, <2>2, <2>3
<1>3. CASE output[r] \in Outputs
  <2> DEFINE seen == SubSeq(output[r], 1, written[r])
  <2>1. output[r] \in Seq(Pieces) /\ Len(output[r]) \in Nat
        BY <1>3, OutputTypes
  <2>2. seen \in Seq(Pieces) /\ Len(seen) = written[r]
        BY <1>1, <2>1
  <2>3. \A p \in Pieces : p["stream"] = stream => p.line \in LineSet
        BY OutputTypes
  <2> HIDE DEF seen
  <2>4. /\ LinesOf(seen, "stream", stream) \in Seq(LineSet)
        /\ Len(LinesOf(seen, "stream", stream)) <= Len(seen)
        BY <2>2, <2>3, LinesOfType
  <2>. QED BY <1>1, <2>1, <2>2, <2>4 DEF Lines, seen
<1>. QED BY <1>1, <1>2, <1>3

\* Output with a plain end has it for its response.
LEMMA PlainEndResponds ==
  ASSUME NEW L, NEW s \in Seq(L), PlainEnd(s)
  PROVE  Response(s) = Last(s)
<1>1. s # <<>> /\ Last(s).kind = "json" /\ Last(s) = s[Len(s)] /\ Len(s) \in Nat /\ Len(s) # 0
  <2>1. Last(s) = s[Len(s)]
        BY DEF Last
  <2>. QED BY <2>1 DEF PlainEnd
<1>2. s[Len(s)] # Blank
      BY <1>1 DEF Blank
<1>3. PICK m : Ending(s, m)
      BY EndingExists
<1>4. m = Len(s)
  <2>1. m \in 0..Len(s) /\ \A i \in m + 1..Len(s) : s[i] = Blank
        BY <1>3 DEF Ending
  <2>2. ~(Len(s) \in m + 1..Len(s))
        BY <1>2, <2>1
  <2>. QED BY <1>1, <2>1, <2>2
<1>. QED BY <1>1, <1>3, <1>4, ResponseAndLogs

LEMMA MakeReplyStep ==
  ASSUME OutputInv, NEW r \in Requests, MakeReply(r)
  PROVE  Common' /\ \A s \in Requests : Own(s)'
<1> DEFINE line == Response(stdout[r])
           answer == IF Api THEN ApiReply(line, RouteOf(r), request[r]) ELSE InvokeReply(line)
<1>1. pc[r] = "logs" /\ AnswerWith(r, answer)
      BY DEF MakeReply
<1>2. stdout[r] = Lines(r, "stdout") /\ Said(r) /\ (cut[r] \/ written[r] = Len(output[r]))
      BY <1>1 DEF OutputInv, Own
<1>3. stdout[r] \in Seq(LineSet)
      BY <1>2, OutputIsLines
<1>4. PlainEnd(stdout[r]) => /\ line.kind = "json" /\ ~(line.status < 0)
                             /\ line.encoded => line.body = "base64"
  <2>1. ASSUME PlainEnd(stdout[r])
        PROVE  /\ line = Last(stdout[r]) /\ line.kind = "json" /\ line.status >= 0
               /\ line.encoded => line.body = "base64"
        BY <1>3, <2>1, PlainEndResponds DEF PlainEnd
  <2>2. ASSUME PlainEnd(stdout[r])
        PROVE  line.status \in Int
    <3>1. Last(stdout[r]) \in LineSet
          BY <1>3, <2>2 DEF PlainEnd, Last
    <3>. QED BY <2>1, <2>2, <3>1, OutputTypes
  <2> HIDE DEF line
  <2>. QED BY <2>1, <2>2
<1>5. CASE answer = LambdaFailure /\ Unparsable(line, RouteOf(r), request[r])
  <2>1. ~PlainEnd(stdout[r])
        BY <1>4, <1>5 DEF Unparsable, ShouldDecode
  <2>2. LambdaFailure.status \notin Refused /\ LambdaFailure.body.kind \notin LineKinds
    <3>1. LambdaFailure.status = 502
          BY DEF LambdaFailure, Reply
    <3>. QED BY <3>1, MessagesAreNoLines DEF Refused
  <2>3. reply'[r] = answer /\ stdout' = stdout
        BY <1>1 DEF AnswerWith, OutputInv, ServiceInv, Shapes
  <2>4. Told(r)'
        BY <1>5, <2>1, <2>2, <2>3, ErrorTold
  <2>5. answer.error \in BOOLEAN
        BY <1>5, MessagesAreNoErrors
  <2> HIDE DEF answer
  <2>. QED BY <1>1, <2>4, <2>5, AnswerStep DEF InHandler
<1>6. CASE /\ answer.body = line /\ answer.error \in BOOLEAN
           /\ line.kind \in LineKinds \/ answer.status \notin Refused
  <2> HIDE DEF answer
  <2>1. /\ reply'[r] = answer /\ pc'[r] = "answer" /\ UNCHANGED <<output, written, stdout, stderr, cut>>
        BY <1>1 DEF AnswerWith, Step, OutputInv, ServiceInv, Shapes
  <2>2. Passed(r)' = Passed(r) /\ Lines(r, "stderr")' = Lines(r, "stderr")
        BY <2>1 DEF Passed, Lines
  <2>3. Passed(r) = Lines(r, "stderr") \o Logs(stdout[r])
        BY <1>1, <1>2 DEF Said
  <2>4. FromFunction(r)' <=> line.kind \in LineKinds
        BY <1>6, <2>1 DEF FromFunction
  <2>5. ASSUME line.kind \in LineKinds
        PROVE  Told(r)'
    <3>1. reply'[r].body = Response(stdout'[r])
          BY <1>6, <2>1
    <3>2. Passed(r)' = Lines(r, "stderr")' \o Logs(stdout'[r])
          BY <2>1, <2>2, <2>3
    <3>3. cut'[r] \/ written'[r] = Len(output'[r])
          BY <1>2, <2>1
    <3>. QED BY <2>4, <2>5, <3>1, <3>2, <3>3 DEF Told
  <2>6. ASSUME line.kind \notin LineKinds
        PROVE  Told(r)'
    <3>1. ~PlainEnd(stdout[r])
          BY <1>4, <2>6 DEF LineKinds
    <3>2. reply'[r].status \notin Refused /\ ~PlainEnd(stdout'[r])
          BY <1>6, <2>1, <2>6, <3>1
    <3>. QED BY <2>4, <2>6, <3>2 DEF Told
  <2>7. Told(r)'
        BY <2>5, <2>6
  <2>. QED BY <1>1, <1>6, <2>7, AnswerStep DEF InHandler
<1>7. \/ answer = LambdaFailure /\ Unparsable(line, RouteOf(r), request[r])
      \/ /\ answer.body = line /\ answer.error \in BOOLEAN
         /\ line.kind \in LineKinds \/ answer.status \notin Refused
  <2> HIDE DEF line
  <2>1. CASE Api /\ Unparsable(line, RouteOf(r), request[r])
        BY <2>1 DEF ApiReply
  <2>2. CASE Api /\ ~Unparsable(line, RouteOf(r), request[r])
        BY <2>2 DEF ApiReply, Reply, Unparsable, LineKinds
  <2>3. CASE ~Api
        BY <2>3 DEF InvokeReply, Refused
  <2>. QED BY <2>1, <2>2, <2>3
<1>. QED BY <1>5, <1>6, <1>7
-----------------------------------------------------------------------------
(* Steps that write *)

\* One request moves, and what is written is written for it.
LEMMA WritingStep ==
  ASSUME OutputInv, NEW r \in Requests, NEW next, next \in {"running", "logs"},
         pc[r] \in InHandler, pc' = [pc EXCEPT ![r] = next],
         UNCHANGED <<contextVars, interrupts, request, cut, unclean, reply>>,
         DOMAIN written' = Requests, DOMAIN stdout' = Requests,
         \A s \in Requests \ {r} : Same(s) /\ Passed(s)' = Passed(s),
         stderr' \in Seq(Entries),
         output'[r] \in Outputs, written'[r] \in 0..Len(output'[r]),
         next = "running" => FunctionOf(r) \in Functions,
         next = "logs" => cut[r] \/ written'[r] = Len(output'[r]),
         stdout'[r] = Lines(r, "stdout")', Said(r)'
  PROVE  Common' /\ \A s \in Requests : Own(s)'
<1>1. pc'[r] = next /\ \A s \in Requests \ {r} : pc'[s] = pc[s]
      BY DEF OutputInv, ServiceInv, Shapes
<1>2. ASSUME NEW s \in Requests \ {r}
      PROVE  Own(s)'
      BY <1>1, <1>2, OwnStays DEF OutputInv, contextVars
<1>3. FunctionOf(r)' = FunctionOf(r)
  <2>1. request'[r] = request[r] /\ options' = options
        BY DEF contextVars
  <2>2. RouteOf(r)' = RouteOf(r) /\ Api' = Api
        BY <2>1 DEF RouteOf, Api
  <2>. QED BY <2>1, <2>2 DEF FunctionOf
<1>4. Told(r)'
      BY <1>1 DEF Told, Replied
<1>5. NotRun \notin Outputs
      BY ServiceAssumption
<1>6. Own(r)'
  <2>1. /\ request'[r] \in Inputs[options'.command]
        /\ cut'[r] \in BOOLEAN /\ unclean'[r] \in BOOLEAN /\ reply'[r].error \in BOOLEAN
        /\ main' \in {"serving", "ended"}
        BY DEF OutputInv, Own, InHandler, contextVars
  <2>2. /\ output'[r] \in Outputs \cup {NotRun} /\ written'[r] \in 0..Len(output'[r])
        /\ output'[r] = NotRun => written'[r] = 0
        BY <1>5
  <2>3. pc'[r] \in {"run", "running"} => FunctionOf(r)' \in Functions
        BY <1>1, <1>3
  <2>4. pc'[r] \in {"cleanup", "parse", "logs"} => cut'[r] \/ written'[r] = Len(output'[r])
        BY <1>1
  <2>. QED BY <1>4, <2>1, <2>2, <2>3, <2>4 DEF Own
<1>7. Common'
      BY DEF OutputInv, Common, contextVars
<1>. QED BY <1>2, <1>6, <1>7

LEMMA RunStep ==
  ASSUME OutputInv, NEW r \in Requests, Run(r)
  PROVE  Common' /\ \A s \in Requests : Own(s)'
<1> USE DEF OutputInv, ServiceInv, Shapes, Common
<1>1. PICK o \in Outputs : output' = [output EXCEPT ![r] = o]
      BY DEF Run
<1>2. /\ pc[r] = "run" /\ pc' = [pc EXCEPT ![r] = "running"]
      /\ UNCHANGED <<contextVars, interrupts, request, written, stdout, stderr, cut, unclean, reply>>
      BY DEF Run, Step
<1>3. output[r] = NotRun /\ written[r] = 0
      BY <1>2 DEF RunsOnce, Own
<1>4. \A stream : Lines(r, stream) = <<>> /\ Lines(r, stream)' = <<>>
  <2>1. output'[r] = o /\ written'[r] = 0 /\ o \in Seq(Pieces)
        BY <1>1, <1>2, <1>3, OutputTypes
  <2>2. SubSeq(o, 1, 0) = <<>>
    <3> HIDE DEF OutputInv, ServiceInv, Shapes, Common
    <3>. QED BY <2>1
  <2>3. SubSeq(NotRun, 1, 0) = <<>>
    <3> HIDE DEF OutputInv, ServiceInv, Shapes, Common
    <3>. QED BY DEF NotRun
  <2> HIDE DEF OutputInv, ServiceInv, Shapes, Common
  <2>. QED BY <1>3, <2>1, <2>2, <2>3, LinesOfNothing DEF Lines
<1>5. Said(r)'
  <2>1. Passed(r) = <<>> /\ Passed(r)' = Passed(r) /\ pc'[r] = "running"
        BY <1>2, <1>4 DEF Own, Said, Passed
  <2>. QED BY <1>4, <2>1 DEF Said
<1>6. stdout'[r] = Lines(r, "stdout")'
      BY <1>2, <1>4 DEF Own
<1>7. /\ output'[r] \in Outputs /\ written'[r] \in 0..Len(output'[r])
      /\ FunctionOf(r) \in Functions
  <2>1. Len(o) \in Nat /\ 0 \in 0..Len(o)
    <3> HIDE DEF OutputInv, ServiceInv, Shapes, Common
    <3>1. Len(o) \in Nat
          BY OutputTypes
    <3>. QED BY <3>1
  <2>2. output'[r] = o /\ written'[r] = 0
        BY <1>1, <1>2, <1>3
  <2>3. FunctionOf(r) \in Functions
        BY <1>2 DEF Own
  <2>. QED BY <2>1, <2>2, <2>3
<1>8. \A s \in Requests \ {r} : Same(s) /\ Passed(s)' = Passed(s)
      BY <1>1, <1>2 DEF Same, Passed
<1>9. DOMAIN written' = Requests /\ DOMAIN stdout' = Requests /\ stderr' \in Seq(Entries)
      BY <1>2
<1>. QED BY <1>2, <1>5, <1>6, <1>7, <1>8, <1>9, WritingStep DEF InHandler

\* What a function writes comes to the lines of its stream.
LEMMA LinesGrow ==
  ASSUME OutputInv, NEW r \in Requests, pc[r] = "running", written[r] < Len(output[r]),
         output'[r] = output[r], written'[r] = written[r] + 1
  PROVE  /\ Piece(r) \in Pieces /\ output[r] \in Outputs
         /\ written[r] \in Nat /\ Len(output[r]) \in Nat
         /\ \A stream :
              Lines(r, stream)' = IF Piece(r).stream = stream
                                  THEN Append(Lines(r, stream), Piece(r).line)
                                  ELSE Lines(r, stream)
<1> DEFINE w == written[r]
           o == output[r]
<1>1. o \in Outputs /\ w \in 0..Len(o)
      BY DEF OutputInv, Own, ServiceInv, RunsOnce
<1>2. o \in Seq(Pieces) /\ Len(o) \in Nat
      BY <1>1, OutputTypes
<1>3. w \in Nat /\ w + 1 \in 1..Len(o) /\ o[w + 1] \in Pieces
      BY <1>1, <1>2
<1>4. SubSeq(o, 1, w) \in Seq(Pieces)
      BY <1>1, <1>2
<1>5. SubSeq(o, 1, w + 1) = SubSeq(o, 1, w) \o <<o[w + 1]>>
  <2>1. SubSeq(o, 1, w + 1) = Append(SubSeq(o, 1, w), o[w + 1])
        BY SMTT(30), <1>2, <1>3
  <2> DEFINE head == SubSeq(o, 1, w)
             x == o[w + 1]
  <2>2. Append(head, x) = head \o <<x>>
    <3> HIDE DEF head, x
    <3>. QED BY <1>3, <1>4, AppendIsConcat DEF head, x
  <2>. QED BY <2>1, <2>2
<1>6. ASSUME NEW stream
      PROVE  Lines(r, stream)' = IF Piece(r).stream = stream
                                 THEN Append(Lines(r, stream), Piece(r).line)
                                 ELSE Lines(r, stream)
  <2>1. Lines(r, stream)' = LinesOf(SubSeq(o, 1, w) \o <<o[w + 1]>>, "stream", stream)
        BY <1>5 DEF Lines
  <2>2. Lines(r, stream) = LinesOf(SubSeq(o, 1, w), "stream", stream) /\ Piece(r) = o[w + 1]
        BY DEF Lines, Piece
  <2> DEFINE head == SubSeq(o, 1, w)
             x == o[w + 1]
  <2>3. head \in Seq(Pieces) /\ x \in Pieces
        BY <1>3, <1>4
  <2> HIDE DEF head, x, w, o
  <2>4. LinesOf(head \o <<x>>, "stream", stream) =
          IF x["stream"] = stream THEN Append(LinesOf(head, "stream", stream), x.line)
          ELSE LinesOf(head, "stream", stream)
        BY <2>3, LinesOfOneMore
  <2>. QED BY <2>1, <2>2, <2>4 DEF head, x
<1>. QED BY <1>1, <1>2, <1>3, <1>6 DEF Piece
\* What is added to stderr for a request is passed on for it, and for no other.
LEMMA PassedGrows ==
  ASSUME stderr \in Seq(Entries), NEW r \in Requests, NEW l \in LineSet,
         stderr' = Append(stderr, [request |-> r, line |-> l])
  PROVE  /\ stderr' \in Seq(Entries) /\ Passed(r)' = Append(Passed(r), l)
         /\ \A s \in Requests \ {r} : Passed(s)' = Passed(s)
<1> DEFINE entry == [request |-> r, line |-> l]
<1>1. entry \in Entries /\ entry["request"] = r /\ entry.line = l
      BY DEF Entries
<1> HIDE DEF entry
<1>2. stderr' = stderr \o <<entry>> /\ stderr' \in Seq(Entries)
  <2>1. stderr' = Append(stderr, entry)
        BY DEF entry
  <2>. QED BY <1>1, <2>1, AppendIsConcat
<1>3. ASSUME NEW s
      PROVE  Passed(s)' = IF entry["request"] = s THEN Append(Passed(s), entry.line) ELSE Passed(s)
  <2>1. LinesOf(stderr \o <<entry>>, "request", s) =
          IF entry["request"] = s THEN Append(LinesOf(stderr, "request", s), entry.line)
          ELSE LinesOf(stderr, "request", s)
        BY <1>1, LinesOfOneMore
  <2>. QED BY <1>2, <2>1 DEF Passed
<1>. QED BY <1>1, <1>2, <1>3

LEMMA EmitStep ==
  ASSUME OutputInv, NEW r \in Requests, Emit(r)
  PROVE  Common' /\ \A s \in Requests : Own(s)'
<1>1. pc[r] = "running" /\ written[r] < Len(output[r])
      BY DEF Emit
<1>2. CASE Piece(r).stream = "stderr" /\ log = "closed"
  <2>1. AnswerWith(r, InternalError)
        BY <1>2 DEF Emit
  <2>2. reply'[r] = InternalError /\ log' = "closed"
        BY <1>2, <2>1 DEF AnswerWith, Step, contextVars, OutputInv, ServiceInv, Shapes
  <2>3. Told(r)'
        BY <2>2, ErrorTold, MessagesAreNoLines, MessagesAreNoErrors
  <2>. QED BY <1>1, <2>1, <2>3, AnswerStep, MessagesAreNoErrors DEF InHandler
<1>3. CASE ~(Piece(r).stream = "stderr" /\ log = "closed")
  <2>1. /\ written' = [written EXCEPT ![r] = @ + 1]
        /\ UNCHANGED <<contextVars, interrupts, pc, request, output, cut, unclean, reply>>
        /\ \/ /\ Piece(r).stream = "stdout" /\ UNCHANGED stderr
              /\ stdout' = [stdout EXCEPT ![r] = Append(@, Piece(r).line)]
           \/ /\ Piece(r).stream # "stdout" /\ UNCHANGED stdout
              /\ stderr' = Append(stderr, [request |-> r, line |-> Piece(r).line])
        BY <1>3 DEF Emit
  <2>2. /\ DOMAIN written = Requests /\ DOMAIN stdout = Requests /\ stderr \in Seq(Entries)
        /\ pc' = [pc EXCEPT ![r] = "running"]
        BY <1>1, <2>1 DEF OutputInv, Common, ServiceInv, Shapes
  <2>3. /\ written'[r] = written[r] + 1 /\ output'[r] = output[r]
        /\ \A s \in Requests \ {r} : written'[s] = written[s]
        BY <2>1, <2>2
  <2>4. /\ Piece(r) \in Pieces /\ output[r] \in Outputs
        /\ written[r] \in Nat /\ Len(output[r]) \in Nat
        BY <1>1, <2>3, LinesGrow
  <2>5. \A stream : Lines(r, stream)' = IF Piece(r).stream = stream
                                        THEN Append(Lines(r, stream), Piece(r).line)
                                        ELSE Lines(r, stream)
        BY <1>1, <2>3, LinesGrow
  <2>6. Piece(r).stream \in {"stdout", "stderr"} /\ Piece(r).line \in LineSet
        BY <2>4, OutputTypes
  <2>7. Passed(r) = Lines(r, "stderr") /\ stdout[r] = Lines(r, "stdout")
        BY <1>1 DEF OutputInv, Own, Said
  <2>8. /\ stderr' \in Seq(Entries) /\ Passed(r)' = Lines(r, "stderr")'
        /\ stdout'[r] = Lines(r, "stdout")' /\ DOMAIN stdout' = Requests
        /\ \A s \in Requests \ {r} : stdout'[s] = stdout[s] /\ Passed(s)' = Passed(s)
    <3>1. CASE Piece(r).stream = "stdout"
      <4>1. stderr' = stderr /\ stdout' = [stdout EXCEPT ![r] = Append(@, Piece(r).line)]
            BY <2>1, <3>1
      <4>2. /\ Lines(r, "stdout")' = Append(Lines(r, "stdout"), Piece(r).line)
            /\ Lines(r, "stderr")' = Lines(r, "stderr")
            BY <2>5, <3>1
      <4>3. \A s \in Requests : Passed(s)' = Passed(s)
            BY <4>1 DEF Passed
      <4>4. /\ stdout'[r] = Append(stdout[r], Piece(r).line) /\ DOMAIN stdout' = Requests
            /\ \A s \in Requests \ {r} : stdout'[s] = stdout[s]
            BY <2>2, <4>1
      <4>. QED BY <2>2, <2>7, <4>1, <4>2, <4>3, <4>4
    <3>2. CASE Piece(r).stream = "stderr"
      <4>1. stdout' = stdout /\ stderr' = Append(stderr, [request |-> r, line |-> Piece(r).line])
            BY <2>1, <3>2
      <4>2. /\ Lines(r, "stderr")' = Append(Lines(r, "stderr"), Piece(r).line)
            /\ Lines(r, "stdout")' = Lines(r, "stdout")
            BY <2>5, <3>2
      <4>3. /\ stderr' \in Seq(Entries) /\ Passed(r)' = Append(Passed(r), Piece(r).line)
            /\ \A s \in Requests \ {r} : Passed(s)' = Passed(s)
            BY <2>2, <2>6, <4>1, PassedGrows
      <4>. QED BY <2>2, <2>7, <4>1, <4>2, <4>3
    <3>. QED BY <2>6, <3>1, <3>2
  <2>9. Said(r)'
        BY <1>1, <2>1, <2>8 DEF Said
  <2>10. \A s \in Requests \ {r} : Same(s) /\ Passed(s)' = Passed(s)
        BY <2>1, <2>3, <2>8 DEF Same
  <2>11. written'[r] \in 0..Len(output'[r]) /\ output'[r] \in Outputs
        BY <1>1, <2>3, <2>4
  <2>12. FunctionOf(r) \in Functions
        BY <1>1 DEF OutputInv, Own
  <2>13. DOMAIN written' = Requests
        BY <2>1, <2>2
  <2>. QED BY <1>1, <2>1, <2>2, <2>8, <2>9, <2>10, <2>11, <2>12, <2>13, WritingStep DEF InHandler
<1>. QED BY <1>2, <1>3
\* The logs are lines of the output.
LEMMA LogsAreLines ==
  ASSUME NEW L, NEW s \in Seq(L)
  PROVE  Logs(s) \in Seq(L)
<1>1. PICK m : Ending(s, m)
      BY EndingExists
<1>0. Logs(s) = IF m = 0 \/ SubSeq(s, 1, m - 1) = <<Blank>> THEN <<>> ELSE SubSeq(s, 1, m - 1)
      BY <1>1, ResponseAndLogs
<1>2. m \in 0..Len(s) /\ (Logs(s) = <<>> \/ (m # 0 /\ Logs(s) = SubSeq(s, 1, m - 1)))
      BY <1>0, <1>1 DEF Ending
<1>3. CASE Logs(s) = <<>>
      BY <1>3
<1>4. CASE m # 0 /\ Logs(s) = SubSeq(s, 1, m - 1)
  <2>1. m - 1 \in 0..Len(s) /\ \A i \in 1..m - 1 : s[i] \in L
        BY <1>2, <1>4
  <2>. QED BY <1>2, <1>4, <2>1
<1>. QED BY <1>2, <1>3, <1>4

\* The logs of a request go to stderr, one entry for each.
LEMMA LogsPassed ==
  ASSUME stderr \in Seq(Entries), NEW r \in Requests, NEW logs \in Seq(LineSet),
         stderr' = stderr \o [i \in DOMAIN logs |-> [request |-> r, line |-> logs[i]]]
  PROVE  /\ stderr' \in Seq(Entries) /\ Passed(r)' = Passed(r) \o logs
         /\ \A s \in Requests \ {r} : Passed(s)' = Passed(s)
<1> DEFINE entries == [i \in 1..Len(logs) |-> [request |-> r, line |-> logs[i]]]
           Own1 == {e \in Entries : e["request"] = r}
<1>1. /\ DOMAIN logs = 1..Len(logs) /\ Len(logs) \in Nat
      /\ \A i \in 1..Len(logs) : logs[i] \in LineSet
      OBVIOUS
<1>2. entries \in Seq(Own1) /\ Len(entries) = Len(logs)
  <2>1. \A i \in 1..Len(logs) : [request |-> r, line |-> logs[i]] \in Own1
        BY <1>1 DEF Entries
  <2> HIDE DEF Own1
  <2>. QED BY <1>1, <2>1
<1>3. \A i \in 1..Len(logs) : entries[i].line = logs[i]
      OBVIOUS
<1>4. stderr' = stderr \o entries
      BY <1>1
<1>5. entries \in Seq(Entries)
  <2>1. Own1 \subseteq Entries
        OBVIOUS
  <2> HIDE DEF Own1, entries
  <2>. QED BY <1>2, <2>1, SeqMonotonic
<1>6. (\A e \in Own1 : e["request"] = r) /\ \A s : s # r => \A e \in Own1 : e["request"] # s
      OBVIOUS
<1> HIDE DEF entries, Own1
<1>7. \A s : Passed(s)' = Passed(s) \o LinesOf(entries, "request", s)
  <2>1. ASSUME NEW s
        PROVE  LinesOf(stderr \o entries, "request", s) =
                 LinesOf(stderr, "request", s) \o LinesOf(entries, "request", s)
        BY <1>5, LinesOfConcat
  <2>. QED BY <1>4, <2>1 DEF Passed
<1>8. LinesOf(entries, "request", r) = logs
  <2>1. LinesOf(entries, "request", r) = [i \in 1..Len(entries) |-> entries[i].line]
        BY <1>2, <1>6, LinesOfAll
  <2>2. [i \in 1..Len(entries) |-> entries[i].line] = [i \in 1..Len(logs) |-> logs[i]]
        BY <1>2, <1>3
  <2>3. [i \in 1..Len(logs) |-> logs[i]] = logs
        BY <1>1
  <2>. QED BY <2>1, <2>2, <2>3
<1>9. ASSUME NEW s \in Requests \ {r}
      PROVE  Passed(s)' = Passed(s)
  <2>1. LinesOf(entries, "request", s) = <<>>
    <3>1. \A e \in Own1 : e["request"] # s
          BY <1>6
    <3>. QED BY <1>2, <3>1, LinesOfNone
  <2>2. Passed(s) \in Seq(LineSet)
    <3>1. \A e \in Entries : e["request"] = s => e.line \in LineSet
          BY DEF Entries
    <3>. QED BY <3>1, LinesOfType DEF Passed
  <2>. QED BY <1>7, <2>1, <2>2
<1>10. stderr' \in Seq(Entries)
      BY <1>4, <1>5, ConcatProperties
<1>. QED BY <1>7, <1>8, <1>9, <1>10

LEMMA ParseStep ==
  ASSUME OutputInv, NEW r \in Requests, Parse(r)
  PROVE  Common' /\ \A s \in Requests : Own(s)'
<1> DEFINE logs == Logs(stdout[r])
<1>1. pc[r] = "parse"
      BY DEF Parse
<1>2. /\ stdout[r] = Lines(r, "stdout") /\ (cut[r] \/ written[r] = Len(output[r]))
      /\ Passed(r) = Lines(r, "stderr")
      BY <1>1 DEF OutputInv, Own, Said
<1>3. stdout[r] \in Seq(LineSet)
      BY <1>2, OutputIsLines
<1>4. CASE Response(stdout[r]).kind = "undecodable" \/ (logs # <<>> /\ log = "closed")
  <2>1. AnswerWith(r, InternalError)
        BY <1>4 DEF Parse
  <2>2. reply'[r] = InternalError /\ log' = log /\ stdout' = stdout
        BY <2>1 DEF AnswerWith, Step, contextVars, OutputInv, ServiceInv, Shapes
  <2>3. log = "closed" \/ ~PlainEnd(stdout[r])
    <3>1. ASSUME PlainEnd(stdout[r])
          PROVE  Response(stdout[r]).kind = "json"
          BY <1>3, <3>1, PlainEndResponds DEF PlainEnd
    <3>. QED BY <1>4, <3>1
  <2>4. Told(r)'
        BY <2>2, <2>3, ErrorTold, MessagesAreNoLines, MessagesAreNoErrors
  <2>. QED BY <1>1, <2>1, <2>4, AnswerStep, MessagesAreNoErrors DEF InHandler
<1>5. CASE ~(Response(stdout[r]).kind = "undecodable" \/ (logs # <<>> /\ log = "closed"))
  <2>1. /\ pc' = [pc EXCEPT ![r] = "logs"]
        /\ UNCHANGED <<contextVars, interrupts, request, output, written, stdout, cut, unclean, reply>>
        /\ stderr' = stderr \o [i \in DOMAIN logs |-> [request |-> r, line |-> logs[i]]]
        BY <1>5 DEF Parse, Step
  <2>2. /\ DOMAIN written = Requests /\ DOMAIN stdout = Requests /\ stderr \in Seq(Entries)
        /\ pc'[r] = "logs"
        BY <2>1 DEF OutputInv, Common, ServiceInv, Shapes
  <2>3. logs \in Seq(LineSet)
        BY <1>3, LogsAreLines
  <2> HIDE DEF logs
  <2>4. /\ stderr' \in Seq(Entries) /\ Passed(r)' = Passed(r) \o logs
        /\ \A s \in Requests \ {r} : Passed(s)' = Passed(s)
        BY <2>1, <2>2, <2>3, LogsPassed
  <2>5. \A stream : Lines(r, stream)' = Lines(r, stream)
        BY <2>1 DEF Lines
  <2>6. Said(r)'
        BY <1>2, <2>1, <2>2, <2>4, <2>5 DEF Said, logs
  <2>7. \A s \in Requests \ {r} : Same(s) /\ Passed(s)' = Passed(s)
        BY <2>1, <2>4 DEF Same
  <2>8. output'[r] \in Outputs /\ written'[r] \in 0..Len(output'[r])
        BY <1>1, <2>1 DEF OutputInv, Own, ServiceInv, RunsOnce
  <2>9. stdout'[r] = Lines(r, "stdout")' /\ (cut[r] \/ written'[r] = Len(output'[r]))
        BY <1>2, <2>1, <2>5
  <2>10. DOMAIN written' = Requests /\ DOMAIN stdout' = Requests
        BY <2>1, <2>2
  <2>. QED BY <1>1, <2>1, <2>4, <2>6, <2>7, <2>8, <2>9, <2>10, WritingStep DEF InHandler
<1>. QED BY <1>4, <1>5

-----------------------------------------------------------------------------
(* The invariant of the output *)

LEMMA OutputInit == Init => OutputInv
<1> SUFFICES ASSUME Init PROVE OutputInv
    OBVIOUS
<1>1. ServiceInv
      BY ServiceInit
<1>2. Common
      BY ServiceAssumption DEF Init, ContextInit, Common
<1>3. ASSUME NEW r \in Requests
      PROVE  Own(r)
  <2>1. /\ pc[r] = "none" /\ output[r] = NotRun /\ written[r] = 0 /\ stdout[r] = <<>>
        /\ cut[r] = FALSE /\ unclean[r] = FALSE /\ reply[r] = NoReply /\ stderr = <<>>
        /\ request[r] = CHOOSE i \in Inputs[options.command] : TRUE
        BY DEF Init
  <2>2. request[r] \in Inputs[options.command]
    <3>1. Inputs[options.command] # {}
          BY ServiceAssumption DEF Init
    <3>. QED BY <2>1, <3>1
  <2>3. SubSeq(output[r], 1, written[r]) = <<>>
        BY <2>1 DEF NotRun
  <2>4. \A stream : Lines(r, stream) = <<>>
        BY <2>3, LinesOfNothing DEF Lines
  <2>5. Passed(r) = <<>>
        BY <2>1, LinesOfNothing DEF Passed
  <2>6. Said(r) /\ Told(r)
        BY <2>1, <2>4, <2>5 DEF Said, Told, Replied
  <2>7. reply[r].error \in BOOLEAN
        BY <2>1 DEF NoReply, Reply
  <2>8. written[r] \in 0..Len(output[r])
        BY <2>1 DEF NotRun
  <2>. QED BY <2>1, <2>2, <2>4, <2>6, <2>7, <2>8 DEF Own
<1>. QED BY <1>1, <1>2, <1>3 DEF OutputInv

LEMMA OneInterruptLess ==
  ASSUME NEW n \in 0..MaxInterrupts, n > 0
  PROVE  n - 1 \in 0..MaxInterrupts
<1>1. MaxInterrupts \in Nat
      BY ServiceAssumption
<1>. QED BY <1>1

\* The command goes its way, or Ctrl+C ends it.
LEMMA CommandsStep ==
  ASSUME OutputInv, Command \/ CtrlC \/ CtrlCInHandler \/ ProcessEnds
  PROVE  Common' /\ \A r \in Requests : Own(r)'
<1>1. /\ log \in {"none", "open", "closed"} /\ (log = "closed" => main = "ended")
      /\ verdict \in {"none", "done", "user error", "traceback"}
      /\ interrupts \in 0..MaxInterrupts
      BY DEF OutputInv, Common
<1>2. CASE Command
  <2>1. /\ UNCHANGED <<interrupts, pc, request, output, written, stdout, stderr, cut, unclean, reply>>
        /\ ContextStep
        BY <1>2 DEF Command, requestVars
  <2>2. /\ main \notin {"serving", "ended"} /\ options' = options
        /\ log' \in {"none", "open", "closed"} /\ (log' = "closed" => main' = "ended")
        /\ verdict' \in {"none", "done", "user error", "traceback"}
        BY <1>1, <2>1
           DEF ContextStep, GetEvent, Enter, GetTemplate, GetEnvVars, SetupLogFile,
               GetDebugContext, CheckDocker, NameFunction, RunFunction, StartService, Refuse, Go, Leave
  <2>3. log # "closed"
        BY <1>1, <2>2
  <2>. QED BY <1>1, <2>1, <2>2, <2>3, CommandStep
<1>3. CASE CtrlC
  <2>1. /\ UNCHANGED <<pc, request, output, written, stdout, stderr, cut, unclean, reply>>
        /\ interrupts' = interrupts - 1 /\ interrupts > 0 /\ StopServing
        BY <1>3 DEF CtrlC, requestVars
  <2>2. interrupts' \in 0..MaxInterrupts
        BY <1>1, <2>1, OneInterruptLess
  <2>3. /\ main = "serving" /\ main' = "ended" /\ options' = options /\ verdict' = "done"
        /\ log' = IF log = "open" THEN "closed" ELSE log
        BY <2>1 DEF StopServing, Leave
  <2>. QED BY <1>1, <2>1, <2>2, <2>3, CommandStep
<1>4. CASE CtrlCInHandler
  <2>1. interrupts' \in 0..MaxInterrupts
        BY <1>1, <1>4, OneInterruptLess DEF CtrlCInHandler
  <2>2. PICK r \in Open :
          \/ /\ pc[r] = "running" /\ pc' = [pc EXCEPT ![r] = "cleanup"]
             /\ cut' = [cut EXCEPT ![r] = TRUE]
             /\ UNCHANGED <<contextVars, request, output, written, stdout, stderr, unclean, reply>>
          \/ /\ StopServing /\ Drop({r})
             /\ UNCHANGED <<request, output, written, stdout, stderr, cut, unclean, reply>>
        BY <1>4 DEF CtrlCInHandler
  <2>3. r \in Requests /\ pc[r] \in InHandler
        BY DEF Open
  <2>4. CASE /\ pc[r] = "running" /\ pc' = [pc EXCEPT ![r] = "cleanup"]
             /\ cut' = [cut EXCEPT ![r] = TRUE]
             /\ UNCHANGED <<contextVars, request, output, written, stdout, stderr, unclean, reply>>
        BY <2>1, <2>3, <2>4, FunctionEndsStep
  <2>5. CASE /\ StopServing /\ Drop({r})
             /\ UNCHANGED <<request, output, written, stdout, stderr, cut, unclean, reply>>
    <3>1. /\ main = "serving" /\ main' = "ended" /\ options' = options /\ verdict' = "done"
          /\ log' = IF log = "open" THEN "closed" ELSE log
          BY <2>5 DEF StopServing, Leave
    <3>2. \A s \in Requests : pc'[s] = pc[s] \/ (pc[s] \in InHandler /\ pc'[s] = "dropped")
          BY <2>3, <2>5 DEF Drop
    <3>. QED BY <1>1, <2>1, <2>5, <3>1, <3>2, CommandStep
  <2>. QED BY <2>2, <2>4, <2>5
<1>5. CASE ProcessEnds
  <2>1. \A s \in Requests : pc'[s] = pc[s] \/ (pc[s] \in InHandler /\ pc'[s] = "dropped")
        BY <1>5 DEF ProcessEnds, Drop, Open
  <2>2. UNCHANGED <<options, main, log, verdict, interrupts, request, output, written, stdout,
                    stderr, cut, unclean, reply>>
        BY <1>5 DEF ProcessEnds, contextVars
  <2>. QED BY <1>1, <2>1, <2>2, CommandStep
<1>. QED BY <1>2, <1>3, <1>4, <1>5

LEMMA OutputStep == OutputInv /\ [Next]_vars => OutputInv'
<1> SUFFICES ASSUME OutputInv, [Next]_vars PROVE Common' /\ \A r \in Requests : Own(r)'
    BY ServiceStep DEF OutputInv
<1>1. CASE Command \/ CtrlC \/ CtrlCInHandler \/ ProcessEnds
      BY <1>1, CommandsStep
<1>2. ASSUME NEW r \in Requests, Receive(r) \/ Handler(r) \/ Function(r) \/ TimerFires(r)
      PROVE  Common' /\ \A s \in Requests : Own(s)'
  <2>0. interrupts \in 0..MaxInterrupts
        BY DEF OutputInv, Common
  <2>1. CASE Receive(r)
        BY <2>1, ReceiveStep
  <2>2. CASE HandleApi(r) \/ HandleInvoke(r)
        BY <2>2, HandleStep
  <2>3. CASE Run(r)
        BY <2>3, RunStep
  <2>4. CASE Parse(r)
        BY <2>4, ParseStep
  <2>5. CASE MakeReply(r)
        BY <2>5, MakeReplyStep
  <2>6. CASE Answer(r)
        BY <2>6, AnsweredStep
  <2>7. CASE Emit(r)
        BY <2>7, EmitStep
  <2>8. CASE FunctionEnds(r)
        BY <2>0, <2>8, FunctionEndsStep DEF FunctionEnds, Step
  <2>9. CASE RuntimeFails(r) \/ CleanUpFails(r)
        BY <2>9, RuntimeFailsStep
  <2>11. CASE CleanUp(r)
    <3>1. cut[r] \/ written[r] = Len(output[r])
          BY <2>11 DEF CleanUp, OutputInv, Own
    <3>. QED BY <2>0, <2>11, <3>1, FunctionEndsStep DEF CleanUp, Step
  <2>10. CASE TimerFires(r)
        BY <2>0, <2>10, FunctionEndsStep DEF TimerFires, Step
  <2>. QED BY <1>2, <2>1, <2>2, <2>3, <2>4, <2>5, <2>6, <2>7, <2>8, <2>9, <2>10, <2>11
           DEF Handler, Function
<1>3. CASE UNCHANGED vars
  <2>1. UNCHANGED <<options, main, log, verdict, interrupts, pc, request, output, written, stdout,
                    stderr, cut, unclean, reply>>
        BY <1>3 DEF vars, contextVars, requestVars
  <2>2. /\ log \in {"none", "open", "closed"} /\ (log = "closed" => main = "ended")
        /\ verdict \in {"none", "done", "user error", "traceback"}
        /\ interrupts \in 0..MaxInterrupts
        BY DEF OutputInv, Common
  <2>. QED BY <2>1, <2>2, CommandStep
<1>. QED BY <1>1, <1>2, <1>3 DEF Next

LEMMA OutputInvariant == Spec => []OutputInv
BY OutputInit, OutputStep, PTL DEF Spec
-----------------------------------------------------------------------------
(* The theorems *)

\* A sequence before another is a prefix of both in a row, and the other the rest.
LEMMA PrefixAndRest ==
  ASSUME NEW L, NEW s \in Seq(L), NEW t \in Seq(L)
  PROVE  /\ IsPrefix(s, s \o t)
         /\ SubSeq(s \o t, Len(s) + 1, Len(s \o t)) = t
<1>1. /\ s \o t \in Seq(L) /\ Len(s \o t) = Len(s) + Len(t)
      /\ Len(s) \in Nat /\ Len(t) \in Nat
      BY ConcatProperties
<1>2. SubSeq(s, 1, Len(s)) = SubSeq(s \o t, 1, Len(s))
  <2>1. CASE Len(s) = 0
        BY <2>1, SubSeqEmpty
  <2>2. CASE Len(s) # 0
    <3>1. 1 \in 1..Len(s) /\ Len(s) \in 1..Len(s)
          BY <1>1, <2>2
    <3>. QED BY <3>1, SubSeqOfConcat1
  <2>. QED BY <2>1, <2>2
<1>3. SubSeq(s \o t, Len(s) + 1, Len(s \o t)) = t
  <2>1. CASE Len(t) = 0
    <3>1. t = <<>> /\ Len(s) + 1 \in Int /\ Len(s) + Len(t) \in Int /\ Len(s) + Len(t) < Len(s) + 1
          BY <1>1, <2>1, EmptySeq
    <3>. QED BY <1>1, <3>1, SubSeqEmpty
  <2>2. CASE Len(t) # 0
    <3>1. /\ Len(s) + 1 \in Len(s) + 1..Len(s) + Len(t)
          /\ Len(s) + Len(t) \in Len(s) + 1..Len(s) + Len(t)
          /\ Len(s) + 1 - Len(s) = 1 /\ Len(s) + Len(t) - Len(s) = Len(t)
          BY <1>1, <2>2
    <3>2. SubSeq(s \o t, Len(s) + 1, Len(s) + Len(t)) = SubSeq(t, 1, Len(t))
          BY <3>1, SubSeqOfConcat2
    <3>. QED BY <1>1, <3>2, SubSeqFull
  <2>. QED BY <2>1, <2>2
<1>. QED BY <1>1, <1>2, <1>3 DEF IsPrefix

\* Output is logs, a response, and blank lines.
LEMMA OutputInParts ==
  ASSUME NEW L, NEW s \in Seq(L), NEW m, Ending(s, m), m # 0
  PROVE  s = SubSeq(s, 1, m - 1) \o <<s[m]>> \o [i \in 1..Len(s) - m |-> Blank]
<1>1. /\ Len(s) \in Nat /\ m \in 1..Len(s) /\ m \in Nat /\ m - 1 \in Nat
      /\ \A i \in m + 1..Len(s) : s[i] = Blank
  <2>1. m \in 0..Len(s) /\ \A i \in m + 1..Len(s) : s[i] = Blank
        BY DEF Ending
  <2>. QED BY <2>1
<1>2. SubSeq(s, 1, m) = SubSeq(s, 1, m - 1) \o <<s[m]>>
  <2>1. 1 \in 1..Len(s) /\ m \in 1..Len(s)
        BY <1>1
  <2>. QED BY <2>1, SubSeqRecursiveSecond
<1>3. s = SubSeq(s, 1, m) \o SubSeq(s, m + 1, Len(s))
  <2>1. 1 \in 1..Len(s) + 1 /\ m \in 1 - 1..Len(s) /\ Len(s) \in m..Len(s)
        BY <1>1
  <2>2. SubSeq(s, 1, m) \o SubSeq(s, m + 1, Len(s)) = SubSeq(s, 1, Len(s))
        BY <2>1, ConcatAdjacentSubSeq
  <2>. QED BY <2>2, SubSeqFull
<1>4. SubSeq(s, m + 1, Len(s)) = [i \in 1..Len(s) - m |-> Blank]
  <2> DEFINE rest == SubSeq(s, m + 1, Len(s))
             blanks == [i \in 1..Len(s) - m |-> Blank]
             B == {Blank}
  <2>1. /\ rest \in Seq(B) /\ Len(rest) = (IF m + 1 <= Len(s) THEN Len(s) - (m + 1) + 1 ELSE 0)
    <3>1. m + 1 \in Int /\ Len(s) \in Int /\ \A i \in m + 1..Len(s) : s[i] \in B
          BY <1>1
    <3> HIDE DEF B
    <3>. QED BY <3>1, SubSeqProperties
  <2>2. Len(rest) = Len(s) - m /\ Len(s) - m \in Nat
    <3> HIDE DEF rest
    <3>. QED BY <1>1, <2>1
  <2>3. blanks \in Seq(B) /\ Len(blanks) = Len(s) - m
        BY <2>2
  <2> HIDE DEF rest, blanks, B
  <2>4. \A i \in 1..Len(rest) : rest[i] = Blank /\ blanks[i] = Blank
    <3>1. \A i \in 1..Len(rest) : rest[i] \in B /\ blanks[i] \in B
          BY <2>1, <2>2, <2>3
    <3>. QED BY <3>1 DEF B
  <2>5. rest = blanks
        BY <2>1, <2>2, <2>3, <2>4, SeqEqual
  <2>. QED BY <2>5 DEF rest, blanks
<1>. QED BY <1>2, <1>3, <1>4

\* The types of the services' state: in particular no handler holds more lines
\* than its function has written, and a function runs only for a request to a
\* function that there is.
THEOREM ServiceTypes == Spec => []TypeOK
<1>1. OutputInv => TypeOK
  <2> SUFFICES ASSUME OutputInv PROVE TypeOK
      OBVIOUS
  <2>1. /\ main \in Places /\ pc \in [Requests -> InHandler \cup {"none", "answered", "dropped"}]
        BY DEF OutputInv, ServiceInv, Shapes
  <2>2. /\ log \in {"none", "open", "closed"} /\ verdict \in {"none", "done", "user error", "traceback"}
        /\ interrupts \in 0..MaxInterrupts
        BY DEF OutputInv, Common
  <2>3. ASSUME NEW r \in Requests
        PROVE  /\ request[r] \in Inputs[options.command]
               /\ output[r] \in Outputs \cup {NotRun} /\ written[r] \in 0..Len(output[r])
               /\ pc[r] = "running" => main \in {"serving", "ended"} /\ FunctionOf(r) \in Functions
               /\ Len(stdout[r]) <= written[r]
               /\ cut[r] \in BOOLEAN /\ unclean[r] \in BOOLEAN /\ reply[r].error \in BOOLEAN
    <3>1. Own(r)
          BY DEF OutputInv
    <3>2. Len(stdout[r]) <= written[r]
          BY <3>1, OutputIsLines DEF Own
    <3>. QED BY <3>1, <3>2 DEF Own
  <2>. QED BY <2>1, <2>2, <2>3 DEF TypeOK, Places
<1>. QED BY <1>1, OutputInvariant, PTL

\* The answer to a request is made of the output of its own function, of all of
\* it, with the logs passed on before: whatever requests are served beside it,
\* and whatever their functions write (LambdaOutputParser and the handlers).
THEOREM AnswersAreWhole == Spec => []WholeOutput
<1>1. OutputInv => WholeOutput
  <2> SUFFICES ASSUME OutputInv, NEW r \in Requests, Replied(r), FromFunction(r)
               PROVE  LET out == Lines(r, "stdout")
                          err == Lines(r, "stderr")
                          logs == SubSeq(Passed(r), Len(err) + 1, Len(Passed(r)))
                      IN  /\ ~cut[r] => written[r] = Len(output[r])
                          /\ IsPrefix(err, Passed(r))
                          /\ \/ logs = <<>> /\ reply[r].body = Blank /\ ToSet(out) \subseteq {Blank}
                             \/ \E n \in 0..Len(out), first \in {logs, <<Blank>>} :
                                  /\ first = logs \/ logs = <<>>
                                  /\ out = first \o <<reply[r].body>> \o [i \in 1..n |-> Blank]
      BY DEF WholeOutput
  <2> DEFINE out == Lines(r, "stdout")
             err == Lines(r, "stderr")
             logs == SubSeq(Passed(r), Len(err) + 1, Len(Passed(r)))
  <2>1. Own(r) /\ Told(r) /\ stdout[r] = out
        BY DEF OutputInv, Own
  <2>2. /\ reply[r].body = Response(out) /\ Passed(r) = err \o Logs(out)
        /\ cut[r] \/ written[r] = Len(output[r])
        BY <2>1 DEF Told
  <2>3. out \in Seq(LineSet) /\ err \in Seq(LineSet) /\ Logs(out) \in Seq(LineSet)
        BY OutputIsLines, LogsAreLines
  <2>4. IsPrefix(err, Passed(r)) /\ logs = Logs(out)
    <3> DEFINE said == Logs(out)
    <3> HIDE DEF out, err, said
    <3>1. IsPrefix(err, err \o said) /\ SubSeq(err \o said, Len(err) + 1, Len(err \o said)) = said
          BY <2>3, PrefixAndRest DEF said
    <3>. QED BY <2>2, <3>1 DEF said
  <2>5. PICK m : Ending(out, m)
    <3> HIDE DEF out
    <3>. QED BY <2>3, EndingExists
  <2>6. /\ Response(out) = IF m = 0 THEN Blank ELSE out[m]
        /\ Logs(out) = IF m = 0 \/ SubSeq(out, 1, m - 1) = <<Blank>> THEN <<>>
                       ELSE SubSeq(out, 1, m - 1)
    <3> HIDE DEF out
    <3>. QED BY <2>3, <2>5, ResponseAndLogs
  <2> HIDE DEF out, err, logs
  <2>7. CASE m = 0
    <3>1. \A i \in 1..Len(out) : out[i] = Blank
          BY <2>3, <2>5, <2>7 DEF Ending
    <3>2. ToSet(out) \subseteq {Blank}
          BY <2>3, <3>1 DEF ToSet
    <3>3. logs = <<>> /\ reply[r].body = Blank
          BY <2>2, <2>4, <2>6, <2>7
    <3>. QED BY <2>2, <2>4, <3>2, <3>3 DEF out, err, logs
  <2>8. CASE m # 0
    <3>1. out = SubSeq(out, 1, m - 1) \o <<out[m]>> \o [i \in 1..Len(out) - m |-> Blank]
          BY <2>3, <2>5, <2>8, OutputInParts
    <3>2. \E first \in {logs, <<Blank>>} :
            /\ first = logs \/ logs = <<>>
            /\ out = first \o <<reply[r].body>> \o [i \in 1..Len(out) - m |-> Blank]
          BY <2>2, <2>4, <2>6, <2>8, <3>1
    <3>3. Len(out) - m \in 0..Len(out)
      <4>1. m \in 0..Len(out) /\ Len(out) \in Nat
            BY <2>3, <2>5 DEF Ending
      <4>. QED BY <4>1
    <3>4. \E n \in 0..Len(out), first \in {logs, <<Blank>>} :
            /\ first = logs \/ logs = <<>>
            /\ out = first \o <<reply[r].body>> \o [i \in 1..n |-> Blank]
          BY <3>2, <3>3
    <3>. QED BY <2>2, <2>4, <3>4 DEF out, err, logs
  <2>. QED BY <2>7, <2>8
<1>. QED BY <1>1, OutputInvariant, PTL

\* What a status says of a request is so: nothing ran for one that is refused,
\* and a function that ended by itself with a plain response is not answered for
\* with an error, unless Ctrl+C closed the log under it or the clean-up after it
\* failed.
THEOREM StatusesAreTrue == Spec => []StatusTellsCause
<1>1. OutputInv => StatusTellsCause
  <2> SUFFICES ASSUME OutputInv, NEW r \in Requests, Replied(r), ~FromFunction(r)
               PROVE  LET out == Lines(r, "stdout") IN
                      /\ reply[r].status \in Refused => output[r] = NotRun
                      /\ ~cut[r] /\ ~unclean[r] /\ written[r] = Len(output[r]) /\ out # <<>> /\ log # "closed" =>
                           ~(Last(out).kind = "json" /\ Last(out).status >= 0
                               /\ (Last(out).encoded => Last(out).body = "base64"))
      BY DEF StatusTellsCause, Refused
  <2>1. Own(r) /\ Told(r) /\ stdout[r] = Lines(r, "stdout")
        BY DEF OutputInv, Own
  <2>2. /\ reply[r].status \in Refused => output[r] = NotRun
        /\ \/ output[r] = NotRun \/ cut[r] \/ unclean[r] \/ log = "closed"
           \/ ~PlainEnd(Lines(r, "stdout"))
        BY <2>1 DEF Told
  <2>3. written[r] = Len(output[r]) => output[r] # NotRun
    <3>1. output[r] = NotRun => written[r] = 0
          BY <2>1 DEF Own
    <3>2. Len(NotRun) = 1
          BY DEF NotRun
    <3>3. ASSUME written[r] = Len(output[r]), output[r] = NotRun
          PROVE  FALSE
      <4>1. written[r] = 0 /\ written[r] = 1
            BY <3>1, <3>2, <3>3
      <4>. QED BY <4>1
    <3>. QED BY <3>3
  <2>. QED BY <2>2, <2>3 DEF PlainEnd
<1>. QED BY <1>1, OutputInvariant, PTL
=============================================================================
