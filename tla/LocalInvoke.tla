----------------------------- MODULE LocalInvoke -----------------------------
(***************************************************************************)
(* `bsam local`: CfcRuntime.invoke, the Container it drives through the    *)
(* ContainerManager, the timer thread or SIGTERM handler that may delete   *)
(* the container meanwhile, and the Docker daemon they talk to.            *)
(*                                                                         *)
(* Every invocation has two actors, the thread that runs invoke ("main")   *)
(* and the one that interrupts it ("killer"); both call Container.delete.  *)
(* A step is the work between two points where the other actor, the        *)
(* daemon, Ctrl+C or a signal can get in.                                  *)
(***************************************************************************)
EXTENDS Naturals, FiniteSets

CONSTANTS
  Invocations,    \* calls of CfcRuntime.invoke made by one process
  MainThread,     \* those made on the process's main thread, one after another
  Modes,          \* what the process may be: invoking, debugging or installing
  SkipPull,       \* ContainerManager.skip_pull_image
  Network,        \* ContainerManager.docker_network_id is given
  Faults,         \* which requests to the daemon or the disk may fail
  MaxInterrupts,  \* bound on Ctrl+C and SIGTERM together
  NoInvocation    \* the value of handler before one is registered

FaultKinds ==
  {"disk", "event", "daemon", "createLost", "start", "stream", "inspect",
   "remove"}

\* Debugging and installing register a signal handler, which Python allows on
\* the main thread only: base_local_service.py serves such requests one by one.
ASSUME ConstantAssumption ==
  /\ MainThread \subseteq Invocations
  /\ Modes \subseteq {"run", "debug", "install"}
  /\ Modes \subseteq {"run"} \/ MainThread = Invocations
  /\ SkipPull \in BOOLEAN /\ Network \in BOOLEAN
  /\ Faults \subseteq FaultKinds
  /\ MaxInterrupts \in Nat
  /\ NoInvocation \notin Invocations

Actors == {"main", "killer"}

VARIABLES
  mode,        \* what this process is for, fixed when it starts
  pc,          \* where the thread in CfcRuntime.invoke is
  exc,         \* the exception that is leaving, or left, invoke
  code,        \* the temporary copy of a jar: _get_code_dir
  event,       \* the temporary event file
  id,          \* is Container.id set?
  known,       \* history: Container.id has been set at some time
  box,         \* the container as the daemon sees it
  timer,       \* the threading.Timer of the call
  del,         \* where each actor is in Container.delete
  image,       \* is the runtime's image in the local store?
  handler,     \* the invocation the SIGTERM handler is bound to
  alive,       \* the process runs
  interrupts   \* Ctrl+C and SIGTERM so far

files == <<code, event>>
docker == <<id, known, box, image>>
threads == <<timer, del>>
world == <<mode, handler, alive, interrupts>>
vars == <<pc, exc, files, docker, threads, world>>

-----------------------------------------------------------------------------
(* The program text, by the exception handling around it.                  *)

BeforeTry  == {"codedir", "event", "new"}
StartSteps == {"image", "pull", "create", "assign", "network", "start",
               "configure", "assignTimer"}
LogSteps   == {"wait", "inspect", "attach", "read"}
Finally    == {"cancel", "unlink", "stop"}
Ended      == {"returned", "raised"}
Running    == BeforeTry \cup StartSteps \cup LogSteps \cup Finally \cup {"leave"}

Live    == {"created", "running", "exited"}
Present == Live \cup {"removing"}
InDelete == {"check", "get", "remove", "removing", "clear"}

Exceptions ==
  {"TypeError", "ValueError", "OSError", "RuntimeError", "NotFound",
   "NullResource", "APIError", "ImageNotFound", "DockerImageNotFound",
   "KeyboardInterrupt"}

(* The SIGTERM handler runs on the main thread: no main-thread code runs   *)
(* until it is through.                                                    *)
InHandler(i) == mode # "run" /\ del[i]["killer"] \in InDelete

MayStep(i) == /\ alive
              /\ i \in MainThread => \A j \in Invocations : ~InHandler(j)

At(i, here) == MayStep(i) /\ pc[i] = here
Goto(i, there) == pc' = [pc EXCEPT ![i] = there]
DelGoto(i, a, there) == del' = [del EXCEPT ![i][a] = there]

(* `timer` is None in invoke until _configure_interrupt has returned one.  *)
FirstCleanup(i) ==
  IF pc[i] \in LogSteps /\ mode = "run" THEN "cancel" ELSE "unlink"

\* Mutants of Throw: the try block begins only after ContainerManager.run ...
ThrowStartOutsideTry(i, e) ==
  /\ Goto(i, IF pc[i] \in LogSteps THEN FirstCleanup(i)
             ELSE IF pc[i] = "leave" THEN "raised" ELSE "leave")
  /\ exc' = [exc EXCEPT ![i] =
               IF pc[i] \in LogSteps /\ e = "KeyboardInterrupt" THEN "none" ELSE e]

\* ... and Ctrl+C is swallowed around the finally block too.
ThrowSwallowsInFinally(i, e) ==
  /\ Goto(i, IF pc[i] \in StartSteps \cup LogSteps THEN FirstCleanup(i)
             ELSE IF pc[i] = "leave" THEN "raised" ELSE "leave")
  /\ exc' = [exc EXCEPT ![i] = IF e = "KeyboardInterrupt" THEN "none" ELSE e]

(* Exception e surfaces where invocation i is. Inside the try it goes to   *)
(* the finally block, which KeyboardInterrupt does not get past; an        *)
(* exception of the finally block replaces it and skips the rest of it.    *)
Throw(i, e) ==
  \/ /\ pc[i] \in StartSteps \cup LogSteps
     /\ Goto(i, FirstCleanup(i))
     /\ exc' = [exc EXCEPT ![i] = IF e = "KeyboardInterrupt" THEN "none" ELSE e]
  \/ /\ pc[i] \in BeforeTry \cup Finally
     /\ Goto(i, "leave")
     /\ exc' = [exc EXCEPT ![i] = e]
  \/ /\ pc[i] = "leave"
     /\ Goto(i, "raised")
     /\ exc' = [exc EXCEPT ![i] = e]

Fails(i, fault, e) == fault \in Faults /\ Throw(i, e)

-----------------------------------------------------------------------------
TypeOK ==
  /\ mode \in Modes
  /\ pc \in [Invocations -> {"idle"} \cup Running \cup Ended]
  /\ exc \in [Invocations -> Exceptions \cup {"none"}]
  /\ code \in [Invocations -> {"none", "copied", "leaked", "removed"}]
  /\ event \in [Invocations -> {"none", "file", "unlinked", "lost"}]
  /\ id \in [Invocations -> BOOLEAN] /\ known \in [Invocations -> BOOLEAN]
  /\ box \in [Invocations -> Present \cup {"none", "gone"}]
  /\ timer \in [Invocations -> {"off", "armed", "cancelled", "fired"}]
  /\ del \in [Invocations -> [Actors -> InDelete \cup {"idle", "ok", "failed"}]]
  /\ image \in BOOLEAN /\ alive \in BOOLEAN
  /\ handler \in Invocations \cup {NoInvocation}
  /\ interrupts \in 0..MaxInterrupts

Init ==
  /\ mode \in Modes
  /\ pc = [i \in Invocations |-> "idle"]
  /\ exc = [i \in Invocations |-> "none"]
  /\ code = [i \in Invocations |-> "none"]
  /\ event = [i \in Invocations |-> "none"]
  /\ id = [i \in Invocations |-> FALSE] /\ known = id
  /\ box = [i \in Invocations |-> "none"]
  /\ timer = [i \in Invocations |-> "off"]
  /\ del = [i \in Invocations |-> [a \in Actors |-> "idle"]]
  /\ image \in BOOLEAN
  /\ handler = NoInvocation
  /\ alive = TRUE
  /\ interrupts = 0

-----------------------------------------------------------------------------
(* Before the try block.                                                   *)

Invoke(i) ==
  /\ At(i, "idle")
  /\ i \in MainThread => \A j \in MainThread : pc[j] \notin Running
  /\ Goto(i, "codedir")
  /\ UNCHANGED <<exc, world, files, docker, threads>>

\* A jar is copied to a temporary directory; when the copy fails, `tmp_dir` is
\* not yet assigned and the generator's own finally removes nothing.
GetCodeDir(i) ==
  /\ At(i, "codedir")
  /\ \/ Goto(i, "event") /\ UNCHANGED <<exc, code>>
     \/ /\ mode # "install"
        /\ code' = [code EXCEPT ![i] = "copied"]
        /\ Goto(i, "event") /\ UNCHANGED exc
     \/ /\ mode # "install"
        /\ code' = [code EXCEPT ![i] = "leaked"]
        /\ Fails(i, "disk", "OSError")
  /\ UNCHANGED <<event, world, docker, threads>>

\* `local install` passes no event, and writing None is a TypeError.
CreateTmpEventFile(i) ==
  /\ At(i, "event")
  /\ event' = [event EXCEPT ![i] = "file"]
  /\ \/ mode = "install" /\ Throw(i, "TypeError")
     \/ mode # "install" /\ Goto(i, "new") /\ UNCHANGED exc
     \/ Fails(i, "disk", "OSError")
  /\ UNCHANGED <<code, world, docker, threads>>

NewContainer(i) ==
  /\ At(i, "new")
  /\ \/ Goto(i, "image") /\ UNCHANGED exc
     \/ Throw(i, "ValueError")                 \* Unsupported CFC runtime
  /\ UNCHANGED <<world, files, docker, threads>>

-----------------------------------------------------------------------------
(* ContainerManager.run.                                                   *)

HasImage(i) ==
  /\ At(i, "image")
  /\ \/ /\ Goto(i, IF image /\ SkipPull THEN "create" ELSE "pull")
        /\ UNCHANGED exc
     \/ Fails(i, "daemon", "APIError")
  /\ UNCHANGED <<world, files, docker, threads>>

\* The progress lines of a pull are drained unread: one that ends in an error
\* line looks like one that succeeded.
PullImage(i) ==
  /\ At(i, "pull")
  /\ \/ Goto(i, "create") /\ image' = TRUE /\ UNCHANGED exc
     \/ /\ "daemon" \in Faults
        /\ \/ Goto(i, "create") /\ UNCHANGED exc
           \/ \E e \in {"DockerImageNotFound", "APIError"} : Throw(i, e)
        /\ UNCHANGED image
  /\ UNCHANGED <<id, known, box, world, files, threads>>

Create(i) ==
  /\ At(i, "create")
  /\ \/ /\ image
        /\ box' = [box EXCEPT ![i] = "created"]
        /\ Goto(i, "assign") /\ UNCHANGED exc
     \/ /\ \/ ~image /\ Throw(i, "ImageNotFound")
           \/ Fails(i, "daemon", "APIError")
        /\ UNCHANGED box
  /\ UNCHANGED <<id, known, image, world, files, threads>>

\* The daemon's answer reaches Container.create, or is lost on the way.
AssignId(i) ==
  /\ At(i, "assign")
  /\ \/ /\ id' = [id EXCEPT ![i] = TRUE]
        /\ known' = [known EXCEPT ![i] = TRUE]
        /\ Goto(i, IF Network THEN "network" ELSE "start")
        /\ UNCHANGED exc
     \/ Fails(i, "createLost", "APIError") /\ UNCHANGED <<id, known>>
  /\ UNCHANGED <<box, image, world, files, threads>>

ConnectNetwork(i) ==
  /\ At(i, "network")
  /\ \/ Goto(i, "start") /\ UNCHANGED exc
     \/ \E e \in {"NotFound", "APIError"} : Fails(i, "daemon", e)
  /\ UNCHANGED <<world, files, docker, threads>>

Start(i) ==
  /\ At(i, "start")
  /\ \/ /\ box' = [box EXCEPT ![i] = "running"]
        /\ Goto(i, "configure") /\ UNCHANGED exc
     \/ Fails(i, "start", "APIError") /\ UNCHANGED box
  /\ UNCHANGED <<id, known, image, world, files, threads>>

-----------------------------------------------------------------------------
(* _configure_interrupt, wait_for_logs.                                    *)

\* Mutant: the timer is created and never started.
ConfigureInterruptUnarmed(i) ==
  /\ At(i, "configure")
  /\ Goto(i, IF mode = "run" THEN "assignTimer" ELSE "wait")
  /\ UNCHANGED <<exc, world, files, docker, threads>>

ConfigureInterrupt(i) ==
  /\ At(i, "configure")
  /\ \/ /\ mode = "run"
        /\ timer' = [timer EXCEPT ![i] = "armed"]
        /\ Goto(i, "assignTimer") /\ UNCHANGED handler
     \/ /\ mode # "run"
        /\ handler' = i
        /\ Goto(i, "wait") /\ UNCHANGED timer
  /\ UNCHANGED <<mode, exc, del, alive, interrupts, files, docker>>

AssignTimer(i) ==
  /\ At(i, "assignTimer")
  /\ Goto(i, "wait")
  /\ UNCHANGED <<exc, world, files, docker, threads>>

\* Every caller passes a stdout, so wait_for_logs never returns at once for want
\* of a stream.
WaitForLogs(i) ==
  /\ At(i, "wait")
  /\ \/ id[i] /\ Goto(i, "inspect") /\ UNCHANGED exc
     \/ ~id[i] /\ Throw(i, "RuntimeError")
  /\ UNCHANGED <<world, files, docker, threads>>

\* `containers.get(self.id)` reads the id anew: it may be None by now.
InspectForLogs(i) ==
  /\ At(i, "inspect")
  /\ \/ id[i] /\ box[i] \in Present /\ Goto(i, "attach") /\ UNCHANGED exc
     \/ id[i] /\ box[i] = "gone" /\ Throw(i, "NotFound")
     \/ ~id[i] /\ Throw(i, "NullResource")
     \/ Fails(i, "inspect", "APIError")
  /\ UNCHANGED <<world, files, docker, threads>>

Attach(i) ==
  /\ At(i, "attach")
  /\ \/ box[i] \in Present /\ Goto(i, "read") /\ UNCHANGED exc
     \/ box[i] \in {"removing", "gone"} /\ Throw(i, "NotFound")
     \/ Fails(i, "stream", "APIError")
  /\ UNCHANGED <<world, files, docker, threads>>

\* The stream ends when the container does, however it does.
ReadLogs(i) ==
  /\ At(i, "read")
  /\ \/ /\ box[i] \in {"exited", "removing", "gone"}
        /\ Goto(i, FirstCleanup(i)) /\ UNCHANGED exc
     \/ Fails(i, "stream", "OSError")
  /\ UNCHANGED <<world, files, docker, threads>>

-----------------------------------------------------------------------------
(* The finally block, and the exit of the `with` statement.                *)

\* Mutant: the finally block forgets the timer.
CancelTimerNever(i) ==
  /\ At(i, "cancel")
  /\ Goto(i, "unlink")
  /\ UNCHANGED <<exc, world, files, docker, threads>>

\* Mutant: the finally block drops its timer (`timer = None`) without cancelling it.
CancelTimerForgets(i) ==
  /\ At(i, "cancel")
  /\ timer' = [timer EXCEPT ![i] = "none"]
  /\ Goto(i, "unlink")
  /\ UNCHANGED <<exc, del, world, files, docker>>

\* Timer.cancel does not stop a handler that has begun.
CancelTimer(i) ==
  /\ At(i, "cancel")
  /\ timer' = [timer EXCEPT ![i] = IF @ = "armed" THEN "cancelled" ELSE @]
  /\ Goto(i, "unlink")
  /\ UNCHANGED <<exc, del, world, files, docker>>

\* Mutant: the finally block forgets to stop the container.
UnlinkEventOnly(i) ==
  /\ At(i, "unlink")
  /\ event' = [event EXCEPT ![i] = "unlinked"]
  /\ Goto(i, "leave")
  /\ UNCHANGED <<exc, code, world, docker, threads>>

UnlinkEvent(i) ==
  /\ At(i, "unlink")
  /\ \/ /\ event[i] = "file"
        /\ event' = [event EXCEPT ![i] = "unlinked"]
        /\ Goto(i, "stop")
        /\ DelGoto(i, "main", "check")
        /\ UNCHANGED exc
     \/ /\ event[i] = "lost"
        /\ Throw(i, "OSError")
        /\ UNCHANGED <<event, del>>
  /\ UNCHANGED <<code, timer, world, docker>>

Stopped(i) ==
  /\ At(i, "stop")
  /\ del[i]["main"] = "ok"
  /\ Goto(i, "leave")
  /\ UNCHANGED <<exc, world, files, docker, threads>>

\* The generator's own finally: rmtree of the copied jar, which may raise.
Leave(i) ==
  /\ At(i, "leave")
  /\ \/ /\ code' = [code EXCEPT ![i] = IF @ = "copied" THEN "removed" ELSE @]
        /\ Goto(i, IF exc[i] = "none" THEN "returned" ELSE "raised")
        /\ UNCHANGED exc
     \/ /\ code[i] = "copied"
        /\ code' = [code EXCEPT ![i] = "leaked"]
        /\ Fails(i, "disk", "OSError")
  /\ UNCHANGED <<event, world, docker, threads>>

-----------------------------------------------------------------------------
(* Container.delete, by either actor.                                      *)

DelAt(i, a, here) ==
  /\ IF a = "main" THEN MayStep(i) ELSE alive
  /\ del[i][a] = here

(* An exception out of delete. It ends the timer thread, whose traceback   *)
(* nobody catches; one out of the signal handler surfaces in whatever the  *)
(* main thread was doing.                                                  *)
DelThrow(i, a, e) ==
  \/ /\ a = "main"
     /\ Throw(i, e)
     /\ DelGoto(i, a, "failed")
     /\ UNCHANGED alive
  \/ /\ a = "killer" /\ mode = "run"
     /\ DelGoto(i, a, "failed")
     /\ UNCHANGED <<pc, exc, alive>>
  \/ /\ a = "killer" /\ mode # "run"
     /\ \/ \E j \in MainThread :
             /\ pc[j] \in Running
             /\ Throw(j, e)
             /\ del' = [[del EXCEPT ![i][a] = "failed"]
                          EXCEPT ![j]["main"] = IF @ \in InDelete THEN "failed" ELSE @]
             /\ UNCHANGED alive
        \/ /\ \A j \in MainThread : pc[j] \notin Running
           /\ DelGoto(i, a, "failed")
           /\ alive' = FALSE
           /\ UNCHANGED <<pc, exc>>

CheckCreated(i, a) ==
  /\ DelAt(i, a, "check")
  /\ DelGoto(i, a, IF id[i] THEN "get" ELSE "ok")
  /\ UNCHANGED <<pc, exc, timer, world, files, docker>>

\* `containers.get(self.id)`. Reading the id and asking the daemon are one step:
\* an id read before the other actor clears it names a container that is going
\* or gone, which is what an earlier request would have found too.
GetContainer(i, a) ==
  /\ DelAt(i, a, "get")
  /\ \/ /\ id[i]
        /\ DelGoto(i, a, IF box[i] = "gone" THEN "clear" ELSE "remove")
        /\ UNCHANGED <<pc, exc, alive>>
     \/ ~id[i] /\ DelThrow(i, a, "NullResource")
     \/ "inspect" \in Faults /\ DelThrow(i, a, "APIError")
  /\ UNCHANGED <<mode, timer, handler, interrupts, files, docker>>

\* Mutant: every APIError of the removal is taken for "already in progress".
RemoveContainerForgives(i, a) ==
  /\ DelAt(i, a, "remove")
  /\ \/ /\ box[i] \in Live
        /\ box' = [box EXCEPT ![i] = "removing"]
        /\ DelGoto(i, a, "removing")
     \/ /\ box[i] \in {"removing", "gone"} \/ "remove" \in Faults
        /\ DelGoto(i, a, "clear")
        /\ UNCHANGED box
  /\ UNCHANGED <<pc, exc, id, known, timer, image, world, files>>

\* Whoever asks second is told that the removal is in progress, or that there
\* is no such container; both are taken for success.
RemoveContainer(i, a) ==
  /\ DelAt(i, a, "remove")
  /\ \/ /\ box[i] \in Live
        /\ box' = [box EXCEPT ![i] = "removing"]
        /\ DelGoto(i, a, "removing")
        /\ UNCHANGED <<pc, exc, alive>>
     \/ /\ box[i] \in {"removing", "gone"}
        /\ DelGoto(i, a, "clear")
        /\ UNCHANGED <<box, pc, exc, alive>>
     \/ /\ "remove" \in Faults
        /\ DelThrow(i, a, "APIError")
        /\ UNCHANGED box
  /\ UNCHANGED <<mode, id, known, timer, image, handler, interrupts, files>>

Removed(i, a) ==
  /\ DelAt(i, a, "removing")
  /\ box[i] = "gone"
  /\ DelGoto(i, a, "clear")
  /\ UNCHANGED <<pc, exc, timer, world, files, docker>>

ClearId(i, a) ==
  /\ DelAt(i, a, "clear")
  /\ id' = [id EXCEPT ![i] = FALSE]
  /\ DelGoto(i, a, "ok")
  /\ UNCHANGED <<pc, exc, known, box, timer, image, world, files>>

Delete(i, a) ==
  \/ CheckCreated(i, a) \/ GetContainer(i, a) \/ RemoveContainer(i, a)
  \/ Removed(i, a) \/ ClearId(i, a)

-----------------------------------------------------------------------------
(* The timer, the signals, the daemon.                                     *)

TimerFires(i) ==
  /\ alive
  /\ timer[i] = "armed"
  /\ timer' = [timer EXCEPT ![i] = "fired"]
  /\ DelGoto(i, "killer", "check")
  /\ UNCHANGED <<pc, exc, world, files, docker>>

\* Ctrl+C on the main thread, outside the handler.
CtrlC(i) ==
  /\ interrupts < MaxInterrupts
  /\ MayStep(i) /\ i \in MainThread /\ pc[i] \in Running
  /\ interrupts' = interrupts + 1
  /\ Throw(i, "KeyboardInterrupt")
  /\ del' = [del EXCEPT ![i]["main"] = IF @ \in InDelete THEN "failed" ELSE @]
  /\ UNCHANGED <<mode, timer, handler, alive, files, docker>>

\* SIGTERM ends the process unless some debugged call has registered the handler,
\* which stays registered, bound to that call's container, ever after.
Sigterm ==
  /\ interrupts < MaxInterrupts
  /\ alive
  /\ interrupts' = interrupts + 1
  /\ \/ handler = NoInvocation /\ alive' = FALSE /\ UNCHANGED del
     \/ /\ handler # NoInvocation
        /\ ~InHandler(handler)
        /\ DelGoto(handler, "killer", "check")
        /\ UNCHANGED alive
  /\ UNCHANGED <<mode, pc, exc, timer, handler, files, docker>>

FunctionEnds(i) ==
  /\ box[i] = "running"
  /\ box' = [box EXCEPT ![i] = "exited"]
  /\ UNCHANGED <<pc, exc, id, known, image, world, files, threads>>

\* The directory of the event file is mounted read-write in the container.
FunctionDeletesEvent(i) ==
  /\ "event" \in Faults
  /\ box[i] = "running" /\ event[i] = "file"
  /\ event' = [event EXCEPT ![i] = "lost"]
  /\ UNCHANGED <<pc, exc, code, world, docker, threads>>

RemovalEnds(i) ==
  /\ box[i] = "removing"
  /\ box' = [box EXCEPT ![i] = "gone"]
  /\ UNCHANGED <<pc, exc, id, known, image, world, files, threads>>

-----------------------------------------------------------------------------
MainStep(i) ==
  \/ GetCodeDir(i) \/ CreateTmpEventFile(i) \/ NewContainer(i)
  \/ HasImage(i) \/ PullImage(i) \/ Create(i) \/ AssignId(i)
  \/ ConnectNetwork(i) \/ Start(i)
  \/ ConfigureInterrupt(i) \/ AssignTimer(i)
  \/ WaitForLogs(i) \/ InspectForLogs(i) \/ Attach(i) \/ ReadLogs(i)
  \/ CancelTimer(i) \/ UnlinkEvent(i) \/ Stopped(i) \/ Leave(i)
  \/ Delete(i, "main")

KillerStep(i) == TimerFires(i) \/ Delete(i, "killer")

DaemonStep(i) == FunctionEnds(i) \/ FunctionDeletesEvent(i) \/ RemovalEnds(i)

\* Nothing has to happen any more: no call is in progress, or the process is dead.
Finished ==
  /\ \A i \in Invocations :
       /\ box[i] \notin {"running", "removing"}
       /\ alive => pc[i] \in Ended \cup {"idle"} /\ timer[i] # "armed"
       /\ alive => \A a \in Actors : del[i][a] \notin InDelete
  /\ UNCHANGED vars

Next ==
  \/ \E i \in Invocations :
       Invoke(i) \/ MainStep(i) \/ KillerStep(i) \/ DaemonStep(i) \/ CtrlC(i)
  \/ Sigterm
  \/ Finished

Spec == Init /\ [][Next]_vars

\* Reading the logs of a running container waits: that the stream may break in the
\* meantime does not mean that it ever will.
Waiting(i) == pc[i] = "read" /\ box[i] = "running"

\* Threads are scheduled, an armed timer goes off and the daemon completes what
\* it was asked; functions, broken streams, users and signals owe nothing.
Fairness ==
  \A i \in Invocations :
    /\ WF_vars(~Waiting(i) /\ MainStep(i))
    /\ WF_vars(TimerFires(i))
    /\ WF_vars(Delete(i, "killer"))
    /\ WF_vars(RemovalEnds(i))

FairSpec == Spec /\ Fairness

-----------------------------------------------------------------------------
(* Properties.                                                             *)

\* Container.id is the only handle the program has on the container. However the
\* two actors interleave in delete, it is given up only for a container that is
\* going or gone: `self.id = None` never strands a live one.
HandleNotLost ==
  \A i \in Invocations : known[i] /\ box[i] \in Live => id[i]

\* A call that returns normally has left nothing behind: its container is going
\* or gone, its event file deleted, its copy of the jar removed. The exception
\* is a container whose id never reached the program.
ReturnsClean ==
  \A i \in Invocations :
    pc[i] = "returned" =>
      /\ known[i] => box[i] \notin Live
      /\ event[i] = "unlinked"
      /\ code[i] \in {"none", "removed"}

\* A failing run leaks nothing either: when invoke leaves its finally block with a
\* live container whose id it held, the step that does is a failure of the clean-up
\* itself: the event file could not be unlinked, a delete failed, this call's own or
\* that of a handler running in its thread, or Ctrl+C came again.
LeakNeedsFailedCleanup ==
  [][\A i \in Invocations :
       LET Inside == Running \ {"leave"} IN
       pc[i] \in Inside /\ pc'[i] \notin Inside /\ known[i] /\ box'[i] \in Live =>
         \/ event[i] = "lost"
         \/ del'[i]["main"] = "failed"
         \/ \E j \in Invocations :
              del[j]["killer"] # "failed" /\ del'[j]["killer"] = "failed"
         \/ exc'[i] = "KeyboardInterrupt"]_vars

\* The timer of a call that is over never goes off afterwards, on a thread of a
\* server (where no Ctrl+C can separate the timer's start from its assignment).
TimerSettled ==
  \A i \in Invocations \ MainThread :
    pc[i] \in Ended => timer[i] # "armed"

-----------------------------------------------------------------------------
(* What a caller may rely on: LocalInvoke implements Sandbox. A container  *)
(* whose id was never learnt is no sandbox of the call.                    *)
Contract == INSTANCE Sandbox WITH
  call <- [i \in Invocations |->
             IF pc[i] \in Running THEN "open" ELSE pc[i]],
  sandbox <- [i \in Invocations |->
                IF ~known[i] THEN "none"
                ELSE IF box[i] \in Live THEN "up" ELSE "down"]

\* Every step of the program, its daemon and its signals is one the contract
\* allows: no second container, none after the call, none up at a normal return.
ImplementsSandbox == Contract!Spec

\* On a well-behaved daemon every sandbox comes down and every call closes.
ImplementsFairSandbox == Contract!FairSpec

-----------------------------------------------------------------------------
(* Statements of the code's comments that the code does not keep.          *)

\* "It is also thread-safe": two concurrent ContainerManager.stop calls on one
\* container both succeed when the daemon answers every request.
StopIsThreadSafe ==
  \A i \in Invocations, a \in Actors : del[i][a] # "failed"

\* "Any case, cleanup the timer and container.": a call that returned, its Ctrl+C
\* swallowed or not, leaves neither a container nor a timer that will go off.
FinallyCleansUp ==
  \A i \in Invocations :
    pc[i] = "returned" => box[i] \notin Live /\ timer[i] # "armed"

=============================================================================
