-------------------------- MODULE LocalInvokeProofs --------------------------
(***************************************************************************)
(* For every number of invocations, every choice of faults and any number  *)
(* of interrupts: LocalInvoke is type correct, Container.id is given up    *)
(* only for a container that is going or gone, a call that returns leaves  *)
(* nothing behind and one that is over no timer, only a failure of the     *)
(* clean-up leaks, and the whole implements Sandbox.                       *)
(***************************************************************************)
EXTENDS LocalInvoke, TLAPS

Places == {"idle"} \cup Running \cup Ended
AfterThrow == {"cancel", "unlink", "leave", "raised"}

(* What an exception does to the state: only pc and exc of the invocation  *)
(* change, and control never goes back before the interrupt.               *)
LEMMA ThrowEffect ==
  ASSUME TypeOK, NEW i \in Invocations, NEW e \in Exceptions, Throw(i, e)
  PROVE  /\ pc' \in [Invocations -> Places]
         /\ exc' \in [Invocations -> Exceptions \cup {"none"}]
         /\ pc'[i] \in AfterThrow
         /\ \A j \in Invocations : j # i => pc'[j] = pc[j]
<1>1. /\ pc \in [Invocations -> Places]
      /\ exc \in [Invocations -> Exceptions \cup {"none"}]
  BY DEF TypeOK, Places
<1>2. exc' \in [Invocations -> Exceptions \cup {"none"}]
  BY <1>1 DEF Throw
<1>3. \E l \in AfterThrow : pc' = [pc EXCEPT ![i] = l]
  <2>1. FirstCleanup(i) \in AfterThrow
    BY DEF FirstCleanup, AfterThrow
  <2>2. QED
    BY <2>1 DEF Throw, Goto, AfterThrow
<1>4. AfterThrow \subseteq Places
  BY DEF AfterThrow, Places, Running, Ended, Finally
<1>5. QED
  BY <1>1, <1>2, <1>3, <1>4

(* One program step either goes to a given place or throws.                *)
LEMMA GotoEffect ==
  ASSUME TypeOK, NEW i \in Invocations, NEW l \in Places, Goto(i, l)
  PROVE  pc' \in [Invocations -> Places] /\ pc' = [pc EXCEPT ![i] = l]
BY DEF TypeOK, Places, Goto

DelPlaces == InDelete \cup {"idle", "ok", "failed"}

LEMMA DelGotoEffect ==
  ASSUME TypeOK, NEW i \in Invocations, NEW a \in Actors, NEW l \in DelPlaces,
         DelGoto(i, a, l)
  PROVE  /\ del' \in [Invocations -> [Actors -> DelPlaces]]
         /\ del'[i][a] = l
         /\ \A j \in Invocations, b \in Actors :
              j # i \/ b # a => del'[j][b] = del[j][b]
BY DEF TypeOK, DelPlaces, DelGoto

(* An exception of delete, wherever it surfaces, leaves every actor in a   *)
(* place it may be in; nobody enters delete or advances in it.             *)
LEMMA DelThrowEffect ==
  ASSUME TypeOK, NEW i \in Invocations, NEW a \in Actors, NEW e \in Exceptions,
         del[i][a] \in InDelete, DelThrow(i, a, e)
  PROVE  /\ pc' \in [Invocations -> Places]
         /\ exc' \in [Invocations -> Exceptions \cup {"none"}]
         /\ alive' \in BOOLEAN
         /\ \A j \in Invocations : pc'[j] \in AfterThrow \/ pc'[j] = pc[j]
         /\ del' \in [Invocations -> [Actors -> DelPlaces]]
         /\ \A j \in Invocations, b \in Actors :
              \/ del'[j][b] = del[j][b]
              \/ del'[j][b] = "failed" /\ del[j][b] \in InDelete
<1>0. MainThread \subseteq Invocations /\ "main" \in Actors /\ "failed" \in DelPlaces
  BY ConstantAssumption DEF Actors, DelPlaces
<1>1. CASE Throw(i, e) /\ DelGoto(i, a, "failed") /\ UNCHANGED alive
  BY <1>0, <1>1, ThrowEffect, DelGotoEffect DEF TypeOK
<1>2. CASE DelGoto(i, a, "failed") /\ UNCHANGED <<pc, exc>> /\ alive' \in BOOLEAN
  BY <1>0, <1>2, DelGotoEffect DEF TypeOK, Places
<1>3. ASSUME NEW j \in MainThread, Throw(j, e), UNCHANGED alive,
             del' = [[del EXCEPT ![i][a] = "failed"]
                       EXCEPT ![j]["main"] = IF @ \in InDelete THEN "failed" ELSE @]
      PROVE  /\ pc' \in [Invocations -> Places]
             /\ exc' \in [Invocations -> Exceptions \cup {"none"}]
             /\ \A k \in Invocations : pc'[k] \in AfterThrow \/ pc'[k] = pc[k]
             /\ del' \in [Invocations -> [Actors -> DelPlaces]]
             /\ \A k \in Invocations, b \in Actors :
                  \/ del'[k][b] = del[k][b]
                  \/ del'[k][b] = "failed" /\ del[k][b] \in InDelete
  <2>1. j \in Invocations
    BY <1>0
  <2>2. /\ pc' \in [Invocations -> Places]
        /\ exc' \in [Invocations -> Exceptions \cup {"none"}]
        /\ \A k \in Invocations : pc'[k] \in AfterThrow \/ pc'[k] = pc[k]
    BY <1>3, <2>1, ThrowEffect
  <2>3. del \in [Invocations -> [Actors -> DelPlaces]]
    BY DEF TypeOK, DelPlaces
  <2> DEFINE d == [del EXCEPT ![i][a] = "failed"]
  <2>4. /\ d \in [Invocations -> [Actors -> DelPlaces]]
        /\ \A k \in Invocations, b \in Actors :
             \/ d[k][b] = del[k][b]
             \/ d[k][b] = "failed" /\ del[k][b] \in InDelete
    BY <1>0, <2>3
  <2>5. "failed" \notin InDelete
    BY DEF InDelete
  <2>8. del' = [d EXCEPT ![j]["main"] = IF d[j]["main"] \in InDelete THEN "failed" ELSE d[j]["main"]]
    BY <1>3
  <2> HIDE DEF d
  <2>6. CASE d[j]["main"] \in InDelete
    <3>1. del' = [d EXCEPT ![j]["main"] = "failed"]
      BY <2>6, <2>8
    <3>2. QED
      BY <1>0, <2>1, <2>2, <2>4, <2>5, <2>6, <3>1
  <2>7. CASE d[j]["main"] \notin InDelete
    <3>1. del' = [d EXCEPT ![j]["main"] = d[j]["main"]]
      BY <2>7, <2>8
    <3>2. QED
      BY <1>0, <2>1, <2>2, <2>4, <3>1
  <2>9. QED
    BY <2>6, <2>7
<1>4. QED
  BY <1>0, <1>1, <1>2, <1>3 DEF DelThrow, TypeOK

(* A step of the program text either goes on or throws.                    *)
GoesOn(i) == UNCHANGED exc /\ \E l \in Places : Goto(i, l)
Throws(i) == \E e \in Exceptions : Throw(i, e)

LEMMA ControlTypes ==
  ASSUME TypeOK, NEW i \in Invocations, GoesOn(i) \/ Throws(i)
  PROVE  /\ pc' \in [Invocations -> Places]
         /\ exc' \in [Invocations -> Exceptions \cup {"none"}]
<1>1. CASE GoesOn(i)
  BY <1>1, GotoEffect DEF GoesOn, TypeOK
<1>2. CASE Throws(i)
  BY <1>2, ThrowEffect DEF Throws
<1>3. QED
  BY <1>1, <1>2

LEMMA PlaceNames ==
  Places = {"idle", "codedir", "event", "new", "image", "pull", "create",
            "assign", "network", "start", "configure", "assignTimer", "wait",
            "inspect", "attach", "read", "cancel", "unlink", "stop", "leave",
            "returned", "raised"}
BY DEF Places, Running, Ended, BeforeTry, StartSteps, LogSteps, Finally

(* Every step keeps the types, one action at a time.                       *)
ProgramStep(i) ==
  \/ Invoke(i)
  \/ GetCodeDir(i)
  \/ CreateTmpEventFile(i)
  \/ NewContainer(i)
  \/ HasImage(i)
  \/ PullImage(i)
  \/ Create(i)
  \/ AssignId(i)
  \/ ConnectNetwork(i)
  \/ Start(i)
  \/ ConfigureInterrupt(i)
  \/ AssignTimer(i)
  \/ WaitForLogs(i)
  \/ InspectForLogs(i)
  \/ Attach(i)
  \/ ReadLogs(i)
  \/ CancelTimer(i)
  \/ UnlinkEvent(i)
  \/ Stopped(i)
  \/ Leave(i)

LEMMA ProgramTypes ==
  ASSUME TypeOK, NEW i \in Invocations, ProgramStep(i)
  PROVE  TypeOK'
<1> USE DEF files, docker, threads, world
<1>1. CASE Invoke(i)
  <2>1. GoesOn(i)
    BY <1>1, PlaceNames DEF Invoke, GoesOn
  <2>2. QED
    BY <1>1, <2>1, ControlTypes DEF Invoke, TypeOK, Places
<1>2. CASE GetCodeDir(i)
  <2>1. GoesOn(i) \/ Throws(i)
    BY <1>2, PlaceNames DEF GetCodeDir, GoesOn, Throws, Fails, Exceptions
  <2>2. QED
    BY <1>2, <2>1, ControlTypes DEF GetCodeDir, TypeOK, Places
<1>3. CASE CreateTmpEventFile(i)
  <2>1. GoesOn(i) \/ Throws(i)
    BY <1>3, PlaceNames DEF CreateTmpEventFile, GoesOn, Throws, Fails, Exceptions
  <2>2. QED
    BY <1>3, <2>1, ControlTypes DEF CreateTmpEventFile, TypeOK, Places
<1>4. CASE NewContainer(i)
  <2>1. GoesOn(i) \/ Throws(i)
    BY <1>4, PlaceNames DEF NewContainer, GoesOn, Throws, Fails, Exceptions
  <2>2. QED
    BY <1>4, <2>1, ControlTypes DEF NewContainer, TypeOK, Places
<1>5. CASE HasImage(i)
  <2>1. GoesOn(i) \/ Throws(i)
    BY <1>5, PlaceNames DEF HasImage, GoesOn, Throws, Fails, Exceptions
  <2>2. QED
    BY <1>5, <2>1, ControlTypes DEF HasImage, TypeOK, Places
<1>6. CASE PullImage(i)
  <2>1. GoesOn(i) \/ Throws(i)
    BY <1>6, PlaceNames DEF PullImage, GoesOn, Throws, Fails, Exceptions
  <2>2. QED
    BY <1>6, <2>1, ControlTypes DEF PullImage, TypeOK, Places
<1>7. CASE Create(i)
  <2>1. GoesOn(i) \/ Throws(i)
    BY <1>7, PlaceNames DEF Create, GoesOn, Throws, Fails, Exceptions
  <2>2. QED
    BY <1>7, <2>1, ControlTypes DEF Create, TypeOK, Places, Present, Live
<1>8. CASE AssignId(i)
  <2>1. GoesOn(i) \/ Throws(i)
    BY <1>8, PlaceNames DEF AssignId, GoesOn, Throws, Fails, Exceptions
  <2>2. QED
    BY <1>8, <2>1, ControlTypes DEF AssignId, TypeOK, Places
<1>9. CASE ConnectNetwork(i)
  <2>1. GoesOn(i) \/ Throws(i)
    BY <1>9, PlaceNames DEF ConnectNetwork, GoesOn, Throws, Fails, Exceptions
  <2>2. QED
    BY <1>9, <2>1, ControlTypes DEF ConnectNetwork, TypeOK, Places
<1>10. CASE Start(i)
  <2>1. GoesOn(i) \/ Throws(i)
    BY <1>10, PlaceNames DEF Start, GoesOn, Throws, Fails, Exceptions
  <2>2. QED
    BY <1>10, <2>1, ControlTypes DEF Start, TypeOK, Places, Present, Live
<1>11. CASE ConfigureInterrupt(i)
  <2>1. GoesOn(i)
    BY <1>11, PlaceNames DEF ConfigureInterrupt, GoesOn
  <2>2. QED
    BY <1>11, <2>1, ControlTypes DEF ConfigureInterrupt, TypeOK, Places
<1>12. CASE AssignTimer(i)
  <2>1. GoesOn(i)
    BY <1>12, PlaceNames DEF AssignTimer, GoesOn
  <2>2. QED
    BY <1>12, <2>1, ControlTypes DEF AssignTimer, TypeOK, Places
<1>13. CASE WaitForLogs(i)
  <2>1. GoesOn(i) \/ Throws(i)
    BY <1>13, PlaceNames DEF WaitForLogs, GoesOn, Throws, Fails, Exceptions
  <2>2. QED
    BY <1>13, <2>1, ControlTypes DEF WaitForLogs, TypeOK, Places
<1>14. CASE InspectForLogs(i)
  <2>1. GoesOn(i) \/ Throws(i)
    BY <1>14, PlaceNames DEF InspectForLogs, GoesOn, Throws, Fails, Exceptions
  <2>2. QED
    BY <1>14, <2>1, ControlTypes DEF InspectForLogs, TypeOK, Places
<1>15. CASE Attach(i)
  <2>1. GoesOn(i) \/ Throws(i)
    BY <1>15, PlaceNames DEF Attach, GoesOn, Throws, Fails, Exceptions
  <2>2. QED
    BY <1>15, <2>1, ControlTypes DEF Attach, TypeOK, Places
<1>16. CASE ReadLogs(i)
  <2>1. GoesOn(i) \/ Throws(i)
    BY <1>16, PlaceNames DEF ReadLogs, GoesOn, Throws, Fails, Exceptions, FirstCleanup
  <2>2. QED
    BY <1>16, <2>1, ControlTypes DEF ReadLogs, TypeOK, Places
<1>17. CASE CancelTimer(i)
  <2>1. GoesOn(i)
    BY <1>17, PlaceNames DEF CancelTimer, GoesOn
  <2>2. QED
    BY <1>17, <2>1, ControlTypes DEF CancelTimer, TypeOK, Places
<1>18. CASE UnlinkEvent(i)
  <2>1. GoesOn(i) \/ Throws(i)
    BY <1>18, PlaceNames DEF UnlinkEvent, GoesOn, Throws, Fails, Exceptions
  <2>2. del' \in [Invocations -> [Actors -> DelPlaces]]
    <3>1. CASE UNCHANGED del
      BY <3>1 DEF TypeOK, DelPlaces
    <3>2. CASE DelGoto(i, "main", "check")
      BY <3>2, DelGotoEffect DEF DelPlaces, InDelete, Actors
    <3>3. QED
      BY <1>18, <3>1, <3>2 DEF UnlinkEvent
  <2>3. QED
    BY <1>18, <2>1, <2>2, ControlTypes DEF UnlinkEvent, TypeOK, Places, DelPlaces
<1>19. CASE Stopped(i)
  <2>1. GoesOn(i)
    BY <1>19, PlaceNames DEF Stopped, GoesOn
  <2>2. QED
    BY <1>19, <2>1, ControlTypes DEF Stopped, TypeOK, Places
<1>20. CASE Leave(i)
  <2>1. GoesOn(i) \/ Throws(i)
    BY <1>20, PlaceNames DEF Leave, GoesOn, Throws, Fails, Exceptions
  <2>2. code' \in [Invocations -> {"none", "copied", "leaked", "removed"}]
    BY <1>20 DEF Leave, TypeOK
  <2>3. QED
    BY <1>20, <2>1, <2>2, ControlTypes DEF Leave, TypeOK, Places
<1>21. QED
  BY <1>1, <1>2, <1>3, <1>4, <1>5, <1>6, <1>7, <1>8, <1>9, <1>10, <1>11, <1>12, <1>13, <1>14, <1>15, <1>16, <1>17, <1>18, <1>19, <1>20 DEF ProgramStep

LEMMA DeleteTypes ==
  ASSUME TypeOK, NEW i \in Invocations, NEW a \in Actors, Delete(i, a)
  PROVE  TypeOK'
<1> USE DEF files, docker, threads, world
<1>1. CASE CheckCreated(i, a)
  BY <1>1, DelGotoEffect DEF CheckCreated, TypeOK, DelPlaces, InDelete
<1>2. CASE GetContainer(i, a)
  <2>1. CASE /\ \E l \in {"clear", "remove"} : DelGoto(i, a, l)
             /\ UNCHANGED <<pc, exc, alive>>
    BY <1>2, <2>1, DelGotoEffect DEF GetContainer, TypeOK, DelPlaces, InDelete
  <2>2. CASE \E e \in {"NullResource", "APIError"} : DelThrow(i, a, e)
    BY <1>2, <2>2, DelThrowEffect
    DEF GetContainer, TypeOK, DelPlaces, Places, Exceptions, DelAt, InDelete
  <2>3. QED
    BY <1>2, <2>1, <2>2 DEF GetContainer
<1>3. CASE RemoveContainer(i, a)
  <2>1. box' \in [Invocations -> Present \cup {"none", "gone"}]
    BY <1>3 DEF RemoveContainer, TypeOK, Present
  <2>2. CASE /\ \E l \in {"removing", "clear"} : DelGoto(i, a, l)
             /\ UNCHANGED <<pc, exc, alive>>
    BY <1>3, <2>1, <2>2, DelGotoEffect
    DEF RemoveContainer, TypeOK, DelPlaces, InDelete
  <2>3. CASE DelThrow(i, a, "APIError")
    BY <1>3, <2>1, <2>3, DelThrowEffect
    DEF RemoveContainer, TypeOK, DelPlaces, Places, Exceptions, DelAt, InDelete
  <2>4. QED
    BY <1>3, <2>2, <2>3 DEF RemoveContainer
<1>4. CASE Removed(i, a)
  BY <1>4, DelGotoEffect DEF Removed, TypeOK, DelPlaces, InDelete
<1>5. CASE ClearId(i, a)
  BY <1>5, DelGotoEffect DEF ClearId, TypeOK, DelPlaces, InDelete
<1>6. QED
  BY <1>1, <1>2, <1>3, <1>4, <1>5 DEF Delete

(* The timer, the daemon and the signals.                                  *)
Outside(i) == TimerFires(i) \/ DaemonStep(i) \/ CtrlC(i)

LEMMA OutsideTypes ==
  ASSUME TypeOK, NEW i \in Invocations, Outside(i)
  PROVE  TypeOK'
<1> USE DEF files, docker, threads, world
<1>1. CASE TimerFires(i)
  BY <1>1, DelGotoEffect DEF TimerFires, TypeOK, DelPlaces, InDelete, Actors
<1>2. CASE FunctionEnds(i)
  BY <1>2 DEF FunctionEnds, TypeOK, Present, Live
<1>3. CASE FunctionDeletesEvent(i)
  BY <1>3 DEF FunctionDeletesEvent, TypeOK
<1>4. CASE RemovalEnds(i)
  BY <1>4 DEF RemovalEnds, TypeOK
<1>5. CASE CtrlC(i)
  <2>1. pc' \in [Invocations -> Places] /\ exc' \in [Invocations -> Exceptions \cup {"none"}]
    BY <1>5, ControlTypes DEF CtrlC, Throws, Exceptions
  <2>2. del' \in [Invocations -> [Actors -> DelPlaces]]
    BY <1>5 DEF CtrlC, TypeOK, DelPlaces, Actors
  <2>3. interrupts' \in 0..MaxInterrupts
    BY <1>5, ConstantAssumption DEF CtrlC, TypeOK
  <2>4. QED
    BY <1>5, <2>1, <2>2, <2>3 DEF CtrlC, TypeOK, DelPlaces, Places
<1>6. QED
  BY <1>1, <1>2, <1>3, <1>4, <1>5 DEF Outside, DaemonStep

LEMMA SigtermTypes == TypeOK /\ Sigterm => TypeOK'
<1> SUFFICES ASSUME TypeOK, Sigterm PROVE TypeOK'
  OBVIOUS
<1>1. del' \in [Invocations -> [Actors -> DelPlaces]]
  <2>1. CASE UNCHANGED del
    BY <2>1 DEF TypeOK, DelPlaces
  <2>2. CASE handler \in Invocations /\ DelGoto(handler, "killer", "check")
    BY <2>2, DelGotoEffect DEF DelPlaces, InDelete, Actors
  <2>3. QED
    BY <2>1, <2>2 DEF Sigterm, TypeOK
<1>2. interrupts' \in 0..MaxInterrupts
  BY ConstantAssumption DEF Sigterm, TypeOK
<1>3. QED
  BY <1>1, <1>2 DEF Sigterm, TypeOK, DelPlaces, files, docker

(* The next-state relation, as the lemmas divide it.                       *)
LEMMA NextCases ==
  ASSUME [Next]_vars
  PROVE  \/ \E i \in Invocations : ProgramStep(i) \/ Outside(i)
         \/ \E i \in Invocations, a \in Actors : Delete(i, a)
         \/ Sigterm
         \/ UNCHANGED vars
BY DEF Next, MainStep, KillerStep, ProgramStep, Outside, Actors, Finished

LEMMA TypeCorrectStutter == TypeOK /\ UNCHANGED vars => TypeOK'
BY DEF TypeOK, vars, files, docker, threads, world

(* All variables keep the types TypeOK gives them, whatever fails.         *)
THEOREM TypeCorrect == Spec => []TypeOK
<1>1. Init => TypeOK
  BY ConstantAssumption DEF Init, TypeOK
<1>2. TypeOK /\ [Next]_vars => TypeOK'
  BY TypeCorrectStutter, NextCases, ProgramTypes, OutsideTypes, DeleteTypes,
     SigtermTypes
<1>3. QED
  BY <1>1, <1>2, PTL DEF Spec

-----------------------------------------------------------------------------
(* The invariant behind HandleNotLost.                                     *)

(* The program up to the start of the container, in stretches.             *)
BeforeCreate == {"idle", "codedir", "event", "new", "image", "pull", "create"}
BeforeKnown  == BeforeCreate \cup {"assign"}
BeforeStart  == {"assign", "network", "start"}
BeforeKiller == BeforeKnown \cup BeforeStart \cup {"configure"}
Stretches == {BeforeCreate, BeforeKnown, BeforeStart, BeforeKiller}

(* Nobody is in Container.delete before the interrupt is configured.       *)
KillerComesLater ==
  \A i \in Invocations : pc[i] \in BeforeKiller =>
    /\ timer[i] = "off" /\ handler # i
    /\ \A a \in Actors : del[i][a] = "idle"

BoxFollowsProgram ==
  \A i \in Invocations :
    /\ pc[i] \in BeforeCreate => box[i] = "none"
    /\ pc[i] \in BeforeKnown => ~known[i]
    /\ pc[i] \in BeforeStart => box[i] = "created"

(* Whoever clears the id, or waits to, has asked for the removal.          *)
ClearsAfterRemoval ==
  \A i \in Invocations, a \in Actors :
    del[i][a] \in {"removing", "clear"} => box[i] \in {"removing", "gone"}

HandleInv ==
  TypeOK /\ KillerComesLater /\ BoxFollowsProgram /\ ClearsAfterRemoval
  /\ HandleNotLost

(* A step that leaves the container, the id and the actors alone keeps the *)
(* invariant: the program never goes back into one of its first stretches. *)
NeverBack ==
  \A i \in Invocations, S \in Stretches : pc'[i] \in S => pc[i] \in S

LEMMA QuietStep ==
  ASSUME HandleInv, TypeOK', NeverBack,
         UNCHANGED <<timer, handler, del, box, id, known>>
  PROVE  HandleInv'
BY DEF HandleInv, KillerComesLater, BoxFollowsProgram, ClearsAfterRemoval,
       HandleNotLost, NeverBack, Stretches

(* Going on from a place to the next, or throwing, never goes back.        *)
LEMMA ControlNeverBack ==
  ASSUME TypeOK, NEW i \in Invocations,
         \/ Throws(i)
         \/ \E l \in Places : Goto(i, l) /\ \A S \in Stretches : l \in S => pc[i] \in S
  PROVE  NeverBack
<1>1. CASE Throws(i)
  <2>1. \A S \in Stretches : S \cap AfterThrow = {}
    BY DEF Stretches, BeforeCreate, BeforeKnown, BeforeStart, BeforeKiller, AfterThrow
  <2>2. QED
    BY <1>1, <2>1, ThrowEffect DEF Throws, NeverBack
<1>2. ASSUME NEW l \in Places, Goto(i, l), \A S \in Stretches : l \in S => pc[i] \in S
      PROVE  NeverBack
  BY <1>2, GotoEffect DEF NeverBack
<1>3. QED
  BY <1>1, <1>2

LEMMA ProgramKeepsHandle ==
  ASSUME HandleInv, NEW i \in Invocations, ProgramStep(i)
  PROVE  HandleInv'
<1>1. TypeOK /\ TypeOK'
  BY ProgramTypes DEF HandleInv
<1> USE DEF At, files, docker, threads, world
<1>2. CASE Invoke(i)
  <2>1. NeverBack
    BY <1>1, <1>2, ControlNeverBack, PlaceNames
    DEF Invoke, Stretches, BeforeCreate, BeforeKnown,
        BeforeStart, BeforeKiller
  <2>2. QED
    BY <1>1, <1>2, <2>1, QuietStep DEF Invoke
<1>3. CASE GetCodeDir(i)
  <2>1. NeverBack
    BY <1>1, <1>3, ControlNeverBack, PlaceNames
    DEF GetCodeDir, Stretches, BeforeCreate, BeforeKnown,
        BeforeStart, BeforeKiller, Throws, Fails, Exceptions
  <2>2. QED
    BY <1>1, <1>3, <2>1, QuietStep DEF GetCodeDir
<1>4. CASE CreateTmpEventFile(i)
  <2>1. NeverBack
    BY <1>1, <1>4, ControlNeverBack, PlaceNames
    DEF CreateTmpEventFile, Stretches, BeforeCreate, BeforeKnown,
        BeforeStart, BeforeKiller, Throws, Fails, Exceptions
  <2>2. QED
    BY <1>1, <1>4, <2>1, QuietStep DEF CreateTmpEventFile
<1>5. CASE NewContainer(i)
  <2>1. NeverBack
    BY <1>1, <1>5, ControlNeverBack, PlaceNames
    DEF NewContainer, Stretches, BeforeCreate, BeforeKnown,
        BeforeStart, BeforeKiller, Throws, Fails, Exceptions
  <2>2. QED
    BY <1>1, <1>5, <2>1, QuietStep DEF NewContainer
<1>6. CASE HasImage(i)
  <2>1. NeverBack
    BY <1>1, <1>6, ControlNeverBack, PlaceNames
    DEF HasImage, Stretches, BeforeCreate, BeforeKnown,
        BeforeStart, BeforeKiller, Throws, Fails, Exceptions
  <2>2. QED
    BY <1>1, <1>6, <2>1, QuietStep DEF HasImage
<1>7. CASE PullImage(i)
  <2>1. NeverBack
    BY <1>1, <1>7, ControlNeverBack, PlaceNames
    DEF PullImage, Stretches, BeforeCreate, BeforeKnown,
        BeforeStart, BeforeKiller, Throws, Fails, Exceptions
  <2>2. QED
    BY <1>1, <1>7, <2>1, QuietStep DEF PullImage
<1>8. CASE ConnectNetwork(i)
  <2>1. NeverBack
    BY <1>1, <1>8, ControlNeverBack, PlaceNames
    DEF ConnectNetwork, Stretches, BeforeCreate, BeforeKnown,
        BeforeStart, BeforeKiller, Throws, Fails, Exceptions
  <2>2. QED
    BY <1>1, <1>8, <2>1, QuietStep DEF ConnectNetwork
<1>9. CASE AssignTimer(i)
  <2>1. NeverBack
    BY <1>1, <1>9, ControlNeverBack, PlaceNames
    DEF AssignTimer, Stretches, BeforeCreate, BeforeKnown,
        BeforeStart, BeforeKiller
  <2>2. QED
    BY <1>1, <1>9, <2>1, QuietStep DEF AssignTimer
<1>10. CASE WaitForLogs(i)
  <2>1. NeverBack
    BY <1>1, <1>10, ControlNeverBack, PlaceNames
    DEF WaitForLogs, Stretches, BeforeCreate, BeforeKnown,
        BeforeStart, BeforeKiller, Throws, Fails, Exceptions
  <2>2. QED
    BY <1>1, <1>10, <2>1, QuietStep DEF WaitForLogs
<1>11. CASE InspectForLogs(i)
  <2>1. NeverBack
    BY <1>1, <1>11, ControlNeverBack, PlaceNames
    DEF InspectForLogs, Stretches, BeforeCreate, BeforeKnown,
        BeforeStart, BeforeKiller, Throws, Fails, Exceptions
  <2>2. QED
    BY <1>1, <1>11, <2>1, QuietStep DEF InspectForLogs
<1>12. CASE Attach(i)
  <2>1. NeverBack
    BY <1>1, <1>12, ControlNeverBack, PlaceNames
    DEF Attach, Stretches, BeforeCreate, BeforeKnown,
        BeforeStart, BeforeKiller, Throws, Fails, Exceptions
  <2>2. QED
    BY <1>1, <1>12, <2>1, QuietStep DEF Attach
<1>13. CASE ReadLogs(i)
  <2>1. NeverBack
    BY <1>1, <1>13, ControlNeverBack, PlaceNames
    DEF ReadLogs, Stretches, BeforeCreate, BeforeKnown,
        BeforeStart, BeforeKiller, Throws, Fails, Exceptions, FirstCleanup
  <2>2. QED
    BY <1>1, <1>13, <2>1, QuietStep DEF ReadLogs
<1>14. CASE Stopped(i)
  <2>1. NeverBack
    BY <1>1, <1>14, ControlNeverBack, PlaceNames
    DEF Stopped, Stretches, BeforeCreate, BeforeKnown,
        BeforeStart, BeforeKiller
  <2>2. QED
    BY <1>1, <1>14, <2>1, QuietStep DEF Stopped
<1>15. CASE Leave(i)
  <2>1. NeverBack
    BY <1>1, <1>15, ControlNeverBack, PlaceNames
    DEF Leave, Stretches, BeforeCreate, BeforeKnown,
        BeforeStart, BeforeKiller, Throws, Fails, Exceptions
  <2>2. QED
    BY <1>1, <1>15, <2>1, QuietStep DEF Leave
<1>16. CASE Create(i)
  <2>1. CASE Throws(i) /\ UNCHANGED box
    BY <1>1, <1>16, <2>1, ControlNeverBack, QuietStep DEF Create
  <2>2. CASE Goto(i, "assign") /\ box' = [box EXCEPT ![i] = "created"]
    <3>1. pc' = [pc EXCEPT ![i] = "assign"] /\ pc[i] = "create"
      BY <1>16, <2>2 DEF Create, Goto
    <3>2. KillerComesLater'
      BY <1>1, <1>16, <3>1
      DEF Create, HandleInv, KillerComesLater, TypeOK, BeforeCreate, BeforeKnown,
          BeforeKiller
    <3>3. BoxFollowsProgram'
      BY <1>1, <1>16, <2>2, <3>1
      DEF Create, HandleInv, BoxFollowsProgram, TypeOK, BeforeCreate,
          BeforeKnown, BeforeStart
    <3>4. ClearsAfterRemoval'
      BY <1>1, <1>16, <2>2, <3>1
      DEF Create, HandleInv, KillerComesLater, ClearsAfterRemoval, TypeOK,
          BeforeCreate, BeforeKnown, BeforeKiller
    <3>5. HandleNotLost'
      BY <1>1, <1>16, <2>2, <3>1
      DEF Create, HandleInv, HandleNotLost, BoxFollowsProgram, TypeOK,
          BeforeCreate, BeforeKnown
    <3>6. QED
      BY <1>1, <3>2, <3>3, <3>4, <3>5 DEF HandleInv
  <2>3. QED
    BY <1>16, <2>1, <2>2 DEF Create, Throws, Fails, Exceptions
<1>17. CASE AssignId(i)
  <2>1. NeverBack
    BY <1>1, <1>17, ControlNeverBack, PlaceNames
    DEF AssignId, Stretches, BeforeCreate, BeforeKnown,
        BeforeStart, BeforeKiller, Throws, Fails, Exceptions
  <2>2. CASE UNCHANGED <<id, known>>
    BY <1>1, <1>17, <2>1, <2>2, QuietStep DEF AssignId
  <2>3. CASE /\ id' = [id EXCEPT ![i] = TRUE]
             /\ known' = [known EXCEPT ![i] = TRUE]
             /\ \E l \in {"network", "start"} : Goto(i, l)
    <3>1. PICK l \in {"network", "start"} : pc' = [pc EXCEPT ![i] = l]
      BY <2>3 DEF Goto
    <3>2. pc[i] = "assign" /\ UNCHANGED <<timer, handler, del, box>>
      BY <1>17 DEF AssignId
    <3>3. KillerComesLater' /\ ClearsAfterRemoval'
      BY <1>1, <2>1, <3>2
      DEF HandleInv, KillerComesLater, ClearsAfterRemoval, NeverBack, Stretches
    <3>4. BoxFollowsProgram'
      BY <1>1, <2>3, <3>1, <3>2
      DEF HandleInv, BoxFollowsProgram, TypeOK, BeforeCreate, BeforeKnown,
          BeforeStart
    <3>5. HandleNotLost'
      BY <1>1, <2>3, <3>2 DEF HandleInv, HandleNotLost, TypeOK
    <3>6. QED
      BY <1>1, <3>3, <3>4, <3>5 DEF HandleInv
  <2>4. QED
    BY <1>17, <2>2, <2>3 DEF AssignId
<1>18. CASE Start(i)
  <2>1. NeverBack
    BY <1>1, <1>18, ControlNeverBack, PlaceNames
    DEF Start, Stretches, BeforeCreate, BeforeKnown,
        BeforeStart, BeforeKiller, Throws, Fails, Exceptions
  <2>2. CASE UNCHANGED box
    BY <1>1, <1>18, <2>1, <2>2, QuietStep DEF Start
  <2>3. CASE Goto(i, "configure") /\ box' = [box EXCEPT ![i] = "running"]
    <3>1. /\ pc[i] = "start" /\ pc' = [pc EXCEPT ![i] = "configure"]
          /\ UNCHANGED <<timer, handler, del, id, known>>
      BY <1>18, <2>3 DEF Start, Goto
    <3>2. KillerComesLater'
      BY <2>1, <3>1 DEF HandleInv, KillerComesLater, NeverBack, Stretches
    <3>3. BoxFollowsProgram'
      BY <1>1, <2>3, <3>1
      DEF HandleInv, BoxFollowsProgram, TypeOK, BeforeCreate, BeforeKnown,
          BeforeStart
    <3>4. ClearsAfterRemoval'
      BY <1>1, <2>3, <3>1
      DEF HandleInv, KillerComesLater, ClearsAfterRemoval, TypeOK, BeforeStart,
          BeforeKiller
    <3>5. HandleNotLost'
      <4>1. box[i] = "created"
        BY <3>1 DEF HandleInv, BoxFollowsProgram, BeforeStart
      <4>2. QED
        BY <1>1, <2>3, <3>1, <4>1 DEF HandleInv, HandleNotLost, TypeOK, Live
    <3>6. QED
      BY <1>1, <3>2, <3>3, <3>4, <3>5 DEF HandleInv
  <2>4. QED
    BY <1>18, <2>2, <2>3 DEF Start
<1>19. CASE ConfigureInterrupt(i)
  <2>1. NeverBack
    BY <1>1, <1>19, ControlNeverBack, PlaceNames
    DEF ConfigureInterrupt, Stretches, BeforeCreate, BeforeKnown,
        BeforeStart, BeforeKiller
  <2>2. /\ pc[i] = "configure" /\ pc'[i] \in {"assignTimer", "wait"}
        /\ \A j \in Invocations : j # i => pc'[j] = pc[j]
        /\ UNCHANGED <<del, box, id, known>>
    BY <1>1, <1>19 DEF ConfigureInterrupt, Goto, TypeOK
  <2>3. /\ timer' = [timer EXCEPT ![i] = "armed"] \/ UNCHANGED timer
        /\ handler' = i \/ UNCHANGED handler
    BY <1>19 DEF ConfigureInterrupt
  <2>4. KillerComesLater'
    <3>. SUFFICES ASSUME NEW j \in Invocations, pc'[j] \in BeforeKiller
                  PROVE  /\ timer'[j] = "off" /\ handler' # j
                         /\ \A a \in Actors : del'[j][a] = "idle"
      BY DEF KillerComesLater
    <3>1. j # i
      BY <2>2 DEF BeforeKiller, BeforeKnown, BeforeCreate, BeforeStart
    <3>2. pc[j] \in BeforeKiller
      BY <2>2, <3>1
    <3>3. timer[j] = "off" /\ handler # j /\ \A a \in Actors : del[j][a] = "idle"
      BY <1>1, <3>2 DEF HandleInv, KillerComesLater
    <3>4. timer'[j] = "off"
      BY <1>1, <2>3, <3>1, <3>3 DEF HandleInv, TypeOK
    <3>5. handler' # j
      BY <2>3, <3>1, <3>3
    <3>6. QED
      BY <2>2, <3>3, <3>4, <3>5
  <2>5. BoxFollowsProgram' /\ ClearsAfterRemoval' /\ HandleNotLost'
    BY <2>1, <2>2
    DEF HandleInv, BoxFollowsProgram, ClearsAfterRemoval, HandleNotLost, NeverBack,
        Stretches
  <2>6. QED
    BY <1>1, <2>4, <2>5 DEF HandleInv
<1>20. CASE CancelTimer(i)
  <2>1. NeverBack
    BY <1>1, <1>20, ControlNeverBack, PlaceNames
    DEF CancelTimer, Stretches, BeforeCreate, BeforeKnown,
        BeforeStart, BeforeKiller
  <2>2. QED
    BY <1>1, <1>20, <2>1
    DEF CancelTimer, HandleInv, KillerComesLater, BoxFollowsProgram, ClearsAfterRemoval,
        HandleNotLost, TypeOK, NeverBack, Stretches, BeforeCreate, BeforeKnown,
        BeforeStart, BeforeKiller
<1>21. CASE UnlinkEvent(i)
  <2>1. NeverBack
    BY <1>1, <1>21, ControlNeverBack, PlaceNames
    DEF UnlinkEvent, Stretches, BeforeCreate, BeforeKnown,
        BeforeStart, BeforeKiller, Throws, Fails, Exceptions
  <2>2. CASE UNCHANGED del
    BY <1>1, <1>21, <2>1, <2>2, QuietStep DEF UnlinkEvent
  <2>3. CASE DelGoto(i, "main", "check")
    <3>1. /\ pc[i] = "unlink" /\ pc \in [Invocations -> Places]
          /\ UNCHANGED <<timer, handler, box, id, known>>
      BY <1>1, <1>21 DEF UnlinkEvent, TypeOK, Places
    <3>2. /\ del'[i]["main"] = "check"
          /\ \A j \in Invocations, b \in Actors :
               j # i \/ b # "main" => del'[j][b] = del[j][b]
      BY <1>1, <2>3, DelGotoEffect DEF Actors, DelPlaces, InDelete
    <3>3. KillerComesLater'
      BY <2>1, <3>1, <3>2
      DEF HandleInv, KillerComesLater, NeverBack, Stretches, BeforeKiller,
          BeforeKnown, BeforeCreate, BeforeStart
    <3>4. BoxFollowsProgram' /\ HandleNotLost'
      BY <2>1, <3>1
      DEF HandleInv, BoxFollowsProgram, HandleNotLost, NeverBack, Stretches
    <3>5. ClearsAfterRemoval'
      BY <3>1, <3>2 DEF HandleInv, ClearsAfterRemoval
    <3>6. QED
      BY <1>1, <3>3, <3>4, <3>5 DEF HandleInv
  <2>4. QED
    BY <1>21, <2>2, <2>3 DEF UnlinkEvent
<1>22. QED
  BY <1>2, <1>3, <1>4, <1>5, <1>6, <1>7, <1>8, <1>9, <1>10, <1>11, <1>12, <1>13, <1>14, <1>15, <1>16, <1>17, <1>18, <1>19, <1>20, <1>21 DEF ProgramStep

(* Steps of delete. Whoever is in delete is past the first stretches.      *)
LEMMA DeleteIsLate ==
  ASSUME HandleInv, NEW i \in Invocations, NEW a \in Actors,
         del[i][a] \in InDelete
  PROVE  pc[i] \notin BeforeKiller
BY DEF HandleInv, KillerComesLater, InDelete

LEMMA DeleteKeepsHandle ==
  ASSUME HandleInv, NEW i \in Invocations, NEW a \in Actors, Delete(i, a)
  PROVE  HandleInv'
<1>1. TypeOK /\ TypeOK'
  BY DeleteTypes DEF HandleInv
<1>2. del[i][a] \in InDelete
  BY DEF Delete, CheckCreated, GetContainer, RemoveContainer, Removed, ClearId,
         DelAt, InDelete
<1>3. pc[i] \notin BeforeKiller
  BY <1>2, DeleteIsLate
(* An exception out of delete changes no container and gives up no id.     *)
<1>4. ASSUME NEW e \in Exceptions, DelThrow(i, a, e),
             UNCHANGED <<timer, handler, box, id, known>>
      PROVE  HandleInv'
  <2>1. /\ \A j \in Invocations : pc'[j] \in AfterThrow \/ pc'[j] = pc[j]
        /\ \A j \in Invocations, b \in Actors :
             \/ del'[j][b] = del[j][b]
             \/ del'[j][b] = "failed" /\ del[j][b] \in InDelete
    BY <1>1, <1>2, <1>4, DelThrowEffect
  <2>2. \A j \in Invocations : pc'[j] \in BeforeKiller => pc'[j] = pc[j]
    BY <2>1 DEF AfterThrow, BeforeKiller, BeforeKnown, BeforeCreate, BeforeStart
  <2>3. KillerComesLater'
    BY <1>4, <2>1, <2>2 DEF HandleInv, KillerComesLater, InDelete
  <2>4. BoxFollowsProgram'
    BY <1>4, <2>2
    DEF HandleInv, BoxFollowsProgram, BeforeKiller, BeforeKnown, BeforeCreate,
        BeforeStart
  <2>5. ClearsAfterRemoval' /\ HandleNotLost'
    BY <1>4, <2>1 DEF HandleInv, ClearsAfterRemoval, HandleNotLost
  <2>6. QED
    BY <1>1, <2>3, <2>4, <2>5 DEF HandleInv
(* Any other step moves only this actor, and the container of this call.   *)
<1>5. ASSUME NEW l \in DelPlaces, DelGoto(i, a, l),
             UNCHANGED <<pc, timer, handler, known>>,
             \A j \in Invocations : j # i => box'[j] = box[j] /\ id'[j] = id[j],
             box[i] \in {"removing", "gone"} => box'[i] \in {"removing", "gone"},
             l \in {"removing", "clear"} => box'[i] \in {"removing", "gone"},
             box'[i] \in Live /\ known[i] => id'[i]
      PROVE  HandleInv'
  <2>1. \A j \in Invocations, b \in Actors :
          IF j = i /\ b = a THEN del'[j][b] = l ELSE del'[j][b] = del[j][b]
    BY <1>1, <1>5, DelGotoEffect
  <2>2. KillerComesLater'
    BY <1>3, <1>5, <2>1 DEF HandleInv, KillerComesLater
  <2>3. BoxFollowsProgram'
    BY <1>3, <1>5
    DEF HandleInv, BoxFollowsProgram, BeforeKiller, BeforeKnown, BeforeCreate,
        BeforeStart
  <2>4. ClearsAfterRemoval'
    BY <1>5, <2>1 DEF HandleInv, ClearsAfterRemoval
  <2>5. HandleNotLost'
    BY <1>5 DEF HandleInv, HandleNotLost
  <2>6. QED
    BY <1>1, <2>2, <2>3, <2>4, <2>5 DEF HandleInv
<1> USE DEF files, docker, threads, world
<1>6. known[i] /\ box[i] \in Live => id[i]
  BY DEF HandleInv, HandleNotLost
<1>7. CASE CheckCreated(i, a)
  BY <1>5, <1>6, <1>7 DEF CheckCreated, DelPlaces, InDelete
<1>8. CASE GetContainer(i, a)
  <2>1. CASE DelGoto(i, a, IF box[i] = "gone" THEN "clear" ELSE "remove")
             /\ UNCHANGED pc
    BY <1>5, <1>6, <1>8, <2>1 DEF GetContainer, DelPlaces, InDelete
  <2>2. CASE \E e \in Exceptions : DelThrow(i, a, e)
    BY <1>4, <1>8, <2>2 DEF GetContainer
  <2>3. QED
    BY <1>8, <2>1, <2>2 DEF GetContainer, Exceptions
<1>9. CASE RemoveContainer(i, a)
  <2>1. CASE /\ box[i] \in Live /\ box' = [box EXCEPT ![i] = "removing"]
             /\ DelGoto(i, a, "removing") /\ UNCHANGED pc
    BY <1>1, <1>5, <1>9, <2>1
    DEF RemoveContainer, DelPlaces, InDelete, TypeOK, Live
  <2>2. CASE /\ box[i] \in {"removing", "gone"} /\ UNCHANGED <<box, pc>>
             /\ DelGoto(i, a, "clear")
    BY <1>5, <1>6, <1>9, <2>2 DEF RemoveContainer, DelPlaces, InDelete
  <2>3. CASE DelThrow(i, a, "APIError") /\ UNCHANGED box
    BY <1>4, <1>9, <2>3 DEF RemoveContainer, Exceptions
  <2>4. QED
    BY <1>9, <2>1, <2>2, <2>3 DEF RemoveContainer
<1>10. CASE Removed(i, a)
  BY <1>5, <1>6, <1>10 DEF Removed, DelPlaces, InDelete
<1>11. CASE ClearId(i, a)
  <2>1. box[i] \in {"removing", "gone"}
    BY <1>11 DEF ClearId, DelAt, HandleInv, ClearsAfterRemoval
  <2>2. QED
    BY <1>1, <1>5, <1>11, <2>1 DEF ClearId, DelPlaces, TypeOK, Live
<1>12. QED
  BY <1>7, <1>8, <1>9, <1>10, <1>11 DEF Delete

LEMMA OutsideKeepsHandle ==
  ASSUME HandleInv, NEW i \in Invocations, Outside(i)
  PROVE  HandleInv'
<1>1. TypeOK /\ TypeOK'
  BY OutsideTypes DEF HandleInv
<1> USE DEF files, docker, threads, world
<1>2. CASE TimerFires(i)
  <2>1. /\ del'[i]["killer"] = "check"
        /\ \A j \in Invocations, b \in Actors :
             j # i \/ b # "killer" => del'[j][b] = del[j][b]
    BY <1>1, <1>2, DelGotoEffect DEF TimerFires, Actors, DelPlaces, InDelete
  <2>2. pc[i] \notin BeforeKiller
    BY <1>2 DEF TimerFires, HandleInv, KillerComesLater
  <2>3. KillerComesLater'
    BY <1>1, <1>2, <2>1, <2>2 DEF TimerFires, HandleInv, KillerComesLater, TypeOK
  <2>4. BoxFollowsProgram' /\ HandleNotLost'
    BY <1>2 DEF TimerFires, HandleInv, BoxFollowsProgram, HandleNotLost
  <2>5. ClearsAfterRemoval'
    BY <1>2, <2>1 DEF TimerFires, HandleInv, ClearsAfterRemoval
  <2>6. QED
    BY <1>1, <2>3, <2>4, <2>5 DEF HandleInv
<1>3. CASE FunctionEnds(i)
  BY <1>1, <1>3
  DEF FunctionEnds, HandleInv, KillerComesLater, BoxFollowsProgram,
      ClearsAfterRemoval, HandleNotLost, TypeOK, Live
<1>4. CASE FunctionDeletesEvent(i)
  BY <1>1, <1>4
  DEF FunctionDeletesEvent, HandleInv, KillerComesLater, BoxFollowsProgram,
      ClearsAfterRemoval, HandleNotLost
<1>5. CASE RemovalEnds(i)
  BY <1>1, <1>5
  DEF RemovalEnds, HandleInv, KillerComesLater, BoxFollowsProgram,
      ClearsAfterRemoval, HandleNotLost, TypeOK, Live
<1>6. CASE CtrlC(i)
  <2>1. NeverBack
    BY <1>1, <1>6, ControlNeverBack DEF CtrlC, Throws, Exceptions
  <2>2. \A j \in Invocations, b \in Actors :
          \/ del'[j][b] = del[j][b]
          \/ del'[j][b] = "failed" /\ del[j][b] \in InDelete
    BY <1>1, <1>6 DEF CtrlC, TypeOK
  <2>3. UNCHANGED <<timer, handler, box, id, known>>
    BY <1>6 DEF CtrlC
  <2>4. KillerComesLater'
    BY <2>1, <2>2, <2>3
    DEF HandleInv, KillerComesLater, NeverBack, Stretches, InDelete
  <2>5. BoxFollowsProgram' /\ HandleNotLost'
    BY <2>1, <2>3
    DEF HandleInv, BoxFollowsProgram, HandleNotLost, NeverBack, Stretches
  <2>6. ClearsAfterRemoval'
    BY <2>2, <2>3 DEF HandleInv, ClearsAfterRemoval
  <2>7. QED
    BY <1>1, <2>4, <2>5, <2>6 DEF HandleInv
<1>7. QED
  BY <1>2, <1>3, <1>4, <1>5, <1>6 DEF Outside, DaemonStep

LEMMA SigtermKeepsHandle == HandleInv /\ Sigterm => HandleInv'
<1> SUFFICES ASSUME HandleInv, Sigterm PROVE HandleInv'
  OBVIOUS
<1>1. TypeOK /\ TypeOK' /\ UNCHANGED <<pc, timer, handler, box, id, known>>
  BY SigtermTypes DEF HandleInv, Sigterm, files, docker
<1>2. CASE UNCHANGED del
  BY <1>1, <1>2
  DEF HandleInv, KillerComesLater, BoxFollowsProgram, ClearsAfterRemoval,
      HandleNotLost
<1>3. CASE handler \in Invocations /\ DelGoto(handler, "killer", "check")
  <2>1. \A j \in Invocations, b \in Actors :
          \/ del'[j][b] = del[j][b]
          \/ j = handler /\ del'[j][b] = "check"
    BY <1>1, <1>3, DelGotoEffect DEF Actors, DelPlaces, InDelete
  <2>2. QED
    BY <1>1, <2>1
    DEF HandleInv, KillerComesLater, BoxFollowsProgram, ClearsAfterRemoval,
        HandleNotLost
<1>4. QED
  BY <1>1, <1>2, <1>3 DEF Sigterm, TypeOK

LEMMA HandleHoldsInitially == Init => HandleInv
<1> SUFFICES ASSUME Init PROVE HandleInv
  OBVIOUS
<1>1. TypeOK
  BY ConstantAssumption DEF Init, TypeOK
<1>2. KillerComesLater
  BY ConstantAssumption DEF Init, KillerComesLater
<1>3. BoxFollowsProgram /\ ClearsAfterRemoval /\ HandleNotLost
  BY DEF Init, BoxFollowsProgram, ClearsAfterRemoval, HandleNotLost, BeforeStart
<1>4. QED
  BY <1>1, <1>2, <1>3 DEF HandleInv

LEMMA HandleInvariant == Spec => []HandleInv
<1>1. Init => HandleInv
  BY HandleHoldsInitially
<1>2. HandleInv /\ [Next]_vars => HandleInv'
  <2>1. HandleInv /\ UNCHANGED vars => HandleInv'
    BY TypeCorrectStutter
    DEF vars, files, docker, threads, world, HandleInv, KillerComesLater,
        BoxFollowsProgram, ClearsAfterRemoval, HandleNotLost
  <2>2. QED
    BY <2>1, NextCases, ProgramKeepsHandle, OutsideKeepsHandle,
       DeleteKeepsHandle, SigtermKeepsHandle
<1>3. QED
  BY <1>1, <1>2, PTL DEF Spec

(* The handle on a container is given up only when the container is going  *)
(* or gone, however many calls, interrupts and failing requests there are. *)
THEOREM HandleIsNotLost == Spec => []HandleNotLost
BY HandleInvariant, PTL DEF HandleInv

-----------------------------------------------------------------------------
(* What the finally block achieves: the invariant behind ReturnsClean.     *)

(* The finally block of a call begins to stop its container only after it  *)
(* has deleted the event file, and only there is the call in delete.       *)
StopsAfterUnlink ==
  \A i \in Invocations :
    /\ del[i]["main"] \in InDelete => pc[i] = "stop"
    /\ pc[i] = "stop" => event[i] = "unlinked"

(* A delete that succeeded, whoever asked for it, left no live container.  *)
DeletedMeansDown ==
  \A i \in Invocations, a \in Actors :
    del[i][a] = "ok" => (known[i] => box[i] \notin Live)

(* A copy of a jar that stays behind belongs to a call that fails.         *)
LeakedMeansRaising ==
  \A i \in Invocations :
    code[i] = "leaked" => pc[i] \in {"leave", "raised"} /\ exc[i] # "none"

(* No exception is on its way only where the finally block went through.   *)
LeavesClean ==
  \A i \in Invocations :
    (pc[i] = "leave" /\ exc[i] = "none") \/ pc[i] = "returned" =>
      /\ known[i] => box[i] \notin Live
      /\ event[i] = "unlinked"

CleanInv ==
  /\ HandleInv
  /\ StopsAfterUnlink /\ DeletedMeansDown /\ LeakedMeansRaising /\ LeavesClean
  /\ ReturnsClean

(* Where an exception takes a call, and what it leaves in exc.             *)
LEMMA ThrowDestination ==
  ASSUME TypeOK, NEW i \in Invocations, NEW e \in Exceptions, Throw(i, e)
  PROVE  /\ pc[i] \in Running
         /\ pc[i] \in StartSteps \cup LogSteps => pc'[i] = FirstCleanup(i)
         /\ pc[i] \notin StartSteps \cup LogSteps => exc'[i] = e /\ e # "none"
         /\ pc[i] \in BeforeTry \cup Finally => pc'[i] = "leave"
         /\ pc[i] = "leave" => pc'[i] = "raised"
         /\ exc'[i] \in {"none", e}
         /\ \A j \in Invocations : j # i => pc'[j] = pc[j] /\ exc'[j] = exc[j]
<1>1. e # "none"
  BY DEF Exceptions
<1>2. QED
  BY <1>1
  DEF TypeOK, Throw, Goto, Running, BeforeTry, StartSteps, LogSteps, Finally,
      FirstCleanup

(* An exception that surfaces in a call keeps the invariant, whether it is *)
(* of its own step, of a delete, of a signal handler or a KeyboardInterrupt*)
(* provided it takes the call out of delete.                               *)
LEMMA ThrowKeepsClean ==
  ASSUME CleanInv, HandleInv', NEW i \in Invocations, Throws(i),
         UNCHANGED <<known, box>>,
         \A j \in Invocations : code'[j] = code[j] \/ (j = i /\ pc[i] = "codedir"),
         \A j \in Invocations : event'[j] = event[j] \/ (j = i /\ pc[i] = "event"),
         \A j \in Invocations, b \in Actors :
           del'[j][b] = del[j][b] \/ del'[j][b] = "failed",
         del'[i]["main"] \notin InDelete
  PROVE  CleanInv'
<1>1. PICK e \in Exceptions : Throw(i, e)
  BY DEF Throws
<1>2. TypeOK
  BY DEF CleanInv, HandleInv
<1>3. /\ pc'[i] \in {"cancel", "unlink", "leave", "raised"}
      /\ pc'[i] = "leave" => exc'[i] # "none"
      /\ code'[i] = "leaked" => pc'[i] \in {"leave", "raised"} /\ exc'[i] # "none"
      /\ \A j \in Invocations : j # i => pc'[j] = pc[j] /\ exc'[j] = exc[j]
  BY <1>1, <1>2, ThrowDestination
  DEF CleanInv, LeakedMeansRaising, Running, BeforeTry, StartSteps, LogSteps,
      Finally, FirstCleanup
<1>4. "main" \in Actors /\ "failed" \notin InDelete
  BY DEF Actors, InDelete
<1>5. StopsAfterUnlink'
  BY <1>3, <1>4 DEF CleanInv, StopsAfterUnlink
<1>6. DeletedMeansDown'
  BY DEF CleanInv, DeletedMeansDown
<1>7. LeakedMeansRaising'
  BY <1>3 DEF CleanInv, LeakedMeansRaising
<1>8. LeavesClean' /\ ReturnsClean'
  BY <1>3 DEF CleanInv, LeavesClean, ReturnsClean
<1>9. QED
  BY <1>5, <1>6, <1>7, <1>8 DEF CleanInv

(* So does a step of the program that goes on to a place before the last   *)
(* ones; only before the interrupt does it change its container.           *)
LEMMA GoesOnKeepsClean ==
  ASSUME CleanInv, HandleInv', NEW i \in Invocations, UNCHANGED <<exc, del>>,
         NEW l \in Places \ {"stop", "leave", "returned"}, Goto(i, l),
         pc[i] \notin {"stop", "leave", "raised"},
         \A j \in Invocations : code'[j] = code[j] \/ (j = i /\ code'[i] # "leaked"),
         \A j \in Invocations : event'[j] = event[j] \/ j = i,
         \A j \in Invocations :
           \/ box'[j] = box[j] /\ known'[j] = known[j]
           \/ j = i /\ pc[i] \in BeforeKiller
  PROVE  CleanInv'
<1>1. TypeOK
  BY DEF CleanInv, HandleInv
<1>2. pc'[i] = l /\ \A j \in Invocations : j # i => pc'[j] = pc[j]
  BY <1>1, GotoEffect DEF Places
<1>3. StopsAfterUnlink'
  BY <1>2 DEF CleanInv, StopsAfterUnlink
<1>4. DeletedMeansDown'
  BY DEF CleanInv, DeletedMeansDown, HandleInv, KillerComesLater
<1>5. LeakedMeansRaising'
  BY <1>2 DEF CleanInv, LeakedMeansRaising
<1>6. LeavesClean' /\ ReturnsClean'
  BY <1>2 DEF CleanInv, LeavesClean, ReturnsClean
<1>7. QED
  BY <1>3, <1>4, <1>5, <1>6 DEF CleanInv

LEMMA ProgramKeepsClean ==
  ASSUME CleanInv, NEW i \in Invocations, ProgramStep(i)
  PROVE  CleanInv'
<1>1. HandleInv /\ TypeOK
  BY DEF CleanInv, HandleInv
<1>2. HandleInv'
  BY <1>1, ProgramKeepsHandle
<1> USE DEF At, files, docker, threads, world
(* A step of these leaves files, container and actors alone.               *)
<1>3. ASSUME UNCHANGED <<files, docker, del>>, pc[i] \notin {"stop", "leave", "raised"},
             \/ Throws(i)
             \/ /\ UNCHANGED exc
                /\ \E l \in Places \ {"stop", "leave", "returned"} : Goto(i, l)
      PROVE  CleanInv'
  <2>1. del'[i]["main"] \notin InDelete
    BY <1>3 DEF CleanInv, StopsAfterUnlink
  <2>2. CASE Throws(i)
    BY <1>2, <1>3, <2>1, <2>2, ThrowKeepsClean
  <2>3. CASE /\ UNCHANGED exc
             /\ \E l \in Places \ {"stop", "leave", "returned"} : Goto(i, l)
    BY <1>2, <1>3, <2>3, GoesOnKeepsClean
  <2>4. QED
    BY <1>3, <2>2, <2>3
<1>4. CASE Invoke(i)
  BY <1>3, <1>4, PlaceNames DEF Invoke
<1>5. CASE NewContainer(i)
  BY <1>3, <1>5, PlaceNames DEF NewContainer, Throws, Fails, Exceptions
<1>6. CASE HasImage(i)
  BY <1>3, <1>6, PlaceNames DEF HasImage, Throws, Fails, Exceptions
<1>7. CASE PullImage(i)
  <2>1. CASE Goto(i, "create") /\ UNCHANGED exc
    BY <1>1, <1>2, <1>7, <2>1, PlaceNames, GoesOnKeepsClean DEF PullImage
  <2>2. CASE Throws(i) /\ UNCHANGED image
    BY <1>3, <1>7, <2>2 DEF PullImage
  <2>3. QED
    BY <1>7, <2>1, <2>2 DEF PullImage, Throws, Exceptions
<1>8. CASE ConnectNetwork(i)
  BY <1>3, <1>8, PlaceNames DEF ConnectNetwork, Throws, Fails, Exceptions
<1>9. CASE ConfigureInterrupt(i)
  BY <1>3, <1>9, PlaceNames DEF ConfigureInterrupt
<1>10. CASE AssignTimer(i)
  BY <1>3, <1>10, PlaceNames DEF AssignTimer
<1>11. CASE WaitForLogs(i)
  BY <1>3, <1>11, PlaceNames DEF WaitForLogs, Throws, Fails, Exceptions
<1>12. CASE InspectForLogs(i)
  BY <1>3, <1>12, PlaceNames DEF InspectForLogs, Throws, Fails, Exceptions
<1>13. CASE Attach(i)
  BY <1>3, <1>13, PlaceNames DEF Attach, Throws, Fails, Exceptions
<1>14. CASE ReadLogs(i)
  BY <1>3, <1>14, PlaceNames DEF ReadLogs, Throws, Fails, Exceptions, FirstCleanup
<1>15. CASE CancelTimer(i)
  BY <1>3, <1>15, PlaceNames DEF CancelTimer
<1>16. CASE GetCodeDir(i)
  <2>1. del[i]["main"] \notin InDelete
    BY <1>16 DEF GetCodeDir, CleanInv, StopsAfterUnlink
  <2>2. /\ pc[i] = "codedir" /\ UNCHANGED <<event, id, known, box, del>>
        /\ \A j \in Invocations : j # i => code'[j] = code[j]
    BY <1>1, <1>16 DEF GetCodeDir, TypeOK
  <2>3. CASE Throws(i)
    BY <1>2, <2>1, <2>2, <2>3, ThrowKeepsClean
  <2>4. CASE /\ Goto(i, "event") /\ UNCHANGED exc
             /\ UNCHANGED code \/ code' = [code EXCEPT ![i] = "copied"]
    <3>1. \A j \in Invocations : code'[j] = code[j] \/ (j = i /\ code'[i] # "leaked")
      BY <1>1, <2>4 DEF TypeOK
    <3>2. "event" \in Places \ {"stop", "leave", "returned"}
      BY PlaceNames
    <3>3. QED
      BY <1>2, <2>2, <2>4, <3>1, <3>2, GoesOnKeepsClean
  <2>5. QED
    BY <1>16, <2>3, <2>4 DEF GetCodeDir, Throws, Fails, Exceptions
<1>17. CASE CreateTmpEventFile(i)
  <2>1. del[i]["main"] \notin InDelete
    BY <1>17 DEF CreateTmpEventFile, CleanInv, StopsAfterUnlink
  <2>2. /\ pc[i] = "event" /\ UNCHANGED <<code, id, known, box, del>>
        /\ \A j \in Invocations : j # i => event'[j] = event[j]
    BY <1>1, <1>17 DEF CreateTmpEventFile, TypeOK
  <2>3. CASE Throws(i)
    BY <1>2, <2>1, <2>2, <2>3, ThrowKeepsClean
  <2>4. CASE Goto(i, "new") /\ UNCHANGED exc
    <3>1. "new" \in Places \ {"stop", "leave", "returned"}
      BY PlaceNames
    <3>2. QED
      BY <1>2, <2>2, <2>4, <3>1, GoesOnKeepsClean
  <2>5. QED
    BY <1>17, <2>3, <2>4 DEF CreateTmpEventFile, Throws, Fails, Exceptions
<1>18. CASE Create(i)
  <2>1. CASE Throws(i) /\ UNCHANGED box
    BY <1>3, <1>18, <2>1 DEF Create
  <2>2. CASE Goto(i, "assign") /\ UNCHANGED exc /\ box' = [box EXCEPT ![i] = "created"]
    <3>1. /\ pc[i] = "create" /\ UNCHANGED <<code, event, known, del>>
          /\ \A j \in Invocations : j # i => box'[j] = box[j]
      BY <1>1, <1>18, <2>2 DEF Create, TypeOK
    <3>2. "assign" \in Places \ {"stop", "leave", "returned"} /\ pc[i] \in BeforeKiller
      BY <3>1, PlaceNames DEF BeforeKiller, BeforeKnown, BeforeCreate
    <3>3. QED
      BY <1>2, <2>2, <3>1, <3>2, GoesOnKeepsClean
  <2>3. QED
    BY <1>18, <2>1, <2>2 DEF Create, Throws, Fails, Exceptions
<1>19. CASE AssignId(i)
  <2>1. CASE Throws(i) /\ UNCHANGED <<id, known>>
    BY <1>3, <1>19, <2>1 DEF AssignId
  <2>2. CASE /\ \E l \in {"network", "start"} : Goto(i, l)
             /\ UNCHANGED exc /\ known' = [known EXCEPT ![i] = TRUE]
    <3>1. PICK l \in {"network", "start"} : Goto(i, l)
      BY <2>2
    <3>2. /\ pc[i] = "assign" /\ UNCHANGED <<code, event, box, del>>
          /\ \A j \in Invocations : j # i => known'[j] = known[j]
      BY <1>1, <1>19, <2>2 DEF AssignId, TypeOK
    <3>3. l \in Places \ {"stop", "leave", "returned"} /\ pc[i] \in BeforeKiller
      BY <3>2, PlaceNames DEF BeforeKiller, BeforeKnown
    <3>4. QED
      BY <1>2, <2>2, <3>1, <3>2, <3>3, GoesOnKeepsClean
  <2>3. QED
    BY <1>19, <2>1, <2>2 DEF AssignId, Throws, Fails, Exceptions
<1>20. CASE Start(i)
  <2>1. CASE Throws(i) /\ UNCHANGED box
    BY <1>3, <1>20, <2>1 DEF Start
  <2>2. CASE /\ Goto(i, "configure") /\ UNCHANGED exc
             /\ box' = [box EXCEPT ![i] = "running"]
    <3>1. /\ pc[i] = "start" /\ UNCHANGED <<code, event, known, del>>
          /\ \A j \in Invocations : j # i => box'[j] = box[j]
      BY <1>1, <1>20, <2>2 DEF Start, TypeOK
    <3>2. "configure" \in Places \ {"stop", "leave", "returned"} /\ pc[i] \in BeforeKiller
      BY <3>1, PlaceNames DEF BeforeKiller, BeforeStart
    <3>3. QED
      BY <1>2, <2>2, <3>1, <3>2, GoesOnKeepsClean
  <2>3. QED
    BY <1>20, <2>1, <2>2 DEF Start, Throws, Fails, Exceptions
<1>21. CASE UnlinkEvent(i)
  <2>1. CASE Throws(i) /\ UNCHANGED <<event, del>>
    BY <1>3, <1>21, <2>1 DEF UnlinkEvent
  <2>2. CASE /\ Goto(i, "stop") /\ UNCHANGED exc
             /\ event' = [event EXCEPT ![i] = "unlinked"]
             /\ DelGoto(i, "main", "check")
    <3>1. /\ pc'[i] = "stop" /\ event'[i] = "unlinked" /\ pc[i] = "unlink"
          /\ \A j \in Invocations : j # i => pc'[j] = pc[j] /\ event'[j] = event[j]
          /\ UNCHANGED <<code, known, box>>
      BY <1>1, <1>21, <2>2 DEF UnlinkEvent, Goto, TypeOK
    <3>2. \A j \in Invocations, b \in Actors :
            del'[j][b] = del[j][b] \/ (j = i /\ del'[j][b] = "check")
      BY <1>1, <2>2, DelGotoEffect DEF Actors, DelPlaces, InDelete
    <3>3. StopsAfterUnlink' /\ LeakedMeansRaising'
      BY <2>2, <3>1, <3>2 DEF CleanInv, StopsAfterUnlink, LeakedMeansRaising, Actors
    <3>4. DeletedMeansDown'
      BY <3>1, <3>2 DEF CleanInv, DeletedMeansDown
    <3>5. LeavesClean' /\ ReturnsClean'
      BY <2>2, <3>1 DEF CleanInv, LeavesClean, ReturnsClean
    <3>6. QED
      BY <1>2, <3>3, <3>4, <3>5 DEF CleanInv
  <2>3. QED
    BY <1>21, <2>1, <2>2 DEF UnlinkEvent, Throws, Exceptions
<1>22. CASE Stopped(i)
  <2>1. /\ pc[i] = "stop" /\ del[i]["main"] = "ok" /\ pc'[i] = "leave"
        /\ \A j \in Invocations : j # i => pc'[j] = pc[j]
        /\ UNCHANGED <<exc, code, event, known, box, del>>
    BY <1>1, <1>22 DEF Stopped, Goto, TypeOK
  <2>2. (known[i] => box[i] \notin Live) /\ event[i] = "unlinked"
    BY <2>1 DEF CleanInv, DeletedMeansDown, StopsAfterUnlink, Actors
  <2>3. StopsAfterUnlink' /\ DeletedMeansDown'
    BY <2>1 DEF CleanInv, StopsAfterUnlink, DeletedMeansDown, InDelete
  <2>4. LeakedMeansRaising' /\ LeavesClean' /\ ReturnsClean'
    BY <2>1, <2>2 DEF CleanInv, LeakedMeansRaising, LeavesClean, ReturnsClean
  <2>5. QED
    BY <1>2, <2>3, <2>4 DEF CleanInv
<1>23. CASE Leave(i)
  <2>1. CASE /\ code' = [code EXCEPT ![i] = IF @ = "copied" THEN "removed" ELSE @]
             /\ Goto(i, IF exc[i] = "none" THEN "returned" ELSE "raised")
             /\ UNCHANGED exc
    <3>1. /\ pc[i] = "leave" /\ pc'[i] = IF exc[i] = "none" THEN "returned" ELSE "raised"
          /\ code'[i] = IF code[i] = "copied" THEN "removed" ELSE code[i]
          /\ \A j \in Invocations : j # i => pc'[j] = pc[j] /\ code'[j] = code[j]
          /\ UNCHANGED <<exc, event, known, box, del>>
      BY <1>1, <1>23, <2>1 DEF Leave, Goto, TypeOK
    <3>2. StopsAfterUnlink' /\ DeletedMeansDown'
      BY <3>1 DEF CleanInv, StopsAfterUnlink, DeletedMeansDown
    <3>3. LeakedMeansRaising' /\ LeavesClean'
      BY <3>1 DEF CleanInv, LeakedMeansRaising, LeavesClean
    <3>4. code[i] # "leaked" /\ code[i] # "copied" => code[i] \in {"none", "removed"}
      BY <1>1 DEF TypeOK
    <3>5. ReturnsClean'
      BY <3>1, <3>4 DEF CleanInv, LeakedMeansRaising, LeavesClean, ReturnsClean
    <3>6. QED
      BY <1>2, <3>2, <3>3, <3>5 DEF CleanInv
  <2>2. CASE Throw(i, "OSError") /\ code' = [code EXCEPT ![i] = "leaked"]
    <3>1. /\ pc[i] = "leave" /\ pc'[i] = "raised" /\ exc'[i] = "OSError"
          /\ \A j \in Invocations : j # i => pc'[j] = pc[j] /\ exc'[j] = exc[j]
      BY <1>1, <1>23, <2>2, ThrowDestination
      DEF Leave, Exceptions, StartSteps, LogSteps
    <3>2. /\ \A j \in Invocations : j # i => code'[j] = code[j]
          /\ UNCHANGED <<event, known, box, del>>
      BY <1>1, <1>23, <2>2 DEF Leave, TypeOK
    <3>3. StopsAfterUnlink' /\ DeletedMeansDown'
      BY <3>1, <3>2 DEF CleanInv, StopsAfterUnlink, DeletedMeansDown
    <3>4. LeakedMeansRaising' /\ LeavesClean' /\ ReturnsClean'
      BY <3>1, <3>2 DEF CleanInv, LeakedMeansRaising, LeavesClean, ReturnsClean
    <3>5. QED
      BY <1>2, <3>3, <3>4 DEF CleanInv
  <2>3. QED
    BY <1>23, <2>1, <2>2 DEF Leave, Fails
<1>24. QED
  BY <1>4, <1>5, <1>6, <1>7, <1>8, <1>9, <1>10, <1>11, <1>12, <1>13, <1>14, <1>15, <1>16, <1>17, <1>18, <1>19, <1>20, <1>21, <1>22, <1>23 DEF ProgramStep

(* Steps of delete: an exception surfaces in a call, or only the actor and *)
(* its container change.                                                   *)
LEMMA DeleteKeepsClean ==
  ASSUME CleanInv, NEW i \in Invocations, NEW a \in Actors, Delete(i, a)
  PROVE  CleanInv'
<1>1. HandleInv /\ TypeOK
  BY DEF CleanInv, HandleInv
<1>2. HandleInv'
  BY <1>1, DeleteKeepsHandle
<1>3. del[i][a] \in InDelete
  BY DEF Delete, CheckCreated, GetContainer, RemoveContainer, Removed, ClearId,
         DelAt, InDelete
<1>4. ASSUME NEW e \in Exceptions, DelThrow(i, a, e),
             UNCHANGED <<files, known, box>>
      PROVE  CleanInv'
  <2>1. \A j \in Invocations, b \in Actors :
          \/ del'[j][b] = del[j][b]
          \/ del'[j][b] = "failed" /\ del[j][b] \in InDelete
    BY <1>1, <1>3, <1>4, DelThrowEffect
  <2>2. ASSUME NEW j \in Invocations, Throw(j, e), del'[j]["main"] \notin InDelete
        PROVE  CleanInv'
    BY <1>2, <1>4, <2>1, <2>2, ThrowKeepsClean DEF Throws, files
  <2>3. ASSUME UNCHANGED <<pc, exc>>
        PROVE  CleanInv'
    <3>1. StopsAfterUnlink' /\ DeletedMeansDown'
      BY <1>4, <2>1, <2>3
      DEF CleanInv, StopsAfterUnlink, DeletedMeansDown, files, InDelete, Actors
    <3>2. LeakedMeansRaising' /\ LeavesClean' /\ ReturnsClean'
      BY <1>4, <2>3 DEF CleanInv, LeakedMeansRaising, LeavesClean, ReturnsClean, files
    <3>3. QED
      BY <1>2, <3>1, <3>2 DEF CleanInv
  <2>4. CASE a = "main" /\ Throw(i, e) /\ DelGoto(i, a, "failed")
    <3>1. del'[i]["main"] \notin InDelete
      BY <1>1, <2>4, DelGotoEffect DEF DelPlaces, InDelete
    <3>2. QED
      BY <2>2, <2>4, <3>1
  <2>5. ASSUME NEW j \in MainThread, Throw(j, e),
               del' = [[del EXCEPT ![i][a] = "failed"]
                         EXCEPT ![j]["main"] = IF @ \in InDelete THEN "failed" ELSE @]
        PROVE  CleanInv'
    <3>1. j \in Invocations
      BY ConstantAssumption
    <3>2. del'[j]["main"] \notin InDelete
      BY <1>1, <2>5, <3>1 DEF TypeOK, Actors, InDelete
    <3>3. QED
      BY <2>2, <2>5, <3>1, <3>2
  <2>6. QED
    BY <1>4, <2>3, <2>4, <2>5 DEF DelThrow
<1>5. ASSUME NEW l \in DelPlaces, DelGoto(i, a, l),
             UNCHANGED <<pc, exc, files, known>>,
             \A j \in Invocations : box'[j] \in Live => box[j] \in Live,
             l = "ok" => (known[i] => box'[i] \notin Live)
      PROVE  CleanInv'
  <2>1. \A j \in Invocations, b \in Actors :
          IF j = i /\ b = a THEN del'[j][b] = l ELSE del'[j][b] = del[j][b]
    BY <1>1, <1>5, DelGotoEffect
  <2>2. StopsAfterUnlink'
    BY <1>3, <1>5, <2>1 DEF CleanInv, StopsAfterUnlink, files, Actors
  <2>3. DeletedMeansDown'
    BY <1>5, <2>1 DEF CleanInv, DeletedMeansDown
  <2>4. LeakedMeansRaising' /\ LeavesClean' /\ ReturnsClean'
    BY <1>5 DEF CleanInv, LeakedMeansRaising, LeavesClean, ReturnsClean, files
  <2>5. QED
    BY <1>2, <2>2, <2>3, <2>4 DEF CleanInv
<1> USE DEF docker, threads, world
<1>6. CASE CheckCreated(i, a)
  <2>1. ~id[i] => (known[i] => box[i] \notin Live)
    BY <1>1 DEF HandleInv, HandleNotLost
  <2>2. QED
    BY <1>5, <1>6, <2>1 DEF CheckCreated, DelPlaces, InDelete
<1>7. CASE GetContainer(i, a)
  <2>1. CASE DelGoto(i, a, IF box[i] = "gone" THEN "clear" ELSE "remove")
             /\ UNCHANGED <<pc, exc>>
    BY <1>5, <1>7, <2>1 DEF GetContainer, DelPlaces, InDelete
  <2>2. CASE \E e \in Exceptions : DelThrow(i, a, e)
    BY <1>4, <1>7, <2>2 DEF GetContainer
  <2>3. QED
    BY <1>7, <2>1, <2>2 DEF GetContainer, Exceptions
<1>8. CASE RemoveContainer(i, a)
  <2>1. CASE /\ box' = [box EXCEPT ![i] = "removing"]
             /\ DelGoto(i, a, "removing") /\ UNCHANGED <<pc, exc>>
    BY <1>1, <1>5, <1>8, <2>1 DEF RemoveContainer, DelPlaces, InDelete, TypeOK, Live
  <2>2. CASE UNCHANGED <<box, pc, exc>> /\ DelGoto(i, a, "clear")
    BY <1>5, <1>8, <2>2 DEF RemoveContainer, DelPlaces, InDelete
  <2>3. CASE DelThrow(i, a, "APIError") /\ UNCHANGED box
    BY <1>4, <1>8, <2>3 DEF RemoveContainer, Exceptions
  <2>4. QED
    BY <1>8, <2>1, <2>2, <2>3 DEF RemoveContainer
<1>9. CASE Removed(i, a)
  BY <1>5, <1>9 DEF Removed, DelPlaces, InDelete
<1>10. CASE ClearId(i, a)
  <2>1. box[i] \notin Live
    BY <1>1, <1>10 DEF ClearId, DelAt, HandleInv, ClearsAfterRemoval, Live
  <2>2. QED
    BY <1>5, <1>10, <2>1 DEF ClearId, DelPlaces
<1>11. QED
  BY <1>6, <1>7, <1>8, <1>9, <1>10 DEF Delete

LEMMA OutsideKeepsClean ==
  ASSUME CleanInv, NEW i \in Invocations, Outside(i)
  PROVE  CleanInv'
<1>1. HandleInv /\ TypeOK
  BY DEF CleanInv, HandleInv
<1>2. HandleInv'
  BY <1>1, OutsideKeepsHandle
<1> USE DEF files, docker, threads, world
<1>3. CASE TimerFires(i)
  <2>1. \A j \in Invocations, b \in Actors :
          \/ del'[j][b] = del[j][b]
          \/ b = "killer" /\ del'[j][b] = "check"
    BY <1>1, <1>3, DelGotoEffect DEF TimerFires, Actors, DelPlaces, InDelete
  <2>2. StopsAfterUnlink' /\ DeletedMeansDown'
    BY <1>3, <2>1 DEF TimerFires, CleanInv, StopsAfterUnlink, DeletedMeansDown, Actors
  <2>3. LeakedMeansRaising' /\ LeavesClean' /\ ReturnsClean'
    BY <1>3 DEF TimerFires, CleanInv, LeakedMeansRaising, LeavesClean, ReturnsClean
  <2>4. QED
    BY <1>2, <2>2, <2>3 DEF CleanInv
<1>4. CASE FunctionEnds(i) \/ RemovalEnds(i)
  <2>1. \A j \in Invocations : box'[j] \in Live => box[j] \in Live
    BY <1>1, <1>4 DEF FunctionEnds, RemovalEnds, TypeOK, Live
  <2>2. UNCHANGED <<pc, exc, code, event, known, del>>
    BY <1>4 DEF FunctionEnds, RemovalEnds
  <2>3. QED
    BY <1>2, <2>1, <2>2
    DEF CleanInv, StopsAfterUnlink, DeletedMeansDown, LeakedMeansRaising,
        LeavesClean, ReturnsClean
<1>5. CASE FunctionDeletesEvent(i)
  <2>1. /\ event[i] = "file" /\ UNCHANGED <<pc, exc, code, box, known, del>>
        /\ \A j \in Invocations : j # i => event'[j] = event[j]
    BY <1>1, <1>5 DEF FunctionDeletesEvent, TypeOK
  <2>2. QED
    BY <1>2, <2>1
    DEF CleanInv, StopsAfterUnlink, DeletedMeansDown, LeakedMeansRaising,
        LeavesClean, ReturnsClean
<1>6. CASE CtrlC(i)
  <2>1. /\ \A j \in Invocations, b \in Actors :
             del'[j][b] = del[j][b] \/ del'[j][b] = "failed"
        /\ del'[i]["main"] \notin InDelete
    BY <1>1, <1>6 DEF CtrlC, TypeOK, Actors, InDelete
  <2>2. Throws(i) /\ UNCHANGED <<code, event, known, box>>
    BY <1>6 DEF CtrlC, Throws, Exceptions
  <2>3. QED
    BY <1>2, <2>1, <2>2, ThrowKeepsClean
<1>7. QED
  BY <1>3, <1>4, <1>5, <1>6 DEF Outside, DaemonStep

LEMMA SigtermKeepsClean == CleanInv /\ Sigterm => CleanInv'
<1> SUFFICES ASSUME CleanInv, Sigterm PROVE CleanInv'
  OBVIOUS
<1>1. HandleInv /\ TypeOK /\ HandleInv'
  BY SigtermKeepsHandle DEF CleanInv, HandleInv
<1>2. UNCHANGED <<pc, exc, code, event, known, box>>
  BY DEF Sigterm, files, docker
<1>3. \A j \in Invocations, b \in Actors :
        del'[j][b] = del[j][b] \/ (b = "killer" /\ del'[j][b] = "check")
  <2>1. CASE handler \in Invocations /\ DelGoto(handler, "killer", "check")
    BY <1>1, <2>1, DelGotoEffect DEF Actors, DelPlaces, InDelete
  <2>2. CASE UNCHANGED del
    BY <2>2
  <2>3. QED
    BY <1>1, <2>1, <2>2 DEF Sigterm, TypeOK
<1>4. StopsAfterUnlink' /\ DeletedMeansDown'
  BY <1>2, <1>3 DEF CleanInv, StopsAfterUnlink, DeletedMeansDown, Actors
<1>5. LeakedMeansRaising' /\ LeavesClean' /\ ReturnsClean'
  BY <1>2 DEF CleanInv, LeakedMeansRaising, LeavesClean, ReturnsClean
<1>6. QED
  BY <1>1, <1>4, <1>5 DEF CleanInv

LEMMA CleanStutter == CleanInv /\ UNCHANGED vars => CleanInv'
BY TypeCorrectStutter
DEF vars, files, docker, threads, world, CleanInv, HandleInv, KillerComesLater,
    BoxFollowsProgram, ClearsAfterRemoval, HandleNotLost, StopsAfterUnlink,
    DeletedMeansDown, LeakedMeansRaising, LeavesClean, ReturnsClean

LEMMA CleanInvariant == Spec => []CleanInv
<1>1. Init => CleanInv
  <2> SUFFICES ASSUME Init PROVE CleanInv
    OBVIOUS
  <2>1. HandleInv
    BY HandleHoldsInitially
  <2>2. StopsAfterUnlink /\ DeletedMeansDown
    BY DEF Init, StopsAfterUnlink, DeletedMeansDown, InDelete, Actors
  <2>3. LeakedMeansRaising /\ LeavesClean /\ ReturnsClean
    BY DEF Init, LeakedMeansRaising, LeavesClean, ReturnsClean
  <2>4. QED
    BY <2>1, <2>2, <2>3 DEF CleanInv
<1>2. CleanInv /\ [Next]_vars => CleanInv'
  BY CleanStutter, NextCases, ProgramKeepsClean, OutsideKeepsClean,
     DeleteKeepsClean, SigtermKeepsClean
<1>3. QED
  BY <1>1, <1>2, PTL DEF Spec

(* A call that returns normally has left nothing behind, in every process, *)
(* whatever failed in it, and whoever interrupted it how often.            *)
THEOREM NothingLeftBehind == Spec => []ReturnsClean
BY CleanInvariant, PTL DEF CleanInv

-----------------------------------------------------------------------------
(* The timer of a call on a server's thread.                               *)

AfterTimer == {"unlink", "stop", "leave"} \cup Ended

(* Such a call disarms its timer before it deletes its event file.         *)
TimerBeforeUnlink ==
  \A i \in Invocations \ MainThread : pc[i] \in AfterTimer => timer[i] # "armed"

TimerInv == CleanInv /\ TimerBeforeUnlink

LEMMA ServersRun ==
  ASSUME TypeOK, NEW i \in Invocations \ MainThread PROVE mode = "run"
BY ConstantAssumption DEF TypeOK

(* A step that goes on to a place past the timer must find it disarmed.    *)
LEMMA GoesOnKeepsTimer ==
  ASSUME TimerInv, NEW i \in Invocations, NEW l \in Places, Goto(i, l),
         \A j \in Invocations : j # i => timer'[j] = timer[j],
         i \notin MainThread /\ l \in AfterTimer => timer'[i] # "armed"
  PROVE  TimerBeforeUnlink'
<1>1. pc' = [pc EXCEPT ![i] = l] /\ pc \in [Invocations -> Places]
  BY GotoEffect DEF TimerInv, CleanInv, HandleInv, TypeOK, Places
<1>2. QED
  BY <1>1 DEF TimerInv, TimerBeforeUnlink

(* An exception does no harm either, but between the timer's start and its *)
(* assignment, or in its cancelling, where only Ctrl+C can raise one.      *)
LEMMA ThrowKeepsTimer ==
  ASSUME TimerInv, NEW i \in Invocations, Throws(i), UNCHANGED timer,
         i \in MainThread \/ pc[i] \notin {"assignTimer", "cancel"}
  PROVE  TimerBeforeUnlink'
<1>1. TypeOK /\ KillerComesLater
  BY DEF TimerInv, CleanInv, HandleInv
<1>2. PICK e \in Exceptions : Throw(i, e)
  BY DEF Throws
<1>3. \A j \in Invocations : j # i => pc'[j] = pc[j]
  BY <1>1, <1>2, ThrowDestination
<1>4. ASSUME i \notin MainThread, pc'[i] \in AfterTimer
      PROVE  timer[i] # "armed"
  <2>1. CASE pc[i] \in BeforeKiller
    BY <1>1, <2>1 DEF KillerComesLater
  <2>2. CASE pc[i] \in LogSteps
    <3>1. pc'[i] = "cancel"
      BY <1>1, <1>2, <1>4, <2>2, ThrowDestination, ServersRun DEF FirstCleanup
    <3>2. QED
      BY <1>4, <3>1 DEF AfterTimer, Ended
  <2>3. CASE pc[i] \in {"unlink", "stop", "leave"}
    BY <1>4, <2>3 DEF TimerInv, TimerBeforeUnlink, AfterTimer
  <2>4. pc[i] \in Running
    BY <1>1, <1>2, ThrowDestination
  <2>5. QED
    BY <1>4, <2>1, <2>2, <2>3, <2>4
    DEF Running, BeforeTry, StartSteps, Finally, BeforeKiller, BeforeKnown,
        BeforeCreate, BeforeStart
<1>5. QED
  BY <1>3, <1>4 DEF TimerInv, TimerBeforeUnlink

LEMMA ProgramKeepsTimer ==
  ASSUME TimerInv, NEW i \in Invocations, ProgramStep(i)
  PROVE  TimerBeforeUnlink'
<1>1. TypeOK /\ pc[i] \in Places
  BY DEF TimerInv, CleanInv, HandleInv, TypeOK, Places
<1> USE DEF At, files, docker, threads, world
<1>2. pc[i] \in AfterTimer /\ i \notin MainThread => timer[i] # "armed"
  BY DEF TimerInv, TimerBeforeUnlink
(* The steps that leave the timer alone.                                   *)
<1>3. ASSUME UNCHANGED timer,
             \/ Throws(i) /\ pc[i] \notin {"assignTimer", "cancel"}
             \/ \E l \in Places :
                  Goto(i, l) /\ (l \in AfterTimer => i \in MainThread \/ pc[i] \in AfterTimer)
      PROVE  TimerBeforeUnlink'
  BY <1>2, <1>3, GoesOnKeepsTimer, ThrowKeepsTimer
<1>4. CASE Invoke(i) \/ GetCodeDir(i) \/ CreateTmpEventFile(i) \/ NewContainer(i)
  BY <1>3, <1>4, PlaceNames
  DEF Invoke, GetCodeDir, CreateTmpEventFile, NewContainer, Throws, Fails,
      Exceptions, AfterTimer, Ended
<1>5. CASE HasImage(i) \/ PullImage(i) \/ Create(i) \/ AssignId(i)
  BY <1>3, <1>5, PlaceNames
  DEF HasImage, PullImage, Create, AssignId, Throws, Fails, Exceptions, AfterTimer, Ended
<1>6. CASE ConnectNetwork(i) \/ Start(i) \/ AssignTimer(i)
  BY <1>3, <1>6, PlaceNames
  DEF ConnectNetwork, Start, AssignTimer, Throws, Fails, Exceptions, AfterTimer, Ended
<1>7. CASE WaitForLogs(i) \/ InspectForLogs(i) \/ Attach(i)
  BY <1>3, <1>7, PlaceNames
  DEF WaitForLogs, InspectForLogs, Attach, Throws, Fails, Exceptions, AfterTimer, Ended
<1>8. CASE ReadLogs(i)
  <2>1. i \notin MainThread /\ pc[i] = "read" => FirstCleanup(i) = "cancel"
    BY <1>1, ServersRun DEF FirstCleanup, LogSteps
  <2>2. "cancel" \notin AfterTimer
    BY DEF AfterTimer, Ended
  <2>3. FirstCleanup(i) \in Places
    BY PlaceNames DEF FirstCleanup
  <2>4. QED
    BY <1>3, <1>8, <2>1, <2>2, <2>3 DEF ReadLogs, Throws, Fails, Exceptions
<1>9. CASE ConfigureInterrupt(i)
  <2>1. \E l \in {"assignTimer", "wait"} : Goto(i, l)
    BY <1>9 DEF ConfigureInterrupt
  <2>2. \A j \in Invocations : j # i => timer'[j] = timer[j]
    BY <1>1, <1>9 DEF ConfigureInterrupt, TypeOK
  <2>3. QED
    BY <2>1, <2>2, PlaceNames, GoesOnKeepsTimer DEF AfterTimer, Ended
<1>10. CASE CancelTimer(i)
  <2>1. timer'[i] # "armed" /\ \A j \in Invocations : j # i => timer'[j] = timer[j]
    BY <1>1, <1>10 DEF CancelTimer, TypeOK
  <2>2. QED
    BY <1>10, <2>1, PlaceNames, GoesOnKeepsTimer DEF CancelTimer
<1>11. CASE UnlinkEvent(i) \/ Stopped(i) \/ Leave(i)
  BY <1>3, <1>11, PlaceNames
  DEF UnlinkEvent, Stopped, Leave, Throws, Fails, Exceptions, AfterTimer
<1>12. QED
  BY <1>4, <1>5, <1>6, <1>7, <1>8, <1>9, <1>10, <1>11 DEF ProgramStep

(* An exception out of delete surfaces in the call that stops its own      *)
(* container, or in one of the main thread.                                *)
LEMMA DelThrowKeepsTimer ==
  ASSUME TimerInv, NEW i \in Invocations, NEW a \in Actors, NEW e \in Exceptions,
         del[i][a] \in InDelete, DelThrow(i, a, e), UNCHANGED timer
  PROVE  TimerBeforeUnlink'
<1>1. MainThread \subseteq Invocations
  BY ConstantAssumption
<1>2. CASE a = "main" /\ Throw(i, e)
  <2>1. pc[i] = "stop"
    BY <1>2 DEF TimerInv, CleanInv, StopsAfterUnlink
  <2>2. QED
    BY <1>2, <2>1, ThrowKeepsTimer DEF Throws
<1>3. CASE \E j \in MainThread : Throw(j, e)
  BY <1>1, <1>3, ThrowKeepsTimer DEF Throws
<1>4. CASE UNCHANGED pc
  BY <1>4 DEF TimerInv, TimerBeforeUnlink
<1>5. QED
  BY <1>2, <1>3, <1>4 DEF DelThrow

LEMMA OtherStepsKeepTimer ==
  ASSUME TimerInv, NEW i \in Invocations,
         Outside(i) \/ \E a \in Actors : Delete(i, a)
  PROVE  TimerBeforeUnlink'
<1>1. TypeOK
  BY DEF TimerInv, CleanInv, HandleInv
<1> USE DEF files, docker, threads, world
<1>2. CASE UNCHANGED <<pc, timer>>
  BY <1>2 DEF TimerInv, TimerBeforeUnlink
<1>3. CASE TimerFires(i)
  BY <1>1, <1>3 DEF TimerFires, TimerInv, TimerBeforeUnlink, TypeOK
<1>4. CASE CtrlC(i)
  BY <1>4, ThrowKeepsTimer DEF CtrlC, Throws, Exceptions
<1>5. ASSUME NEW a \in Actors, Delete(i, a)
      PROVE  TimerBeforeUnlink'
  <2>1. UNCHANGED timer /\ del[i][a] \in InDelete
    BY <1>5
    DEF Delete, CheckCreated, GetContainer, RemoveContainer, Removed, ClearId,
        DelAt, InDelete
  <2>2. UNCHANGED pc \/ \E e \in Exceptions : DelThrow(i, a, e)
    BY <1>5
    DEF Delete, CheckCreated, GetContainer, RemoveContainer, Removed, ClearId, Exceptions
  <2>3. QED
    BY <1>2, <2>1, <2>2, DelThrowKeepsTimer
<1>6. QED
  BY <1>2, <1>3, <1>4, <1>5
  DEF Outside, DaemonStep, FunctionEnds, FunctionDeletesEvent, RemovalEnds

LEMMA TimerInvariant == Spec => []TimerInv
<1>1. Init => TimerBeforeUnlink
  BY DEF Init, TimerBeforeUnlink
<1>2. TimerInv /\ CleanInv' /\ [Next]_vars => TimerInv'
  <2>1. TimerInv /\ (Sigterm \/ UNCHANGED vars) => TimerBeforeUnlink'
    BY DEF Sigterm, vars, threads, TimerInv, TimerBeforeUnlink
  <2>2. QED
    BY <2>1, NextCases, ProgramKeepsTimer, OtherStepsKeepTimer DEF TimerInv
<1>3. QED
  BY <1>1, <1>2, CleanInvariant, PTL DEF Spec, TimerInv

(* No request of a server leaves a timer behind that goes off later, with  *)
(* any number of requests at once and any failures.                        *)
THEOREM TimersSettle == Spec => []TimerSettled
<1>1. TimerInv => TimerSettled
  BY DEF TimerInv, TimerBeforeUnlink, TimerSettled, AfterTimer
<1>2. QED
  BY <1>1, TimerInvariant, PTL

-----------------------------------------------------------------------------
(* A leak needs a clean-up that failed.                                    *)

InTry == Running \ {"leave"}

(* Where a step of the program leaves the finally block or the try.        *)
LEMMA ProgramLeaves ==
  ASSUME TypeOK, NEW i \in Invocations, ProgramStep(i)
  PROVE  /\ \A j \in Invocations : j # i => pc'[j] = pc[j]
         /\ pc[i] \in InTry /\ pc'[i] \notin InTry =>
              \/ pc[i] \in BeforeTry
              \/ event[i] = "lost"
              \/ del[i]["main"] = "ok" /\ UNCHANGED box
<1> USE DEF At, files, docker, threads, world
<1>1. ASSUME Throws(i)
      PROVE  /\ \A j \in Invocations : j # i => pc'[j] = pc[j]
             /\ pc[i] \in StartSteps \cup LogSteps => pc'[i] \in InTry
  <2>1. PICK e \in Exceptions : Throw(i, e)
    BY <1>1 DEF Throws
  <2>2. FirstCleanup(i) \in InTry
    BY DEF FirstCleanup, InTry, Running, Finally
  <2>3. QED
    BY <2>1, <2>2, ThrowDestination
<1>2. ASSUME NEW l \in Places, Goto(i, l)
      PROVE  pc'[i] = l /\ \A j \in Invocations : j # i => pc'[j] = pc[j]
  BY <1>2, GotoEffect DEF Places
<1>3. "leave" \notin InTry /\ "idle" \notin InTry
      /\ Places \ (Ended \cup {"idle", "leave"}) \subseteq InTry
  BY PlaceNames DEF InTry, Running, BeforeTry, StartSteps, LogSteps, Finally, Ended
<1>4. CASE Invoke(i) \/ Leave(i)
  BY <1>1, <1>2, <1>3, <1>4, PlaceNames DEF Invoke, Leave, Throws, Fails, Exceptions
<1>5. CASE GetCodeDir(i) \/ CreateTmpEventFile(i) \/ NewContainer(i)
  BY <1>1, <1>2, <1>5, PlaceNames
  DEF GetCodeDir, CreateTmpEventFile, NewContainer, Throws, Fails, Exceptions, BeforeTry
<1>6. CASE HasImage(i) \/ PullImage(i) \/ Create(i) \/ AssignId(i)
  BY <1>1, <1>2, <1>3, <1>6, PlaceNames
  DEF HasImage, PullImage, Create, AssignId, Throws, Fails, Exceptions, StartSteps, Ended
<1>7. CASE ConnectNetwork(i) \/ Start(i) \/ ConfigureInterrupt(i) \/ AssignTimer(i)
  BY <1>1, <1>2, <1>3, <1>7, PlaceNames
  DEF ConnectNetwork, Start, ConfigureInterrupt, AssignTimer, Throws, Fails,
      Exceptions, StartSteps, Ended
<1>8. CASE WaitForLogs(i) \/ InspectForLogs(i) \/ Attach(i) \/ ReadLogs(i)
  BY <1>1, <1>2, <1>3, <1>8, PlaceNames
  DEF WaitForLogs, InspectForLogs, Attach, ReadLogs, Throws, Fails, Exceptions,
      LogSteps, Ended, FirstCleanup
<1>9. CASE CancelTimer(i) \/ UnlinkEvent(i) \/ Stopped(i)
  BY <1>1, <1>2, <1>3, <1>9, PlaceNames
  DEF CancelTimer, UnlinkEvent, Stopped, Throws, Exceptions, Ended
<1>10. QED
  BY <1>4, <1>5, <1>6, <1>7, <1>8, <1>9 DEF ProgramStep

CleanupFails(i) ==
  \/ event[i] = "lost"
  \/ del'[i]["main"] = "failed"
  \/ \E j \in Invocations :
       del[j]["killer"] # "failed" /\ del'[j]["killer"] = "failed"
  \/ exc'[i] = "KeyboardInterrupt"

Leaks(i) == pc[i] \in InTry /\ pc'[i] \notin InTry /\ known[i] /\ box'[i] \in Live

LEMMA ProgramLeak ==
  ASSUME CleanInv, NEW i \in Invocations, ProgramStep(i),
         NEW k \in Invocations, Leaks(k)
  PROVE  CleanupFails(k)
<1>1. TypeOK /\ BoxFollowsProgram
  BY DEF CleanInv, HandleInv
<1>2. k = i
  BY <1>1, ProgramLeaves DEF Leaks, InTry
<1>3. CASE pc[i] \in BeforeTry
  BY <1>1, <1>2, <1>3
  DEF BoxFollowsProgram, Leaks, BeforeTry, BeforeKnown, BeforeCreate
<1>4. CASE del[i]["main"] = "ok" /\ UNCHANGED box
  BY <1>2, <1>4 DEF CleanInv, DeletedMeansDown, Leaks, Actors
<1>5. QED
  BY <1>1, <1>2, <1>3, <1>4, ProgramLeaves DEF Leaks, CleanupFails

LEMMA DeleteLeak ==
  ASSUME CleanInv, NEW i \in Invocations, NEW a \in Actors, Delete(i, a),
         NEW k \in Invocations, Leaks(k)
  PROVE  CleanupFails(k)
<1>1. TypeOK /\ MainThread \subseteq Invocations
  BY ConstantAssumption DEF CleanInv, HandleInv
<1>2. del[i][a] \in InDelete
  BY DEF Delete, CheckCreated, GetContainer, RemoveContainer, Removed, ClearId,
         DelAt, InDelete
<1>3. PICK e \in Exceptions : DelThrow(i, a, e)
  BY DEF Delete, CheckCreated, GetContainer, RemoveContainer, Removed, ClearId,
         Exceptions, Leaks
<1>4. CASE a = "main" /\ Throw(i, e) /\ DelGoto(i, a, "failed")
  <2>1. k = i
    BY <1>1, <1>4, ThrowDestination DEF Leaks
  <2>2. del'[i]["main"] = "failed"
    BY <1>1, <1>4, DelGotoEffect DEF DelPlaces
  <2>3. QED
    BY <2>1, <2>2 DEF CleanupFails
<1>5. ASSUME NEW j \in MainThread, a = "killer",
             del' = [[del EXCEPT ![i][a] = "failed"]
                       EXCEPT ![j]["main"] = IF @ \in InDelete THEN "failed" ELSE @]
      PROVE  CleanupFails(k)
  <2>1. del'[i]["killer"] = "failed" /\ del[i]["killer"] # "failed"
    BY <1>1, <1>2, <1>5 DEF TypeOK, Actors, InDelete
  <2>2. QED
    BY <2>1 DEF CleanupFails
<1>6. QED
  BY <1>3, <1>4, <1>5 DEF DelThrow, Leaks

LEMMA OutsideLeak ==
  ASSUME CleanInv, NEW i \in Invocations, Outside(i),
         NEW k \in Invocations, Leaks(k)
  PROVE  CleanupFails(k)
<1>1. TypeOK
  BY DEF CleanInv, HandleInv
<1>2. CtrlC(i)
  BY DEF Outside, DaemonStep, TimerFires, FunctionEnds, FunctionDeletesEvent,
         RemovalEnds, Leaks
<1>3. Throw(i, "KeyboardInterrupt") /\ "KeyboardInterrupt" \in Exceptions
  BY <1>2 DEF CtrlC, Exceptions
<1>4. k = i
  BY <1>1, <1>3, ThrowDestination DEF Leaks
<1>5. FirstCleanup(i) \in InTry
  BY DEF FirstCleanup, InTry, Running, Finally
<1>6. QED
  BY <1>1, <1>3, <1>4, <1>5, ThrowDestination DEF Leaks, CleanupFails

(* When a call leaves its finally block with a live container whose id it  *)
(* held, that very step is a failure of the clean-up, in every process.    *)
THEOREM OnlyFailedCleanupLeaks == Spec => LeakNeedsFailedCleanup
<1>1. CleanInv /\ [Next]_vars =>
        [\A i \in Invocations :
           LET Inside == Running \ {"leave"} IN
           pc[i] \in Inside /\ pc'[i] \notin Inside /\ known[i] /\ box'[i] \in Live =>
             \/ event[i] = "lost"
             \/ del'[i]["main"] = "failed"
             \/ \E j \in Invocations :
                  del[j]["killer"] # "failed" /\ del'[j]["killer"] = "failed"
             \/ exc'[i] = "KeyboardInterrupt"]_vars
  <2>1. ASSUME CleanInv, [Next]_vars, NEW k \in Invocations, Leaks(k)
        PROVE  CleanupFails(k)
    <3>1. CASE Sigterm \/ UNCHANGED vars
      BY <2>1, <3>1 DEF Sigterm, vars, Leaks
    <3>2. QED
      BY <2>1, <3>1, NextCases, ProgramLeak, DeleteLeak, OutsideLeak
  <2>2. QED
    BY <2>1 DEF Leaks, CleanupFails, InTry
<1>2. QED
  BY <1>1, CleanInvariant, PTL DEF Spec, LeakNeedsFailedCleanup

-----------------------------------------------------------------------------
(* LocalInvoke implements Sandbox, step by step.                           *)

(* The state of one call and of its sandbox, as the contract sees them.    *)
Call(i) == IF pc[i] \in Running THEN "open" ELSE pc[i]
Box(i)  == IF ~known[i] THEN "none" ELSE IF box[i] \in Live THEN "up" ELSE "down"

LEMMA NothingMoves ==
  ASSUME \A j \in Invocations : Call(j)' = Call(j) /\ Box(j)' = Box(j)
  PROVE  UNCHANGED Contract!vars
BY DEF Contract!vars, Call, Box

LEMMA CallMoves ==
  ASSUME NEW i \in Invocations,
         \A j \in Invocations : Box(j)' = Box(j),
         \A j \in Invocations : j # i => Call(j)' = Call(j),
         \/ Call(i)' = Call(i)
         \/ Call(i) = "idle" /\ Call(i)' = "open"
         \/ Call(i) = "open" /\ Call(i)' = "raised"
         \/ Call(i) = "open" /\ Call(i)' = "returned" /\ Box(i) # "up"
  PROVE  [Contract!Next]_(Contract!vars)
<1>1. CASE Call(i)' = Call(i)
  BY <1>1, NothingMoves
<1>2. CASE Call(i) = "idle" /\ Call(i)' = "open"
  <2>1. Contract!Open(i)
    BY <1>2 DEF Contract!Open, Call, Box
  <2>2. QED
    BY <2>1 DEF Contract!Next
<1>3. CASE Call(i) = "open" /\ Call(i)' = "raised"
  <2>1. Contract!Raise(i)
    BY <1>3 DEF Contract!Raise, Call, Box
  <2>2. QED
    BY <2>1 DEF Contract!Next, Contract!Close
<1>4. CASE Call(i) = "open" /\ Call(i)' = "returned" /\ Box(i) # "up"
  <2>1. Contract!Return(i)
    BY <1>4 DEF Contract!Return, Call, Box
  <2>2. QED
    BY <2>1 DEF Contract!Next, Contract!Close
<1>5. QED
  BY <1>1, <1>2, <1>3, <1>4

LEMMA BoxMoves ==
  ASSUME NEW i \in Invocations,
         \A j \in Invocations : Call(j)' = Call(j),
         \A j \in Invocations : j # i => Box(j)' = Box(j),
         \/ Box(i)' = Box(i)
         \/ Call(i) = "open" /\ Box(i) = "none" /\ Box(i)' = "up"
         \/ Box(i) = "up" /\ Box(i)' = "down"
  PROVE  [Contract!Next]_(Contract!vars)
<1>1. CASE Box(i)' = Box(i)
  BY <1>1, NothingMoves
<1>2. CASE Call(i) = "open" /\ Box(i) = "none" /\ Box(i)' = "up"
  <2>1. Contract!Up(i)
    BY <1>2 DEF Contract!Up, Call, Box
  <2>2. QED
    BY <2>1 DEF Contract!Next
<1>3. CASE Box(i) = "up" /\ Box(i)' = "down"
  <2>1. Contract!Down(i)
    BY <1>3 DEF Contract!Down, Call, Box
  <2>2. QED
    BY <2>1 DEF Contract!Next
<1>4. QED
  BY <1>1, <1>2, <1>3

(* An exception keeps a call open or closes it with one.                   *)
LEMMA ThrowMoves ==
  ASSUME TypeOK, NEW i \in Invocations, NEW e \in Exceptions, Throw(i, e),
         \A j \in Invocations : Box(j)' = Box(j)
  PROVE  [Contract!Next]_(Contract!vars)
<1>1. /\ Call(i) = "open" /\ Call(i)' \in {"open", "raised"}
      /\ \A j \in Invocations : j # i => Call(j)' = Call(j)
  BY ThrowDestination
  DEF Call, Running, BeforeTry, StartSteps, LogSteps, Finally, FirstCleanup
<1>2. QED
  BY <1>1, CallMoves

LEMMA GoesOnMoves ==
  ASSUME TypeOK, NEW i \in Invocations, NEW l \in Places, Goto(i, l),
         \A j \in Invocations : Box(j)' = Box(j),
         \/ l \in Running /\ pc[i] \in Running \cup {"idle"}
         \/ l = "raised" /\ pc[i] \in Running
         \/ l = "returned" /\ pc[i] \in Running /\ Box(i) # "up"
  PROVE  [Contract!Next]_(Contract!vars)
<1>1. pc'[i] = l /\ \A j \in Invocations : j # i => pc'[j] = pc[j]
  BY GotoEffect DEF Places
<1>2. "idle" \notin Running /\ "raised" \notin Running /\ "returned" \notin Running
  BY DEF Running, BeforeTry, StartSteps, LogSteps, Finally
<1>3. QED
  BY <1>1, <1>2, CallMoves DEF Call

LEMMA ProgramKeepsContract ==
  ASSUME CleanInv, NEW i \in Invocations, ProgramStep(i)
  PROVE  [Contract!Next]_(Contract!vars)
<1>1. TypeOK /\ BoxFollowsProgram
  BY DEF CleanInv, HandleInv
<1> USE DEF At, files, docker, threads, world
<1>2. Running = Places \ {"idle", "returned", "raised"}
  BY PlaceNames DEF Running, BeforeTry, StartSteps, LogSteps, Finally
<1>3. ASSUME UNCHANGED <<known, box>>,
             \/ Throws(i)
             \/ /\ pc[i] \in Running \cup {"idle"}
                /\ \E l \in Running : Goto(i, l)
      PROVE  [Contract!Next]_(Contract!vars)
  BY <1>1, <1>2, <1>3, ThrowMoves, GoesOnMoves DEF Throws, Box
<1>4. CASE Invoke(i) \/ GetCodeDir(i) \/ CreateTmpEventFile(i) \/ NewContainer(i)
  BY <1>2, <1>3, <1>4, PlaceNames
  DEF Invoke, GetCodeDir, CreateTmpEventFile, NewContainer, Throws, Fails, Exceptions
<1>5. CASE HasImage(i) \/ PullImage(i) \/ ConnectNetwork(i)
  BY <1>2, <1>3, <1>5, PlaceNames
  DEF HasImage, PullImage, ConnectNetwork, Throws, Fails, Exceptions
<1>6. CASE ConfigureInterrupt(i) \/ AssignTimer(i) \/ WaitForLogs(i) \/ InspectForLogs(i)
  BY <1>2, <1>3, <1>6, PlaceNames
  DEF ConfigureInterrupt, AssignTimer, WaitForLogs, InspectForLogs, Throws, Fails, Exceptions
<1>7. CASE Attach(i) \/ ReadLogs(i) \/ CancelTimer(i) \/ UnlinkEvent(i) \/ Stopped(i)
  BY <1>2, <1>3, <1>7, PlaceNames
  DEF Attach, ReadLogs, CancelTimer, UnlinkEvent, Stopped, Throws, Fails,
      Exceptions, FirstCleanup
<1>8. CASE Create(i)
  <2>1. CASE Throws(i) /\ UNCHANGED box
    BY <1>3, <1>8, <2>1 DEF Create
  <2>2. CASE Goto(i, "assign") /\ box' = [box EXCEPT ![i] = "created"]
    <3>1. pc[i] = "create" /\ ~known[i] /\ UNCHANGED known
      BY <1>1, <1>8 DEF Create, BoxFollowsProgram, BeforeKnown, BeforeCreate
    <3>2. \A j \in Invocations : Box(j)' = Box(j)
      BY <1>1, <2>2, <3>1 DEF Box, TypeOK
    <3>3. QED
      BY <1>1, <1>2, <2>2, <3>1, <3>2, PlaceNames, GoesOnMoves
  <2>3. QED
    BY <1>8, <2>1, <2>2 DEF Create, Throws, Fails, Exceptions
<1>9. CASE AssignId(i)
  <2>1. CASE Throws(i) /\ UNCHANGED <<id, known>>
    BY <1>3, <1>9, <2>1 DEF AssignId
  <2>2. CASE /\ \E l \in {"network", "start"} : Goto(i, l)
             /\ known' = [known EXCEPT ![i] = TRUE]
    <3>1. /\ pc[i] = "assign" /\ pc'[i] \in {"network", "start"} /\ UNCHANGED box
          /\ \A j \in Invocations : j # i => pc'[j] = pc[j] /\ known'[j] = known[j]
          /\ known'[i]
      BY <1>1, <1>9, <2>2 DEF AssignId, Goto, TypeOK
    <3>2. ~known[i] /\ box[i] \in Live
      BY <1>1, <3>1 DEF BoxFollowsProgram, BeforeKnown, BeforeStart, Live
    <3>3. \A j \in Invocations : Call(j)' = Call(j)
      BY <1>2, <3>1, PlaceNames DEF Call
    <3>4. /\ Box(i) = "none" /\ Box(i)' = "up" /\ Call(i) = "open"
          /\ \A j \in Invocations : j # i => Box(j)' = Box(j)
      BY <1>2, <3>1, <3>2, PlaceNames DEF Box, Call
    <3>5. QED
      BY <3>3, <3>4, BoxMoves
  <2>3. QED
    BY <1>9, <2>1, <2>2 DEF AssignId, Throws, Fails, Exceptions
<1>10. CASE Start(i)
  <2>1. CASE Throws(i) /\ UNCHANGED box
    BY <1>3, <1>10, <2>1 DEF Start
  <2>2. CASE Goto(i, "configure") /\ box' = [box EXCEPT ![i] = "running"]
    <3>1. pc[i] = "start" /\ box[i] = "created" /\ UNCHANGED known
      BY <1>1, <1>10 DEF Start, BoxFollowsProgram, BeforeStart
    <3>2. \A j \in Invocations : Box(j)' = Box(j)
      BY <1>1, <2>2, <3>1 DEF Box, TypeOK, Live
    <3>3. QED
      BY <1>1, <1>2, <2>2, <3>1, <3>2, PlaceNames, GoesOnMoves
  <2>3. QED
    BY <1>10, <2>1, <2>2 DEF Start, Throws, Fails, Exceptions
<1>11. CASE Leave(i)
  <2>1. exc[i] = "none" => Box(i) # "up"
    BY <1>11 DEF Leave, CleanInv, LeavesClean, Box
  <2>2. \A j \in Invocations : Box(j)' = Box(j)
    BY <1>11 DEF Leave, Box
  <2>3. CASE Throws(i)
    BY <1>3, <1>11, <2>3 DEF Leave
  <2>4. CASE Goto(i, IF exc[i] = "none" THEN "returned" ELSE "raised")
    BY <1>1, <1>2, <1>11, <2>1, <2>2, <2>4, PlaceNames, GoesOnMoves DEF Leave
  <2>5. QED
    BY <1>11, <2>3, <2>4 DEF Leave, Throws, Fails, Exceptions
<1>12. QED
  BY <1>4, <1>5, <1>6, <1>7, <1>8, <1>9, <1>10, <1>11 DEF ProgramStep

LEMMA DeleteKeepsContract ==
  ASSUME CleanInv, NEW i \in Invocations, NEW a \in Actors, Delete(i, a)
  PROVE  [Contract!Next]_(Contract!vars)
<1>1. TypeOK /\ MainThread \subseteq Invocations
  BY ConstantAssumption DEF CleanInv, HandleInv
<1> USE DEF docker
<1>2. CASE UNCHANGED <<pc, known, box>>
  BY <1>2, NothingMoves DEF Call, Box
<1>3. ASSUME NEW e \in Exceptions, DelThrow(i, a, e), UNCHANGED <<known, box>>
      PROVE  [Contract!Next]_(Contract!vars)
  <2>1. \A j \in Invocations : Box(j)' = Box(j)
    BY <1>3 DEF Box
  <2>2. UNCHANGED pc \/ \E j \in Invocations : Throw(j, e)
    BY <1>1, <1>3 DEF DelThrow
  <2>3. QED
    BY <1>1, <1>2, <1>3, <2>1, <2>2, ThrowMoves
<1>4. CASE /\ box[i] \in Live /\ box' = [box EXCEPT ![i] = "removing"]
           /\ UNCHANGED <<pc, known>>
  <2>1. box'[i] \notin Live /\ \A j \in Invocations : j # i => box'[j] = box[j]
    BY <1>1, <1>4 DEF TypeOK, Live
  <2>2. \A j \in Invocations : Call(j)' = Call(j)
    BY <1>4 DEF Call
  <2>3. Box(i)' = Box(i) \/ (Box(i) = "up" /\ Box(i)' = "down")
    BY <1>4, <2>1 DEF Box
  <2>4. \A j \in Invocations : j # i => Box(j)' = Box(j)
    BY <1>4, <2>1 DEF Box
  <2>5. QED
    BY <2>2, <2>3, <2>4, BoxMoves
<1>5. QED
  BY <1>2, <1>3, <1>4
  DEF Delete, CheckCreated, GetContainer, RemoveContainer, Removed, ClearId, Exceptions

LEMMA OutsideKeepsContract ==
  ASSUME TypeOK, NEW i \in Invocations, Outside(i)
  PROVE  [Contract!Next]_(Contract!vars)
<1> USE DEF docker
<1>1. CASE UNCHANGED <<pc, known, box>>
  BY <1>1, NothingMoves DEF Call, Box
<1>2. CASE FunctionEnds(i) \/ RemovalEnds(i)
  <2>1. \A j \in Invocations : box'[j] \in Live <=> box[j] \in Live
    BY <1>2 DEF FunctionEnds, RemovalEnds, TypeOK, Live
  <2>2. UNCHANGED <<pc, known>>
    BY <1>2 DEF FunctionEnds, RemovalEnds
  <2>3. QED
    BY <2>1, <2>2, NothingMoves DEF Call, Box
<1>3. CASE CtrlC(i)
  BY <1>3, ThrowMoves DEF CtrlC, Box, Exceptions
<1>4. QED
  BY <1>1, <1>2, <1>3 DEF Outside, DaemonStep, TimerFires, FunctionDeletesEvent

(* Every execution is one the contract allows: a call has one sandbox at   *)
(* most, brought up while it runs, never up again once down, and not up    *)
(* when the call returns normally.                                         *)
THEOREM InvokeKeepsItsContract == Spec => ImplementsSandbox
<1>1. Init => Contract!Init
  <2>1. "idle" \notin Running
    BY DEF Running, BeforeTry, StartSteps, LogSteps, Finally
  <2>2. QED
    BY <2>1 DEF Init, Contract!Init
<1>2. CleanInv /\ [Next]_vars => [Contract!Next]_(Contract!vars)
  <2>1. Sigterm \/ UNCHANGED vars => UNCHANGED Contract!vars
    BY NothingMoves DEF Sigterm, vars, docker, Call, Box
  <2>2. QED
    BY <2>1, NextCases, ProgramKeepsContract, DeleteKeepsContract,
       OutsideKeepsContract DEF CleanInv, HandleInv
<1>3. QED
  BY <1>1, <1>2, CleanInvariant, PTL DEF Spec, ImplementsSandbox, Contract!Spec

=============================================================================
