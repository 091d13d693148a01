---------------------------- MODULE LogTailProofs ----------------------------
(***************************************************************************)
(* Proofs about LogTail: whatever arrives, and in whatever order, tail     *)
(* prints nothing twice and passes over nothing but what arrived late.     *)
(***************************************************************************)
EXTENDS LogTail, TLAPS

TypeInv ==
  /\ pc \in {"poll", "page", "sleep", "ended", "failed"}
  /\ latest \in Nat /\ since \in Nat
  /\ hasData \in BOOLEAN
  /\ token \in [time : Nat, event : Nat]
  /\ stamp \in [Events -> Nat] /\ copies \in [Events -> Nat]

Due(e) == e \in Arrived \ late /\ stamp[e] >= Start /\ copies[e] = 0

\* Between two events in the order of the log lies the token; what was yielded
\* is behind it, what is due is before it.
PageInv ==
  pc = "page" =>
    /\ \A e \in Yielded : stamp[e] <= latest /\ e \notin Remaining
    /\ hasData => \E d \in Yielded : latest = stamp[d]
    /\ ~hasData => latest = since /\ \A e \in Yielded : stamp[e] < latest
    /\ since = Start \/ \E d \in Yielded : since <= stamp[d] + 1
    /\ token = NoToken \/ \E d \in Yielded : token = At(d)
    /\ \A e \in Events : Due(e) => e \in Remaining

\* Between two fetches `latest` parts what was yielded from what is due.
RestInv ==
  pc \in {"poll", "sleep", "ended"} =>
    /\ \A e \in Yielded : stamp[e] < latest
    /\ latest = Start \/ \E d \in Yielded : latest <= stamp[d] + 1
    /\ \A e \in Events : Due(e) => stamp[e] >= latest

\* Once a fetch is over, what is due arrived while it was under way.
FetchedInv == pc \in {"poll", "sleep", "ended"} => \A e \in Events : Due(e) => e \in fresh

OnceInv == \A e \in Events : copies[e] <= 1 /\ (copies[e] > 0 => stamp[e] > 0)

TailInv == TypeInv /\ OnceInv /\ PageInv /\ RestInv /\ FetchedInv

-----------------------------------------------------------------------------
(* The order of the log.                                                   *)

Stamps == [time : Nat, event : Nat]

LEMMA BeforeIsStrict ==
  ASSUME NEW a \in Stamps, NEW b \in Stamps, NEW c \in Stamps
  PROVE  /\ ~Before(a, a)
         /\ Before(a, b) /\ Before(b, c) => Before(a, c)
         /\ Before(a, b) => ~Before(b, a) /\ a.time <= b.time
BY DEF Before, Stamps

LEMMA AtIsStamp == ASSUME TypeInv, NEW e \in Events PROVE At(e) \in Stamps
BY LogTailAssumption DEF TypeInv, At, Stamps

LEMMA InitTail == Init => TailInv
<1> SUFFICES ASSUME Init PROVE TailInv
  OBVIOUS
<1>1. Yielded = {} /\ Arrived = {}
  BY DEF Init, Yielded, Arrived
<1>2. TypeInv
  BY LogTailAssumption DEF Init, TypeInv, NoToken
<1>3. QED
  BY <1>1, <1>2 DEF Init, TailInv, OnceInv, PageInv, RestInv, FetchedInv, Due

-----------------------------------------------------------------------------
(* One lemma to an action. An event that arrives is ahead of all that was  *)
(* yielded, or it is late.                                                 *)

LEMMA ArriveStep ==
  ASSUME TailInv, NEW e \in Events, Arrive(e)
  PROVE  TailInv'
<1>1. PICK t \in 1..Times :
        /\ stamp' = [stamp EXCEPT ![e] = t]
        /\ late' = IF \E d \in Yielded : stamp[d] >= t THEN late \cup {e} ELSE late
  BY DEF Arrive
<1>2. t \in Nat /\ t > 0
  BY LogTailAssumption
<1>3. TypeInv'
  BY <1>1, <1>2 DEF Arrive, TailInv, TypeInv
<1>4. e \notin Yielded /\ Yielded' = Yielded /\ Yielded \subseteq Events
  BY DEF Arrive, TailInv, TypeInv, OnceInv, Yielded
<1>5. /\ stamp'[e] = t
      /\ \A d \in Events \ {e} : stamp'[d] = stamp[d] /\ At(d)' = At(d)
      /\ \A d \in Yielded : stamp'[d] = stamp[d] /\ At(d)' = At(d)
  BY <1>1, <1>4 DEF TailInv, TypeInv, At
<1>6. \A d \in Events \ {e} :
        /\ d \in Remaining' <=> d \in Remaining
        /\ Due(d)' <=> Due(d)
  BY <1>1, <1>5 DEF Arrive, Remaining, Arrived, Due
<1>7. Due(e)' => t >= Start /\ \A d \in Yielded : stamp[d] < t
  BY <1>1, <1>2, <1>5, <1>4 DEF Arrive, TailInv, TypeInv, Due, Arrived
<1>8. OnceInv'
  BY <1>2, <1>5 DEF Arrive, TailInv, OnceInv
<1>9. PageInv'
  <2>1. SUFFICES ASSUME pc = "page" PROVE PageInv'
    BY DEF Arrive, PageInv
  <2>2. Due(e)' => e \in Remaining'
    <3>1. SUFFICES ASSUME Due(e)' PROVE t >= since /\ Before(token, At(e)')
      BY <1>2, <1>5 DEF Arrive, Remaining, Arrived, At
    <3>2. t >= since
      BY <1>2, <1>4, <1>7, <2>1, <3>1, LogTailAssumption DEF TailInv, TypeInv, PageInv
    <3>3. Before(token, At(e)')
      BY <1>2, <1>4, <1>5, <1>7, <2>1, <3>1 DEF TailInv, TypeInv, PageInv, Before, At, NoToken
    <3>4. QED
      BY <3>2, <3>3
  <2>3. QED
    BY <1>4, <1>5, <1>6, <2>1, <2>2 DEF Arrive, TailInv, PageInv
<1>10. RestInv'
  <2>1. SUFFICES ASSUME pc \in {"poll", "sleep", "ended"} PROVE RestInv'
    BY DEF Arrive, RestInv
  <2>2. Due(e)' => t >= latest
    BY <1>2, <1>4, <1>7, <2>1, LogTailAssumption DEF TailInv, TypeInv, RestInv
  <2>3. QED
    BY <1>4, <1>5, <1>6, <2>1, <2>2 DEF Arrive, TailInv, RestInv, Due
<1>11. FetchedInv'
  BY <1>6 DEF Arrive, TailInv, FetchedInv
<1>12. QED
  BY <1>3, <1>8, <1>9, <1>10, <1>11 DEF TailInv

LEMMA PollStep == ASSUME TailInv, Poll PROVE TailInv'
<1>1. /\ Yielded' = Yielded /\ Arrived' = Arrived /\ Yielded \subseteq Arrived
      /\ Arrived \subseteq Events
      /\ \A e \in Events : Due(e)' <=> Due(e)
  BY DEF Poll, TailInv, TypeInv, OnceInv, Yielded, Arrived, Due
<1>2. TypeInv'
  BY DEF Poll, TailInv, TypeInv, NoToken
<1>3. \A e \in Arrived : e \in Remaining' <=> stamp[e] >= latest
  BY DEF Poll, TailInv, TypeInv, Remaining, Arrived, Before, NoToken, At
<1>4. PageInv'
  BY <1>1, <1>3 DEF Poll, TailInv, TypeInv, RestInv, PageInv, Due
<1>5. QED
  BY <1>1, <1>2, <1>4 DEF Poll, TailInv, OnceInv, RestInv, FetchedInv

-----------------------------------------------------------------------------
(* A page: of what remains, the first events are yielded, and the token is *)
(* left at the last of them.                                               *)

LEMMA TakenOnce ==
  ASSUME TailInv, pc = "page", NEW p \in SUBSET Remaining, NEW newest, NEW next,
         Take(p, newest, next)
  PROVE  /\ p \subseteq Events /\ p \cap Yielded = {}
         /\ Yielded' = Yielded \cup p /\ Arrived' = Arrived
         /\ \A e \in Events : Due(e)' <=> Due(e) /\ e \notin p
         /\ copies' \in [Events -> Nat]
         /\ OnceInv'
<1>1. p \subseteq Events /\ \A e \in p : stamp[e] > 0 /\ copies[e] = 0
  BY DEF TailInv, TypeInv, PageInv, Remaining, Arrived, Yielded
<1>2. \A e \in Events : copies'[e] = IF e \in p THEN copies[e] + 1 ELSE copies[e]
  BY DEF Take
<1>3. copies' \in [Events -> Nat]
  BY DEF Take, TailInv, TypeInv
<1>4. Yielded' = Yielded \cup p
  BY <1>1, <1>2 DEF TailInv, TypeInv, Yielded
<1>5. OnceInv'
  BY <1>1, <1>2 DEF Take, TailInv, TypeInv, OnceInv
<1>6. \A e \in Events : Due(e)' <=> Due(e) /\ e \notin p
  BY <1>1, <1>2 DEF Take, TailInv, TypeInv, Due, Arrived
<1>7. QED
  BY <1>1, <1>3, <1>4, <1>5, <1>6 DEF Take, Yielded, Arrived

LEMMA EmptyEndStep ==
  ASSUME TailInv, pc = "page", Remaining = {}, Take({}, latest, token)
  PROVE  TailInv'
<1>1. /\ Yielded' = Yielded /\ copies' \in [Events -> Nat] /\ OnceInv'
      /\ Yielded \subseteq Events
      /\ \A e \in Events : Due(e)' <=> Due(e)
  BY TakenOnce DEF Yielded
<1>2. \A e \in Events : ~Due(e)
  BY DEF TailInv, PageInv
<1>3. /\ pc' = "sleep" /\ hasData' = hasData
      /\ latest' = IF hasData THEN latest + 1 ELSE latest
      /\ UNCHANGED <<since, token, stamp, late, fresh>>
  BY DEF Take, Settle, TailInv, TypeInv
<1>4. TypeInv'
  BY <1>1, <1>3 DEF TailInv, TypeInv
<1>5. RestInv'
  <2>1. \A e \in Yielded : stamp[e] < latest'
    BY <1>1, <1>3 DEF TailInv, TypeInv, PageInv
  <2>2. latest' = Start \/ \E d \in Yielded : latest' <= stamp[d] + 1
    BY <1>1, <1>3 DEF TailInv, TypeInv, PageInv
  <2>3. QED
    BY <1>1, <1>2, <1>3, <2>1, <2>2 DEF RestInv
<1>6. QED
  BY <1>1, <1>2, <1>3, <1>4, <1>5 DEF TailInv, PageInv, FetchedInv

LEMMA PageStep ==
  ASSUME TailInv, pc = "page", NEW p \in Pages, NEW l \in p, IsLast(l, p),
         Take(p, IF stamp[l] > latest THEN stamp[l] ELSE latest, At(l))
  PROVE  TailInv'
<1> DEFINE newest == IF stamp[l] > latest THEN stamp[l] ELSE latest
<1>1. /\ p \in SUBSET Remaining
      /\ \A e \in p : \A d \in Remaining \ p : Before(At(e), At(d))
  BY DEF Pages
<1>2. /\ p \subseteq Events /\ p \cap Yielded = {} /\ Yielded \subseteq Events
      /\ Yielded' = Yielded \cup p /\ Arrived' = Arrived
      /\ \A e \in Events : Due(e)' <=> Due(e) /\ e \notin p
      /\ copies' \in [Events -> Nat] /\ OnceInv'
  BY <1>1, TakenOnce DEF Yielded
<1>3. /\ hasData' = TRUE /\ UNCHANGED <<since, stamp, late, fresh>>
      /\ At(l) \in Stamps /\ newest \in Nat /\ latest \in Nat /\ since \in Nat
      /\ token \in Stamps /\ stamp \in [Events -> Nat]
  BY <1>2, AtIsStamp DEF Take, TailInv, TypeInv, Stamps
<1>4. \A e \in p : stamp[e] >= since /\ stamp[e] <= stamp[l] /\ ~Before(At(l), At(e))
  <2> TAKE e \in p
  <2>1. stamp[e] >= since
    BY <1>1 DEF Remaining
  <2>2. e = l \/ Before(At(e), At(l))
    BY DEF IsLast
  <2>3. At(e) \in Stamps
    BY <1>2, AtIsStamp DEF TailInv
  <2>4. ~Before(At(l), At(e)) /\ At(e).time <= At(l).time
    BY <1>3, <2>2, <2>3, BeforeIsStrict DEF Stamps
  <2>5. QED
    BY <2>1, <2>4 DEF At
<1>5. \E d \in Yielded' : newest = stamp[d]
  BY <1>2, <1>3, <1>4 DEF TailInv, PageInv
<1>6. \A e \in Yielded' : stamp[e] <= newest
  BY <1>2, <1>3, <1>4 DEF TailInv, PageInv
<1>7. CASE p # Remaining
  <2>1. /\ pc' = "page" /\ token' = At(l) /\ latest' = newest
        /\ UNCHANGED <<counter, idle>>
    BY <1>7 DEF Take
  <2>2. \A e \in Events : At(e)' = At(e)
    BY <1>3 DEF At
  <2>3. \A e \in Yielded' : e \notin Remaining'
    <3> SUFFICES ASSUME NEW e \in Yielded', e \in Remaining' PROVE FALSE
      OBVIOUS
    <3>1. stamp[e] >= since /\ Before(At(l), At(e)) /\ e \in Arrived /\ At(e) \in Stamps
      BY <1>2, <1>3, <2>1, <2>2, AtIsStamp DEF Remaining, TailInv
    <3>2. e \notin p
      BY <1>4, <3>1
    <3>3. Before(token, At(l))
      BY <1>1 DEF Remaining
    <3>4. e \in Remaining
      BY <1>3, <3>1, <3>3, BeforeIsStrict DEF Remaining
    <3>5. QED
      BY <1>2, <3>2, <3>4 DEF TailInv, PageInv
  <2>4. \A e \in Events : Due(e)' => e \in Remaining'
    <3> SUFFICES ASSUME NEW e \in Events, Due(e), e \notin p PROVE e \in Remaining'
      BY <1>2
    <3>1. e \in Remaining
      BY DEF TailInv, PageInv
    <3>2. Before(At(l), At(e))
      BY <1>1, <3>1
    <3>3. QED
      BY <1>2, <1>3, <2>1, <2>2, <3>1, <3>2 DEF Remaining
  <2>5. PageInv'
    <3>1. since = Start \/ \E d \in Yielded' : since <= stamp[d] + 1
      BY <1>2 DEF TailInv, PageInv
    <3>2. l \in Yielded' /\ token' = At(l)'
      BY <1>2, <2>1, <2>2
    <3>3. QED
      BY <1>3, <1>5, <1>6, <2>1, <2>3, <2>4, <3>1, <3>2 DEF PageInv
  <2>6. TypeInv'
    BY <1>2, <1>3, <2>1 DEF TailInv, TypeInv, Stamps
  <2>7. QED
    BY <1>2, <2>1, <2>5, <2>6 DEF TailInv, RestInv, FetchedInv
<1>8. CASE p = Remaining
  <2>1. pc' = "sleep" /\ latest' = newest + 1 /\ UNCHANGED token
    BY <1>3, <1>8 DEF Take, Settle
  <2>2. \A e \in Events : ~Due(e)'
    BY <1>2, <1>8 DEF TailInv, PageInv
  <2>3. TypeInv'
    BY <1>2, <1>3, <2>1 DEF TailInv, TypeInv
  <2>4. RestInv'
    <3>1. \A e \in Yielded' : stamp[e] < newest + 1
      BY <1>2, <1>3, <1>6
    <3>2. \E d \in Yielded' : newest + 1 <= stamp[d] + 1
      BY <1>2, <1>3, <1>5
    <3>3. QED
      BY <1>3, <2>1, <2>2, <3>1, <3>2 DEF RestInv
  <2>5. QED
    BY <1>2, <2>1, <2>2, <2>3, <2>4 DEF TailInv, PageInv, FetchedInv
<1>9. QED
  BY <1>7, <1>8

-----------------------------------------------------------------------------
LEMMA TailStep == TailInv /\ [Next]_vars => TailInv'
<1> SUFFICES ASSUME TailInv, [Next]_vars PROVE TailInv'
  OBVIOUS
<1>1. ASSUME UNCHANGED <<latest, hasData, since, token, stamp, copies, late, fresh>>,
             \/ pc' = pc
             \/ pc \in {"poll", "sleep"} /\ pc' \in {"poll", "ended"}
             \/ pc' = "failed"
      PROVE  TailInv'
  <2>1. TypeInv' /\ OnceInv'
    BY <1>1 DEF TailInv, TypeInv, OnceInv
  <2>2. /\ Yielded' = Yielded /\ Remaining' = Remaining
        /\ \A e \in Events : Due(e)' <=> Due(e)
        /\ \A e \in Events : At(e)' = At(e)
        /\ Yielded \subseteq Events
    BY <1>1 DEF Yielded, Remaining, Arrived, Due, At
  <2>3. PageInv'
    BY <1>1, <2>2 DEF TailInv, PageInv
  <2>4. RestInv' /\ FetchedInv'
    BY <1>1, <2>2 DEF TailInv, RestInv, FetchedInv
  <2>5. QED
    BY <2>1, <2>3, <2>4 DEF TailInv
<1>2. CASE Poll
  BY <1>2, PollStep
<1>3. CASE GiveUp \/ EmptyPage \/ Sleep \/ Fault \/ Done \/ UNCHANGED vars
  BY <1>1, <1>3 DEF GiveUp, EmptyPage, Sleep, Fault, Done, vars
<1>4. CASE Page
  BY <1>4, EmptyEndStep, PageStep DEF Page
<1>5. CASE \E e \in Events : Arrive(e)
  BY <1>5, ArriveStep
<1>6. QED
  BY <1>2, <1>3, <1>4, <1>5 DEF Next, Tail

(* The polls overlap in no event, whatever arrives between two of them or  *)
(* between two pages of one.                                               *)
THEOREM NothingPrintedTwice == Spec => []NoneTwice
<1>1. TailInv => NoneTwice
  BY DEF TailInv, OnceInv, NoneTwice
<1>2. QED
  BY <1>1, InitTail, TailStep, PTL DEF Spec

(* The next poll's startTime is past every event that was there, and not   *)
(* past one that arrived in order.                                         *)
THEOREM OnlyLateMissed == Spec => []PassedOverOnlyLate
<1>1. TailInv => PassedOverOnlyLate
  BY DEF TailInv, TypeInv, FetchedInv, PassedOverOnlyLate, Due, Arrived, Yielded
<1>2. QED
  BY <1>1, InitTail, TailStep, PTL DEF Spec

-----------------------------------------------------------------------------
(* The budget: a poll is paid for from what the idle ones before it left.  *)
BudgetInv ==
  /\ counter \in Nat /\ idle \in Nat
  /\ pc \in {"poll", "sleep"} => counter + idle = MaxRetries
  /\ pc = "page" => counter + idle + 1 = MaxRetries
  /\ pc = "ended" => idle = MaxRetries

LEMMA TakeBudget ==
  ASSUME BudgetInv, pc = "page", NEW p, NEW newest, NEW next, Take(p, newest, next)
  PROVE  BudgetInv'
BY LogTailAssumption DEF BudgetInv, Take, Settle, Idle

LEMMA BudgetStep == BudgetInv /\ [Next]_vars => BudgetInv'
<1> SUFFICES ASSUME BudgetInv, [Next]_vars PROVE BudgetInv'
  OBVIOUS
<1>1. CASE Poll
  BY <1>1 DEF Poll, BudgetInv
<1>2. CASE GiveUp \/ Sleep \/ EmptyPage \/ Fault
  BY <1>2, LogTailAssumption DEF GiveUp, Sleep, EmptyPage, Fault, BudgetInv
<1>3. CASE Page
  BY <1>3, TakeBudget DEF Page
<1>4. CASE (\E e \in Events : Arrive(e)) \/ Done \/ UNCHANGED vars
  BY <1>4 DEF Arrive, Done, vars, BudgetInv
<1>5. QED
  BY <1>1, <1>2, <1>3, <1>4 DEF Next, Tail

(* tail gives up only after max_retries idle polls in a row.               *)
THEOREM NeverGivesUpEarly == Spec => []GivesUpOnlyWhenIdle
<1>1. Init => BudgetInv
  BY LogTailAssumption DEF Init, BudgetInv
<1>2. BudgetInv => GivesUpOnlyWhenIdle
  BY DEF BudgetInv, GivesUpOnlyWhenIdle
<1>3. QED
  BY <1>1, <1>2, BudgetStep, PTL DEF Spec

=============================================================================
