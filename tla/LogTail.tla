------------------------------ MODULE LogTail -------------------------------
(***************************************************************************)
(* LogsFetcher: `tail` polls the log service with `fetch`, which follows   *)
(* nextToken from page to page, while events keep arriving from several    *)
(* streams and so not in the order of their timestamps. A timestamp is a   *)
(* number of milliseconds; to_datetime and to_timestamp give back the one  *)
(* they were given for every date of this century.                         *)
(***************************************************************************)
EXTENDS Naturals, FiniteSets

CONSTANTS
  Events,      \* the events that may arrive, numbers
  Times,       \* bound on the timestamps, 1..Times
  Start,       \* the --start-time
  MaxRetries,  \* tail's max_retries
  PageSize     \* the most events the service puts on a page

ASSUME LogTailAssumption ==
  /\ Events \subseteq Nat \ {0}
  /\ Times \in Nat /\ Start \in Nat
  /\ MaxRetries \in Nat \ {0} /\ PageSize \in Nat \ {0}

VARIABLES
  pc,       \* where tail is
  latest,   \* latest_event_time
  counter,  \* polls left before tail gives up
  hasData,  \* has_data
  since,    \* startTime of this fetch
  token,    \* nextToken: the last event seen by this fetch
  skipped,  \* this fetch has had its page without events
  stamp,    \* timestamp of each event, 0 until it arrives
  copies,   \* history: how often each event was yielded
  late,     \* history: events that arrived behind one already yielded
  fresh,    \* history: events that arrived since the last poll began
  idle      \* history: polls without events in a row, up to max_retries

vars == <<pc, latest, counter, hasData, since, token, skipped, stamp, copies, late, fresh, idle>>

-----------------------------------------------------------------------------
Arrived == {e \in Events : stamp[e] > 0}
Yielded == {e \in Events : copies[e] > 0}

NoToken == [time |-> 0, event |-> 0]
At(e) == [time |-> stamp[e], event |-> e]

\* The service interleaves the streams by timestamp.
Before(a, b) == a.time < b.time \/ (a.time = b.time /\ a.event < b.event)

\* What filter_log_events has still to give for startTime and nextToken.
Remaining == {e \in Arrived : stamp[e] >= since /\ Before(token, At(e))}

\* Pages: some of the remaining events, the first of them.
Pages ==
  {p \in SUBSET Remaining :
     /\ Cardinality(p) <= PageSize
     /\ \A e \in p : \A d \in Remaining \ p : Before(At(e), At(d))}

IsLast(e, p) == \A d \in p \ {e} : Before(At(d), At(e))

Init ==
  /\ pc = "poll"
  /\ latest = Start
  /\ counter = MaxRetries
  /\ hasData = FALSE
  /\ since = Start /\ token = NoToken /\ skipped = FALSE
  /\ stamp = [e \in Events |-> 0]
  /\ copies = [e \in Events |-> 0]
  /\ late = {} /\ fresh = {} /\ idle = 0

\* An event arrives, maybe later than its timestamp says.
Arrive(e) ==
  /\ stamp[e] = 0
  /\ \E t \in 1..Times :
       /\ stamp' = [stamp EXCEPT ![e] = t]
       /\ late' = IF \E d \in Yielded : stamp[d] >= t THEN late \cup {e} ELSE late
  /\ fresh' = fresh \cup {e}
  /\ UNCHANGED <<pc, latest, counter, hasData, since, token, skipped, copies, idle>>

-----------------------------------------------------------------------------
\* Mutant: the budget is not spent.
PollFree ==
  /\ pc = "poll" /\ counter > 0
  /\ hasData' = FALSE
  /\ since' = latest /\ token' = NoToken /\ skipped' = FALSE
  /\ fresh' = {}
  /\ pc' = "page"
  /\ UNCHANGED <<latest, counter, stamp, copies, late, idle>>

\* The top of tail's loop, and fetch's first call.
Poll ==
  /\ pc = "poll" /\ counter > 0
  /\ counter' = counter - 1
  /\ hasData' = FALSE
  /\ since' = latest /\ token' = NoToken /\ skipped' = FALSE
  /\ fresh' = {}
  /\ pc' = "page"
  /\ UNCHANGED <<latest, stamp, copies, late, idle>>

GiveUp ==
  /\ pc = "poll" /\ counter = 0
  /\ pc' = "ended"
  /\ UNCHANGED <<latest, counter, hasData, since, token, skipped, stamp, copies, late, fresh, idle>>

\* Mutants: the counter is never set back; the next poll starts at the last
\* event again.
SettleSpent(newest, some) ==
  /\ latest' = IF some THEN newest + 1 ELSE newest
  /\ UNCHANGED counter
SettleAtLast(newest, some) ==
  /\ latest' = newest
  /\ counter' = IF some THEN MaxRetries ELSE counter

\* After the last page: a poll with events starts the budget anew, and the next
\* one begins a millisecond after the newest event.
Settle(newest, some) ==
  /\ latest' = IF some THEN newest + 1 ELSE newest
  /\ counter' = IF some THEN MaxRetries ELSE counter

Idle(some) == IF some THEN 0 ELSE IF idle < MaxRetries THEN idle + 1 ELSE idle

\* The events of a page are yielded, the newest timestamp is kept, and the fetch
\* goes on while there is a nextToken.
Take(p, newest, next) ==
  /\ copies' = [e \in Events |-> IF e \in p THEN copies[e] + 1 ELSE copies[e]]
  /\ hasData' = (hasData \/ p # {})
  /\ \/ /\ p # Remaining
        /\ token' = next
        /\ latest' = newest
        /\ UNCHANGED <<pc, counter, idle>>
     \/ /\ p = Remaining
        /\ pc' = "sleep"
        /\ Settle(newest, hasData')
        /\ idle' = Idle(hasData')
        /\ UNCHANGED token
  /\ UNCHANGED <<since, skipped, stamp, late, fresh>>

Page ==
  /\ pc = "page"
  /\ \/ Remaining = {} /\ Take({}, latest, token)
     \/ \E p \in Pages : \E e \in p :
          /\ IsLast(e, p)
          /\ Take(p, IF stamp[e] > latest THEN stamp[e] ELSE latest, At(e))

\* Mutant: a page without events is taken for the last one.
EmptyPageStops ==
  /\ pc = "page" /\ ~skipped
  /\ skipped' = TRUE
  /\ pc' = "sleep"
  /\ Settle(latest, hasData)
  /\ idle' = Idle(hasData)
  /\ UNCHANGED <<hasData, since, token, stamp, copies, late, fresh>>

\* The service may answer with no event and a nextToken; once in a fetch here.
EmptyPage ==
  /\ pc = "page" /\ ~skipped
  /\ skipped' = TRUE
  /\ UNCHANGED <<pc, latest, counter, hasData, since, token, stamp, copies, late, fresh, idle>>

Sleep ==
  /\ pc = "sleep"
  /\ pc' = "poll"
  /\ UNCHANGED <<latest, counter, hasData, since, token, skipped, stamp, copies, late, fresh, idle>>

\* An error of the service is not caught.
Fault ==
  /\ pc = "page"
  /\ pc' = "failed"
  /\ UNCHANGED <<latest, counter, hasData, since, token, skipped, stamp, copies, late, fresh, idle>>

Done == pc \in {"ended", "failed"} /\ UNCHANGED vars

Tail == Poll \/ GiveUp \/ Page \/ EmptyPage \/ Sleep \/ Fault

Next == Tail \/ (\E e \in Events : Arrive(e)) \/ Done

Spec == Init /\ [][Next]_vars

\* tail runs on its own; events arrive or not.
FairSpec == Spec /\ WF_vars(Tail)

-----------------------------------------------------------------------------
\* The polls overlap in no event: whatever arrives between them or between two
\* pages of one, nothing is printed twice.
NoneTwice == \A e \in Events : copies[e] <= 1

\* An event is passed over only if it arrived behind one already printed:
\* after a poll, every other event that was there when it began is printed.
PassedOverOnlyLate ==
  pc \in {"sleep", "ended"} =>
    \A e \in Arrived \ (late \cup fresh) : stamp[e] >= Start => e \in Yielded

\* "This counter is reset every time new logs are available": tail gives up
\* only after max_retries polls in a row without an event.
GivesUpOnlyWhenIdle == pc = "ended" => idle = MaxRetries

\* Once no more events arrive tail ends by itself.
TailEnds == <>(pc \in {"ended", "failed"})
=============================================================================
