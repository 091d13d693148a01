--------------------------- MODULE HttpRetryProofs ---------------------------
(***************************************************************************)
(* The loop of bce_http_client.send_request, for every retry limit and     *)
(* every delay: the number of attempts, the delays, the whole body at each *)
(* attempt, and the refinement of BoundedRetry's steps. All of it rests on *)
(* the loop counting its retries.                                          *)
(***************************************************************************)
EXTENDS HttpRetry, TLAPS

(* The counter is the number of attempts but for the one under way; that   *)
(* is what ties the policy's answers, and the rewinding, to history.       *)
CounterIsAttempts ==
  /\ retries \in 0..MaxErrorRetry
  /\ attempts = IF pc = "prepare" THEN retries ELSE retries + 1

SleepIsBudgeted ==
  pc = "sleep" => retries < MaxErrorRetry /\ delay = Delay(retries)

BodyAtOffset ==
  /\ WholeBody
  /\ ~FileBody \/ (pc = "prepare" /\ retries = 0) => body = "whole"

LoopInv == TypeOK /\ CounterIsAttempts /\ SleepIsBudgeted /\ BodyAtOffset

LEMMA CatchEffect ==
  ASSUME LoopInv, NEW e \in Errors, Catch(e), pc # "prepare",
         UNCHANGED <<retries, attempts, applied>>,
         body' \in {"whole", "consumed"}, ~FileBody => body' = "whole"
  PROVE  LoopInv'
<1>1. delay' \in {0} \cup {Delay(n) : n \in 0..MaxErrorRetry}
  BY DEF Catch, LoopInv, TypeOK, CounterIsAttempts
<1>2. pc' \in {"sleep", "raised"} /\ error' = e
  BY DEF Catch
<1>3. pc' = "sleep" => retries < MaxErrorRetry /\ delay' = Delay(retries)
  BY DEF Catch, ShouldRetry
<1>4. QED
  BY <1>1, <1>2, <1>3
  DEF LoopInv, TypeOK, CounterIsAttempts, SleepIsBudgeted, BodyAtOffset, WholeBody

LEMMA LoopStep ==
  ASSUME CountsRetries, LoopInv, [Next]_vars
  PROVE  LoopInv'
<1> USE RetryAssumption
<1>1. CASE Prepare
  BY <1>1 DEF Prepare, LoopInv, TypeOK, CounterIsAttempts, SleepIsBudgeted,
              BodyAtOffset, WholeBody
<1>2. CASE Send
  <2>1. CASE pc' = "await" /\ UNCHANGED <<error, delay>>
    BY <1>2, <2>1 DEF Send, LoopInv, TypeOK, CounterIsAttempts, SleepIsBudgeted,
                      BodyAtOffset, WholeBody
  <2>2. CASE \E e \in {"io", "client"} : Catch(e)
    BY <1>2, <2>2, CatchEffect DEF Send, Errors, LoopInv, TypeOK, BodyAtOffset
  <2>3. QED
    BY <1>2, <2>1, <2>2 DEF Send
<1>3. CASE Serve
  BY <1>3 DEF Serve, LoopInv, TypeOK, CounterIsAttempts, SleepIsBudgeted,
              BodyAtOffset, WholeBody
<1>4. CASE AnswerLost
  BY <1>4, CatchEffect DEF AnswerLost, Errors, LoopInv, TypeOK, BodyAtOffset
<1>5. CASE Receive
  <2>1. CASE pc' = "returned" /\ UNCHANGED <<error, delay>>
    BY <1>5, <2>1 DEF Receive, LoopInv, TypeOK, CounterIsAttempts,
                      SleepIsBudgeted, BodyAtOffset, WholeBody
  <2>2. CASE \E e \in Errors : Catch(e)
    BY <1>5, <2>2, CatchEffect DEF Receive, LoopInv, TypeOK, BodyAtOffset
  <2>3. QED
    BY <1>5, <2>1, <2>2 DEF Receive, Errors
<1>6. CASE Wake
  BY <1>6 DEF Wake, LoopInv, TypeOK, CounterIsAttempts, SleepIsBudgeted,
              BodyAtOffset, WholeBody
<1>7. CASE UNCHANGED vars \/ Done
  BY <1>7 DEF Done, vars, LoopInv, TypeOK, CounterIsAttempts, SleepIsBudgeted,
              BodyAtOffset, WholeBody
<1>8. QED
  BY <1>1, <1>2, <1>3, <1>4, <1>5, <1>6, <1>7 DEF Next

LEMMA LoopInvariant ==
  ASSUME CountsRetries
  PROVE  Spec => []LoopInv
<1>1. Init => LoopInv
  BY RetryAssumption DEF Init, LoopInv, TypeOK, CounterIsAttempts,
                         SleepIsBudgeted, BodyAtOffset, WholeBody
<1>2. LoopInv /\ [Next]_vars => LoopInv'
  BY LoopStep
<1>3. QED
  BY <1>1, <1>2, PTL DEF Spec

(* bce_http_client never attempts a request more often than the policy's   *)
(* maximum of retries allows, whatever the network and the service do.     *)
THEOREM SdkAttemptsBounded ==
  ASSUME CountsRetries
  PROVE  Spec => []AttemptsBounded
<1>1. LoopInv => AttemptsBounded
  BY RetryAssumption DEF LoopInv, CounterIsAttempts, AttemptsBounded
<1>2. QED
  BY <1>1, LoopInvariant, PTL

(* What the delay was told to last, as long as the next attempt has not    *)
(* slept: that of one retry fewer than were made.                          *)
DelayOfLast ==
  attempts > (IF pc = "prepare" THEN 0 ELSE 1) /\ pc \notin {"sleep", "raised"} =>
    retries > 0 /\ delay = Delay(retries - 1)

LEMMA DelayStep ==
  ASSUME CountsRetries, LoopInv, DelayOfLast, [Next]_vars
  PROVE  DelayOfLast'
<1> USE RetryAssumption DEF LoopInv, TypeOK, CounterIsAttempts, DelayOfLast
<1>1. CASE Prepare
  BY <1>1 DEF Prepare
<1>2. CASE Wake
  BY <1>2 DEF Wake, SleepIsBudgeted
<1>3. CASE /\ UNCHANGED <<retries, attempts, delay>>
           /\ pc \notin {"prepare", "sleep", "raised"} /\ pc' # "prepare"
  BY <1>3
<1>4. CASE \E e \in Errors : Catch(e)
  BY <1>4 DEF Catch
<1>5. CASE UNCHANGED vars
  BY <1>5 DEF vars
<1>6. QED
  BY <1>1, <1>2, <1>3, <1>4, <1>5
  DEF Next, Send, Serve, AnswerLost, Receive, Done, Errors

(* What `1 << n` is worth, which no prover at hand knows of 2^n: the one   *)
(* premise of the next theorem that is not about the loop.                 *)
PowersOfTwo ==
  /\ \A n \in Nat : 2^n \in Nat
  /\ \A n \in Nat : 2^(n + 1) = 2 * 2^n

(* ... sleeps the base interval first, twice as long each time after that, *)
(* and never longer than the maximum ...                                   *)
THEOREM SdkBackoffDoubles ==
  ASSUME CountsRetries, PowersOfTwo
  PROVE  Spec => BackoffDoubles
<1> DEFINE Twice(d) == LET t == 2 * d IN IF t > MaxDelay THEN MaxDelay ELSE t
<1>1. Delay(0) = IF BaseInterval > MaxDelay THEN MaxDelay ELSE BaseInterval
  <2>1. 2^0 = 1
    OBVIOUS
  <2>2. QED
    BY <2>1, RetryAssumption DEF Delay
<1>2. ASSUME NEW n \in Nat PROVE Delay(n + 1) = Twice(Delay(n))
  <2> DEFINE p == 2^n * BaseInterval
  <2>1. p \in Nat
    BY RetryAssumption DEF PowersOfTwo
  <2>2. 2^(n + 1) * BaseInterval = 2 * p
    BY RetryAssumption DEF PowersOfTwo
  <2> HIDE DEF p
  <2>3. Delay(n) = IF p > MaxDelay THEN MaxDelay ELSE p
    BY DEF Delay, p
  <2>4. Delay(n + 1) = IF 2 * p > MaxDelay THEN MaxDelay ELSE 2 * p
    BY <2>2 DEF Delay
  <2>5. QED
    BY <2>1, <2>3, <2>4, RetryAssumption
<1>3. Init => DelayOfLast
  BY DEF Init, DelayOfLast
<1>4. LoopInv /\ DelayOfLast /\ [Next]_vars => DelayOfLast'
  BY DelayStep
<1>5. LoopInv /\ DelayOfLast /\ [Next]_vars =>
        [pc' = "sleep" =>
           LET d == IF attempts = 1 THEN BaseInterval ELSE 2 * delay
           IN  delay' = IF d > MaxDelay THEN MaxDelay ELSE d]_vars
  <2> SUFFICES ASSUME LoopInv, DelayOfLast, Next, ~UNCHANGED vars, pc' = "sleep"
               PROVE  LET d == IF attempts = 1 THEN BaseInterval ELSE 2 * delay
                      IN  delay' = IF d > MaxDelay THEN MaxDelay ELSE d
    BY DEF vars
  <2>1. pc \notin {"prepare", "sleep", "raised"} /\ delay' = Delay(retries)
    BY DEF Next, Prepare, Send, Serve, AnswerLost, Receive, Wake, Done, Catch, LoopInv
  <2>2. retries \in Nat /\ attempts = retries + 1
    BY <2>1, RetryAssumption DEF LoopInv, CounterIsAttempts
  <2>3. CASE attempts = 1
    BY <1>1, <2>1, <2>2, <2>3
  <2>4. CASE attempts # 1
    <3>1. retries > 0 /\ delay = Delay(retries - 1)
      BY <2>1, <2>2, <2>4 DEF DelayOfLast
    <3>2. retries - 1 \in Nat /\ (retries - 1) + 1 = retries
      BY <2>2, <3>1
    <3>3. Delay(retries) = Twice(Delay(retries - 1))
      BY <1>2, <3>2
    <3>4. QED
      BY <2>1, <2>4, <3>1, <3>3
  <2>5. QED
    BY <2>3, <2>4
<1>6. QED
  BY <1>3, <1>4, <1>5, LoopInvariant, PTL DEF Spec, BackoffDoubles

(* ... and sends the whole body each time.                                 *)
THEOREM SdkWholeBody ==
  ASSUME CountsRetries
  PROVE  Spec => []WholeBody
<1>1. LoopInv => WholeBody
  BY DEF LoopInv, BodyAtOffset
<1>2. QED
  BY <1>1, LoopInvariant, PTL

(* The counting loop's steps are steps of the abstract bounded retry, or   *)
(* leave its state alone: the safety half of ImplementsBoundedRetry.       *)
THEOREM SdkRefinesBoundedRetry ==
  ASSUME CountsRetries
  PROVE  Spec => Abstract!Init /\ [][Abstract!Next]_Abstract!vars
<1>1. Init => Abstract!Init
  BY DEF Init, Abstract!Init
<1>2. LoopInv /\ [Next]_vars => [Abstract!Next]_Abstract!vars
  <2> SUFFICES ASSUME LoopInv, [Next]_vars
               PROVE  [Abstract!Next]_Abstract!vars
    OBVIOUS
  <2> USE RetryAssumption DEF Abstract!Next, Abstract!Try, Abstract!Finish,
                              Abstract!vars, LoopInv, CounterIsAttempts, TypeOK
  <2>1. CASE Prepare
    BY <2>1 DEF Prepare
  <2>2. CASE pc \notin {"prepare", "returned", "raised"} /\ UNCHANGED attempts
    <3>1. attempts > 0
      BY <2>2
    <3>2. QED
      BY <2>2, <3>1
  <2>3. CASE UNCHANGED vars
    BY <2>3 DEF vars
  <2>4. QED
    BY <2>1, <2>2, <2>3 DEF Next, Send, Serve, AnswerLost, Receive, Wake, Done
<1>3. QED
  BY <1>1, <1>2, LoopInvariant, PTL DEF Spec

(* Doubt is what an attempt leaves that ends in a transient error.         *)
DoubtInv ==
  /\ applied \in Nat
  /\ applied > 0 /\ pc \in {"prepare", "send", "await", "sleep"} => error \in {"io", "500", "503"}

LEMMA OnlyTransientRetried ==
  ASSUME NEW e \in Errors, NEW n, ShouldRetry(e, n)
  PROVE  e \in {"io", "500", "503"}
BY DEF ShouldRetry, Transient, CodeOf, REQUEST_EXPIRED, Str, Bytes

LEMMA DoubtStep == DoubtInv /\ [Next]_vars => DoubtInv'
<1> SUFFICES ASSUME DoubtInv, [Next]_vars PROVE DoubtInv'
  OBVIOUS
<1>1. ASSUME NEW e \in Errors, Catch(e), UNCHANGED applied PROVE DoubtInv'
  BY <1>1, OnlyTransientRetried DEF Catch, DoubtInv
<1>2. CASE Prepare \/ Wake
  BY <1>2 DEF Prepare, Wake, DoubtInv
<1>3. CASE Send
  <2>1. CASE pc' = "await" /\ UNCHANGED <<error, delay>>
    BY <1>3, <2>1 DEF Send, DoubtInv
  <2>2. CASE Catch("io") \/ Catch("client")
    BY <1>1, <1>3, <2>2 DEF Send, Errors
  <2>3. QED
    BY <1>3, <2>1, <2>2 DEF Send
<1>4. CASE Serve
  BY <1>4 DEF Serve, DoubtInv
<1>5. CASE AnswerLost
  BY <1>1, <1>5 DEF AnswerLost, Errors
<1>6. CASE Receive
  <2>1. CASE pc' = "returned"
    BY <1>6, <2>1 DEF Receive, DoubtInv
  <2>2. CASE \E e \in {"protocol", "500", "503", "expired", "refused"} : Catch(e)
    BY <1>1, <1>6, <2>2 DEF Receive, Errors
  <2>3. QED
    BY <1>6, <2>1, <2>2 DEF Receive
<1>7. CASE UNCHANGED vars
  BY <1>7 DEF vars, DoubtInv
<1>8. QED
  BY <1>2, <1>3, <1>4, <1>5, <1>6, <1>7 DEF Next, Done

(* Neither loop, counting or not, has a request carried out again but in   *)
(* doubt about the last attempt.                                           *)
THEOREM NoRepetitionWithoutDoubt == Spec => RepeatsOnlyInDoubt
<1>1. Init => DoubtInv
  BY DEF Init, DoubtInv
<1>2. DoubtInv /\ [Next]_vars =>
        [applied' > applied /\ applied > 0 => error \in {"io", "500", "503"}]_vars
  <2> SUFFICES ASSUME DoubtInv, Next, applied' > applied, applied > 0
               PROVE  error \in {"io", "500", "503"}
    BY DEF vars
  <2>1. Serve
    BY DEF DoubtInv, Catch, Next, Prepare, Send, AnswerLost, Receive, Wake, Done, vars
  <2>2. QED
    BY <2>1 DEF Serve, DoubtInv
<1>3. QED
  BY <1>1, <1>2, DoubtStep, PTL DEF Spec, RepeatsOnlyInDoubt
=============================================================================
