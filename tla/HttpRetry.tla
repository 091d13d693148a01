------------------------------ MODULE HttpRetry ------------------------------
(***************************************************************************)
(* One request of the BCE SDK: the send loops of bce_http_client and of    *)
(* CfcClient, the BackOffRetryPolicy they ask, and a service behind a      *)
(* network that loses requests and answers. The two loops differ in where  *)
(* `retries_attempted += 1` stands: CountsRetries says whether the loop    *)
(* reaches it.                                                             *)
(***************************************************************************)
EXTENDS Naturals

CONSTANTS
  MaxErrorRetry,   \* BackOffRetryPolicy.max_error_retry
  MaxDelay,        \* BackOffRetryPolicy.max_delay_in_millis
  BaseInterval,    \* BackOffRetryPolicy.base_interval_in_millis
  CountsRetries,   \* TRUE in bce_http_client, FALSE in CfcClient
  FileBody,        \* the body is a file object, read as it is sent
  MaxAttempts      \* bound on the attempts that are explored

ASSUME RetryAssumption ==
  /\ MaxErrorRetry \in Nat /\ MaxDelay \in Nat /\ BaseInterval \in Nat
  /\ CountsRetries \in BOOLEAN /\ FileBody \in BOOLEAN
  /\ MaxAttempts \in Nat

VARIABLES
  pc,        \* where the sender is
  retries,   \* retries_attempted
  attempts,  \* history: attempts begun
  applied,   \* how often the service has carried the request out
  body,      \* is the file position of the body at the offset noted at first?
  error,     \* the exception of the last failed attempt
  delay      \* what the last sleep was told to last

vars == <<pc, retries, attempts, applied, body, error, delay>>

-----------------------------------------------------------------------------
(* The retry policy. A BceServerError carries a status and the code its    *)
(* JSON body gave, a str; REQUEST_EXPIRED is a bytes literal.              *)

Errors == {"io", "500", "503", "expired", "refused", "client", "protocol"}

Str(s) == <<"str", s>>
Bytes(s) == <<"bytes", s>>
REQUEST_EXPIRED == Bytes("RequestExpired")

CodeOf(e) == IF e = "expired" THEN Str("RequestExpired") ELSE Str("other")

Transient(e) == e \in {"io", "500", "503"} \/ CodeOf(e) = REQUEST_EXPIRED

\* Mutants: `>` for `>=`; every error is tried again.
ShouldRetryOnceMore(e, n) == n <= MaxErrorRetry /\ Transient(e)
ShouldRetryAnything(e, n) == n < MaxErrorRetry

ShouldRetry(e, n) == n < MaxErrorRetry /\ Transient(e)

\* Mutant: the maximum is compared with, and the interval returned.
DelayUncapped(n) == 2^n * BaseInterval

Delay(n) ==
  LET d == 2^n * BaseInterval IN IF d > MaxDelay THEN MaxDelay ELSE d

-----------------------------------------------------------------------------
Init ==
  /\ pc = "prepare"
  /\ retries = 0 /\ attempts = 0 /\ applied = 0
  /\ body = "whole"
  /\ error = "none"
  /\ delay = 0

\* The except clause: ask the policy, and sleep or give up.
Catch(e) ==
  /\ error' = e
  /\ \/ /\ ShouldRetry(e, retries)
        /\ pc' = "sleep"
        /\ delay' = Delay(retries)
     \/ /\ ~ShouldRetry(e, retries)
        /\ pc' = "raised"
        /\ UNCHANGED delay

\* Mutant: a retry sends the body from where the last attempt left it.
PrepareNoSeek ==
  /\ pc = "prepare"
  /\ pc' = "send"
  /\ attempts' = attempts + 1
  /\ UNCHANGED <<retries, applied, body, error, delay>>

\* The top of the loop: date, signature, and on a retry the body rewound if
\* an offset was noted for it.
Prepare ==
  /\ pc = "prepare"
  /\ pc' = "send"
  /\ attempts' = attempts + 1
  /\ body' = IF retries > 0 /\ FileBody THEN "whole" ELSE body
  /\ UNCHANGED <<retries, applied, error, delay>>

\* _send_http_request: the service gets the request, or the connection breaks
\* before it has; a body that is short of Content-Length is a client error.
Send ==
  /\ pc = "send"
  /\ \/ /\ body = "whole"
        /\ body' = IF FileBody THEN "consumed" ELSE "whole"
        /\ \/ pc' = "await" /\ UNCHANGED <<error, delay>>
           \/ Catch("io")
     \/ body = "whole" /\ Catch("io") /\ UNCHANGED body
     \/ body = "consumed" /\ Catch("client") /\ UNCHANGED body
  /\ UNCHANGED <<retries, attempts, applied>>

\* The service carries the request out, or fails or refuses it, or fails late.
Serve ==
  /\ pc = "await"
  /\ \/ applied' = applied + 1 /\ pc' \in {"answer", "answer500", "answer503"}
     \/ /\ UNCHANGED applied
        /\ pc' \in {"answer500", "answer503", "answerExpired", "answerRefused"}
  /\ UNCHANGED <<retries, attempts, body, error, delay>>

\* The request or its answer is lost (a socket timeout is an IOError).
AnswerLost ==
  /\ pc \in {"await", "answer", "answer500", "answer503", "answerExpired",
             "answerRefused"}
  /\ Catch("io")
  /\ UNCHANGED <<retries, attempts, applied, body>>

\* getresponse and the response handlers: parse_error raises for a status that
\* is not 2xx; an answer that is no HTTP or no JSON, that of a failing service
\* included, raises what is neither an IOError nor a BceServerError.
Receive ==
  /\ \/ pc = "answer" /\ pc' = "returned" /\ UNCHANGED <<error, delay>>
     \/ /\ pc \in {"answer", "answer500", "answer503", "answerExpired",
                  "answerRefused"}
        /\ Catch("protocol")
     \/ pc = "answer500" /\ Catch("500")
     \/ pc = "answer503" /\ Catch("503")
     \/ pc = "answerExpired" /\ Catch("expired")
     \/ pc = "answerRefused" /\ Catch("refused")
  /\ UNCHANGED <<retries, attempts, applied, body>>

\* The sleep ends and the loop goes round.
Wake ==
  /\ pc = "sleep" /\ attempts < MaxAttempts
  /\ pc' = "prepare"
  /\ retries' = IF CountsRetries THEN retries + 1 ELSE retries
  /\ UNCHANGED <<attempts, applied, body, error, delay>>

Done == pc \in {"returned", "raised"} /\ UNCHANGED vars

Next == Prepare \/ Send \/ Serve \/ AnswerLost \/ Receive \/ Wake \/ Done

Spec == Init /\ [][Next]_vars

\* The connection has a timeout and the sleep an end: the loop is never stuck.
FairSpec == Spec /\ WF_vars(Next)

-----------------------------------------------------------------------------
TypeOK ==
  /\ pc \in {"prepare", "send", "await", "answer", "answer500", "answer503",
             "answerExpired", "answerRefused", "sleep", "returned", "raised"}
  /\ retries \in 0..MaxErrorRetry /\ attempts \in Nat /\ applied \in Nat
  /\ body \in {"whole", "consumed"}
  /\ error \in Errors \cup {"none"}
  /\ delay \in {0} \cup {Delay(n) : n \in 0..MaxErrorRetry}

\* "will keep retrying until the maximum number of retries is reached": a
\* request is attempted at most once more than the policy's maximum of retries.
AttemptsBounded == attempts <= MaxErrorRetry + 1

\* "2^number_of_retries_attempted*interval", with the retries that really took
\* place: the first sleep is the base interval, every later one twice the one
\* before, and none is longer than the maximum delay.
BackoffDoubles ==
  [][pc' = "sleep" =>
       LET d == IF attempts = 1 THEN BaseInterval ELSE 2 * delay
       IN  delay' = IF d > MaxDelay THEN MaxDelay ELSE d]_vars

\* However often a file body is sent, every attempt sends all of it.
WholeBody == pc = "send" => body = "whole"

\* The service carries a request out again only for a client in doubt: one that
\* lost the answer or was told of a failure. Never after a refusal.
RepeatsOnlyInDoubt ==
  [][applied' > applied /\ applied > 0 => error \in {"io", "500", "503"}]_vars

Abstract == INSTANCE BoundedRetry WITH
  Budget <- MaxErrorRetry + 1,
  tries <- attempts,
  outcome <- CASE pc = "returned" -> "answered"
               [] pc = "raised" -> "failed"
               [] OTHER -> "pending"

\* A loop that counts implements the promise, liveness included.
ImplementsBoundedRetry == Abstract!Spec
=============================================================================
