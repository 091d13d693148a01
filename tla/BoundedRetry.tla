----------------------------- MODULE BoundedRetry -----------------------------
(* What "retry with a limit" promises a caller: the request is tried at    *)
(* least once and at most Budget times, and then has one outcome.          *)
EXTENDS Naturals

CONSTANT Budget

VARIABLES tries, outcome

vars == <<tries, outcome>>

Init == tries = 0 /\ outcome = "pending"

Try ==
  /\ outcome = "pending" /\ tries < Budget
  /\ tries' = tries + 1
  /\ UNCHANGED outcome

Finish ==
  /\ outcome = "pending" /\ tries > 0
  /\ outcome' \in {"answered", "failed"}
  /\ UNCHANGED tries

Next == Try \/ Finish

Spec == Init /\ [][Next]_vars /\ WF_vars(Next)
=============================================================================
