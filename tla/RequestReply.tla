---------------------------- MODULE RequestReply -----------------------------
(* What a client of the local services is promised, with no containers,    *)
(* threads or streams in sight: a request taken while the service is up    *)
(* runs at most one function, and is answered at most once. A success      *)
(* needs a function that ran for this very request. What is declared to be *)
(* a function's is never answered with a resource of the service's own,    *)
(* and what is not declared never runs one. Only a service that was        *)
(* stopped leaves requests without an answer. A serial service takes one   *)
(* request at a time.                                                      *)
CONSTANT Requests

VARIABLES service, serial, call, declared, ran

vars == <<service, serial, call, declared, ran>>

Answers == {"success", "resource", "failure"}

Init ==
  /\ service = "down" /\ serial \in BOOLEAN
  /\ call = [r \in Requests |-> "none"]
  /\ declared \in [Requests -> BOOLEAN]
  /\ ran = [r \in Requests |-> FALSE]

Up ==
  /\ service = "down" /\ service' = "up"
  /\ UNCHANGED <<serial, call, declared, ran>>

\* However many there are, those that are dropped are so at once.
Drop ==
  \E dropped \in SUBSET {r \in Requests : call[r] = "open"} :
    call' = [r \in Requests |-> IF r \in dropped THEN "dropped" ELSE call[r]]

Stop ==
  /\ service \in {"down", "up"} /\ service' = "stopped"
  /\ Drop
  /\ UNCHANGED <<serial, declared, ran>>

Take(r) ==
  /\ service = "up" /\ call[r] = "none"
  /\ serial => \A s \in Requests : call[s] # "open"
  /\ call' = [call EXCEPT ![r] = "open"]
  /\ \E d \in BOOLEAN : declared' = [declared EXCEPT ![r] = d]
  /\ UNCHANGED <<service, serial, ran>>

Run(r) ==
  /\ call[r] = "open" /\ declared[r] /\ ~ran[r]
  /\ ran' = [ran EXCEPT ![r] = TRUE]
  /\ UNCHANGED <<service, serial, call, declared>>

Answer(r) ==
  /\ call[r] = "open"
  /\ \E a \in Answers :
       /\ a = "success" => ran[r]
       /\ a = "resource" => ~declared[r]
       /\ call' = [call EXCEPT ![r] = a]
  /\ UNCHANGED <<service, serial, declared, ran>>

GoDown == service = "stopped" /\ Drop /\ UNCHANGED <<service, serial, declared, ran>>

Next == Up \/ Stop \/ GoDown \/ \E r \in Requests : Take(r) \/ Run(r) \/ Answer(r)

Spec == Init /\ [][Next]_vars
=============================================================================
