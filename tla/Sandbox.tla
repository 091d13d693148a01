------------------------------- MODULE Sandbox -------------------------------
(***************************************************************************)
(* What a caller of CfcRuntime.invoke is promised about containers, with   *)
(* no Docker, threads or files in sight: a call opens at most one sandbox, *)
(* only while it runs; a sandbox that went down never comes back; a call   *)
(* that returns normally has none up.                                      *)
(***************************************************************************)
CONSTANT Invocations

VARIABLES call, sandbox

vars == <<call, sandbox>>

TypeOK ==
  /\ call \in [Invocations -> {"idle", "open", "returned", "raised"}]
  /\ sandbox \in [Invocations -> {"none", "up", "down"}]

Init ==
  /\ call = [i \in Invocations |-> "idle"]
  /\ sandbox = [i \in Invocations |-> "none"]

Open(i) ==
  /\ call[i] = "idle"
  /\ call' = [call EXCEPT ![i] = "open"]
  /\ UNCHANGED sandbox

Up(i) ==
  /\ call[i] = "open" /\ sandbox[i] = "none"
  /\ sandbox' = [sandbox EXCEPT ![i] = "up"]
  /\ UNCHANGED call

Down(i) ==
  /\ sandbox[i] = "up"
  /\ sandbox' = [sandbox EXCEPT ![i] = "down"]
  /\ UNCHANGED call

Return(i) ==
  /\ call[i] = "open" /\ sandbox[i] # "up"
  /\ call' = [call EXCEPT ![i] = "returned"]
  /\ UNCHANGED sandbox

Raise(i) ==
  /\ call[i] = "open"
  /\ call' = [call EXCEPT ![i] = "raised"]
  /\ UNCHANGED sandbox

Close(i) == Return(i) \/ Raise(i)

Next == \E i \in Invocations : Open(i) \/ Up(i) \/ Down(i) \/ Close(i)

Spec == Init /\ [][Next]_vars

FairSpec == Spec /\ \A i \in Invocations : WF_vars(Down(i)) /\ WF_vars(Close(i))
=============================================================================
