---------------------------- MODULE MCLocalInvoke ----------------------------
(* Instances of LocalInvoke for TLC.                                       *)
EXTENDS LocalInvoke, TLC

Symmetry == Permutations(Invocations)
=============================================================================
