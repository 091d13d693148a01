---------------------------- MODULE MCAttachStream ----------------------------
(* Instances of AttachStream for TLC: every output of up to MaxFrames      *)
(* frames of up to MaxSize bytes, of all types.                            *)
EXTENDS AttachStream, FiniteSetsExt

CONSTANTS MaxFrames, MaxSize

\* The frames, each at its place on the wire.
Placed(fs) ==
  [k \in DOMAIN fs |->
     [type |-> fs[k].type, size |-> fs[k].size,
      start |-> MapThenSumSet(LAMBDA j : HeaderLen + fs[j].size, 1..k - 1)]]

MCFrameSeqs == {Placed(fs) : fs \in SeqOf([type : Types, size : 0..MaxSize], MaxFrames)}
=============================================================================
