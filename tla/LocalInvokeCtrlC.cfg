\* Ctrl+C in a call on an otherwise well-behaved daemon.
SPECIFICATION Spec
CONSTANTS
  Invocations = {i1}
  MainThread = {i1}
  Modes = {"run"}
  SkipPull = TRUE
  Network = FALSE
  Faults = {}
  MaxInterrupts = 1
  NoInvocation = NoInvocation
INVARIANT FinallyCleansUp
