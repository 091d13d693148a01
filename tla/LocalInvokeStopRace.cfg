\* The timer's stop and the finally block's stop, on a daemon without faults.
SPECIFICATION Spec
CONSTANTS
  Invocations = {i1}
  MainThread = {}
  Modes = {"run"}
  SkipPull = TRUE
  Network = FALSE
  Faults = {}
  MaxInterrupts = 0
  NoInvocation = NoInvocation
INVARIANT StopIsThreadSafe
