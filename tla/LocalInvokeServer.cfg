\* A request of a threaded server, and the faults that spare the removal.
SPECIFICATION FairSpec
CONSTANTS
  Invocations = {i1}
  MainThread = {}
  Modes = {"run"}
  SkipPull = TRUE
  Network = FALSE
  Faults = {"disk", "daemon", "start", "stream"}
  MaxInterrupts = 0
  NoInvocation = NoInvocation
INVARIANT TimerSettled
PROPERTY ImplementsFairSandbox
