\* One process that invokes, debugs or installs on its main thread, two calls one
\* after the other (the second with the first one's SIGTERM handler still there), with
\* Ctrl+C, SIGTERM and the faults that reach the clean-up.
SPECIFICATION Spec
CONSTANTS
  Invocations = {i1, i2}
  MainThread = {i1, i2}
  Modes = {"run", "debug", "install"}
  SkipPull = TRUE
  Network = TRUE
  Faults = {"event", "daemon", "createLost", "start", "inspect", "remove"}
  MaxInterrupts = 1
  NoInvocation = NoInvocation
SYMMETRY Symmetry
INVARIANTS TypeOK HandleNotLost ReturnsClean
PROPERTIES LeakNeedsFailedCleanup ImplementsSandbox
