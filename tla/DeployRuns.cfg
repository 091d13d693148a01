SPECIFICATION Spec
CONSTANTS
  Functions = 2
  Triggers = 2
  BadRuntime <- MCBadRuntime
  MaxEdits = 2
  Declares <- MCDeclares
  MaxRuns = 2
  MaxCopies = 2
INVARIANTS
  TypeOK
  DoneIsUploaded
  ConfigurationNeverAhead
  SecondCopyNeedsDoubt
