SPECIFICATION FairSpec
CONSTANTS
  Requests = {1, 2}
  OptionChoices <- MCOptions
  Routes <- MCRoutes
  StaticFiles = {"page"}
  Functions = {"F"}
  Inputs <- MCInputs
  Outputs <- MCOutputs
  MaxInterrupts = 2
CHECK_DEADLOCK FALSE
INVARIANTS
  TypeOK
  WholeOutput
  StatusTellsCause
PROPERTIES
  EveryRequestAnswered
  ImplementsRequestReply
