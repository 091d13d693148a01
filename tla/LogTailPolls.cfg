SPECIFICATION FairSpec
CONSTANTS
  Events = {1, 2, 3}
  Times = 4
  Start = 2
  MaxRetries = 2
  PageSize = 2
INVARIANTS
  NoneTwice
  PassedOverOnlyLate
  GivesUpOnlyWhenIdle
PROPERTIES
  TailEnds
