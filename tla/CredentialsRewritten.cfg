SPECIFICATION Spec
CONSTANTS
  MaxConfigs = 2
  Functions = 2
  Unsupported = {2}
INVARIANTS
  TypeOK
  CompletedHeals
  CalmReadsSettled
  RegionNotAheadOfKeys
  LossNeedsKill
