CONSTANTS
  Job = {j1, j2, j3}
  Capacity = 2
  TTL = 1
  MaxTime = 1
  Limit = 1
SPECIFICATION ListingSpec
SYMMETRY Symmetry
INVARIANTS
  Bounded
  HandleOwned
  ShutdownClean
  NoRepeat
  NoSkip
PROPERTIES
  RetentionRespected
CHECK_DEADLOCK FALSE
