CONSTANTS
  Images <- MCImages
  Apis = {1, 2}
  Bases = {1000, 2000}
  maxIATTraceLines = 5
  bIATTraceCheckCtx = TRUE
SPECIFICATION Spec
CHECK_DEADLOCK FALSE
INVARIANTS
  KnownIsTrue
  AreaIsTrue
  MeaningKept
PROPERTIES
  NeighboursKept
