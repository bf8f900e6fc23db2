SPECIFICATION RewriteSpec
CONSTANTS
  VarNames <- MCVarNames
  Family <- MCFamily
  Imms = 4
  Patterns <- MCPatterns
  Records <- MCRecords
  MaxWindow = 8
  Traces <- MCTraces
  MaxRounds = 4
INVARIANTS WindowIsStretch NothingLeft MeaningPreserved
PROPERTY ScansProgress
CHECK_DEADLOCK FALSE
