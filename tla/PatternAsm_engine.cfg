SPECIFICATION Spec
CONSTANTS
  VarNames <- MCVarNames
  Family <- MCFamily
  Imms = 4
  Patterns <- MCPatterns
  Records <- MCRecords
  MaxWindow = 6
INVARIANTS ListIsAlive VerdictIsRight MatchIsDescribed
PROPERTY EachPatternAlone
