SPECIFICATION Spec
CONSTANTS
  VarNames <- MCVarNames
  Family <- MCFamily
  Imms = 2
  Scripts <- MCScripts
  Insts <- MCInsts
INVARIANTS
  NorefKeepsOut AcceptedDenotes ReplacementRoundTrip
PROPERTY BindingsKept
