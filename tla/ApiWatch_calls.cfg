CONSTANTS
  Regions = 5
  Layout <- MCLayout
  NoModule = NoModule
  Threads = {t1, t2}
  Requests <- MCRequests
  MaxBreaks = 1
SYMMETRY ThreadSymmetry
SPECIFICATION Spec
INVARIANTS
  RecordIsTrue
PROPERTIES
  ForgottenForGood
  CallsBelowTopStop
  OwnExceptionKept
