CONSTANTS
  i1 = i1
  i2 = i2
  m1 = m1
  m2 = m2
  Idas = {i1, i2}
  MaxInst = 1
  Modules = {m1, m2}
  Readable <- MCReadable
  Bases = {1, 2}
  MayFail = TRUE
  MaxQueue = 1
SPECIFICATION FairSpec
INVARIANTS TranslationIsTrue
PROPERTIES SyncLandsInSender BoundInTheEnd
