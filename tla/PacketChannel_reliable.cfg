SPECIFICATION FairSpec
CONSTANTS
  Threads = {t1, t2}
  Addrs = {a1, a2}
  NoStack = NoStack
  FreeChoices = {TRUE}
  StackSizes = {1, 2}
  ScriptPages = 1
  RuntimeHasOuter = TRUE
  MayFail = FALSE
  MayRestart = FALSE
INVARIANTS
  FrameIntact
  PendingIsInFlight
  NoStackLeaked
PROPERTIES
  ChannelFreed
