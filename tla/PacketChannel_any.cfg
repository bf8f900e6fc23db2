SPECIFICATION Spec
CONSTANTS
  Threads = {t1, t2}
  Addrs = {a1, a2}
  NoStack = NoStack
  FreeChoices = {TRUE, FALSE}
  StackSizes = {1, 2}
  ScriptPages = 1
  RuntimeHasOuter = TRUE
  MayFail = TRUE
  MayRestart = TRUE
INVARIANTS
  NoticeStackLive
PROPERTIES
  WedgedForever
