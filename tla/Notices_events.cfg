CONSTANTS
  Threads = {t1, t2}
  Modules = {m1, m2}
  None = None
  Calls = {"setint3break", "mkcodebk", "removeint3break"}
  MaxSent = 4
  MaxSessions = 2
SPECIFICATION Spec
CHECK_DEADLOCK FALSE
INVARIANTS
  StaleAtMostOnce
  EventsInOrder
  AnnouncedOnce
PROPERTY SettingReturns
