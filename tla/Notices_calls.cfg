CONSTANTS
  Threads = {t1, t2}
  Modules = {m1}
  None = None
  Calls = {"setint3break", "removeint3break"}
  MaxSent = 3
  MaxSessions = 1
SPECIFICATION Spec
CHECK_DEADLOCK FALSE
PROPERTY CallsReturn
