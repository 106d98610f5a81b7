SPECIFICATION Spec
CONSTANTS
  Pids = {p1, p2, p3}
  Helpers = {h1}
  None = None
  MaxAlive = 3
  MaxFaults = 0
  MaxCalls = 0
PROPERTIES LiveLockKept
CHECK_DEADLOCK FALSE
