SPECIFICATION FairSpec
CONSTANTS
  Pids = {p1, p2, p3}
  Helpers = {h1}
  None = None
  MaxAlive = 2
  MaxFaults = 1
  MaxCalls = 1
INVARIANTS OneOwner
PROPERTIES ServedAgain
CHECK_DEADLOCK FALSE
