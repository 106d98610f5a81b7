SPECIFICATION ServicesSpec
CONSTANTS
  StablePolls = 2
  CooldownPolls = 5
  MaxRestarts = 6
  RetryPolls = 5
  RebindPolls = 4
  GracePolls = 3
  MaxAttached = 4
  MaxJobs = 2
  MaxCrashes = 1
  MaxMoves = 2
  RefineMax = 2
INVARIANTS ContentMeansBound OneScript RunningIsReachable AppliedAtItsFrame
PROPERTIES RestartsSpaced SupervisorSettles JobsEnd GotosEnd
CHECK_DEADLOCK FALSE
