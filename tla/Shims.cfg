SPECIFICATION FairSpec
CONSTANTS
  Capturers = {c1}
  FailuresMax = 3
  CooldownSecs = 8
  MinInterval = 2
  SettleSecs = 5
  Guarded = TRUE
INVARIANTS TerminalSurfaces LeakFree
PROPERTIES TrafficBounded SettleRespected FrameComes
