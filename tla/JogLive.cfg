SPECIFICATION FairSpec
CONSTANTS
  Axes = {pan}
  Speeds <- MCSpeeds
  Gears <- MCGears
  SpeedMin = 2
  SpeedMax = 3
  GearMin = 1
  GearMax = 2
  Lease = 2
  Repeat = 1
  IdleSleep = 2
  HandleMax = 1
  LateCap = 2
  TxCap = 2
  Faults = {"cut", "close", "stall"}
INVARIANTS
  BeliefMatchesHead
PROPERTIES
  DeadBrowserStops
