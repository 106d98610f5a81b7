SPECIFICATION PartsSpec
CONSTANTS
  Axes = {pan, tilt}
  Speeds <- OneSpeed
  Gears <- OneGear
  SpeedMin = 2
  SpeedMax = 3
  GearMin = 1
  GearMax = 2
  Lease = 3
  Repeat = 1
  IdleSleep = 3
  HandleMax = 1
  LateCap = 2
  TxCap = 1
  Faults = {"cut", "close"}
  Delays <- BackoffDelays
  Stable = 24
  MaxDown = 1
  RateAxes = {1}
  Targets <- SlewRates
  Requests <- PlannedRequests
  Slots <- ThreeSlots
  Readers <- ThreeReaders
  MaxFrames = 4
  MaxSessions = 3
  MaxInits = 2
  Poses <- OnePose
  MaxPoints = 2
  DraftCap = 4
INVARIANTS TypesOK StopOnTime StartsBounded PlanSound HeadFollows FailsClosed
  ConfigSafe NoReadUnaligned HeadHasUploads
PROPERTIES DwellKept ImplementsRegister
CHECK_DEADLOCK FALSE
