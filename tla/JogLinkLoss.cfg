SPECIFICATION FairSpec
CONSTANTS
  Axes = {pan}
  Speeds <- OneSpeed
  Gears <- OneGear
  SpeedMin = 2
  SpeedMax = 3
  GearMin = 1
  GearMax = 2
  Lease = 2
  Repeat = 1
  IdleSleep = 2
  HandleMax = 1
  LateCap = 2
  TxCap = 2
  Faults = {"cut"}
PROPERTIES
  LinkLossStops
