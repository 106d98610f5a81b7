SPECIFICATION Spec
CONSTANTS
  AhrsEvery = 3
  IdleSleep = 2
  HandleMax = 1
  LateCap = 2
  TxCap = 3
INVARIANTS
  HeadIsAsAsked
  TracksInItsMode
  PushRearmed
