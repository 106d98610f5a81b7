SPECIFICATION Spec
CONSTANTS
  MaxMoves = 2
  RefineMax = 2
INVARIANT AbortHolds
CHECK_DEADLOCK FALSE
