SPECIFICATION Spec
CONSTANTS
  Kinds = {"lapse", "pano", "plc"}
  Frames = {1}
  Poll = 1
  Stale = 1
  IdleSleep = 1
  HandleMax = 1
  TxCap = 2
  RxCap = 2
  MaxRuns = 2
  May = {"cut", "ack", "others", "fail"}
INVARIANTS ServerKnows
PROPERTIES EndedByItsOwn
