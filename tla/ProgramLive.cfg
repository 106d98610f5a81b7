SPECIFICATION FairSpec
CONSTANTS
  Kinds = {"lapse", "focus", "hdr", "plc", "pathlapse", "sun"}
  Frames = {1}
  Poll = 1
  Stale = 2
  IdleSleep = 1
  HandleMax = 1
  TxCap = 2
  RxCap = 2
  MaxRuns = 1
  May = {"cut", "silence", "ack"}
INVARIANTS StaleMeansSilent
PROPERTIES EndNoticed SilenceTold
