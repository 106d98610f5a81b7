SPECIFICATION FairSpec
CONSTANTS
  BackoffMin = 1
  BackoffMax = 2
  RegEvery = 1
  BeatEvery = 0
  Silence = 1
  TxCap = 3
  MayFail = {"write", "echo"}
INVARIANTS
  RegisteredBeforeCommand
PROPERTIES
  ImplementsSession
  SilenceNoticed
  Reconnects
