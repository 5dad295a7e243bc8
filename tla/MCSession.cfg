SPECIFICATION FairSpec
CONSTANTS
  TxDepth = 3
  RxDepth = 2
  Keys = {"y", "other"}
  Payload <- Payloads
  PsramSize = {0, 2}
  Window = 2
  Byte = 2
  MaxRestarts = 2
INVARIANTS
  NothingIsDropped
  LinesStartAtTheLeft
PROPERTIES
  ImplementsBoot
  SessionEnds
CHECK_DEADLOCK FALSE
