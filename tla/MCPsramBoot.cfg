SPECIFICATION FairBoardSpec
CONSTANTS
  Chip <- Fitted
  RxDepth = 4
  Payload <- Payloads
  PsramSize <- Sizes
  Window = 8
  Byte = 2
  MaxKeys = 1
  MaxRestarts = 2
INVARIANTS
  IdIsTheChips
  Outcome
PROPERTIES
  CsMovesBetweenFrames
  SetupReturns
  ImplementsBoot
CHECK_DEADLOCK FALSE
