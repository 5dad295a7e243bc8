SPECIFICATION FairSpec
CONSTANTS
  Bits = 2
  Op <- AllOps
  MaxCalls = 2
PROPERTIES
  LosesOnlyToInterrupts
  CallReturns
CHECK_DEADLOCK FALSE
