SPECIFICATION Spec
CONSTANTS
  Bits = 2
  Op <- Increments
  MaxCalls = 2
PROPERTIES
  IsAtomic
CHECK_DEADLOCK FALSE
