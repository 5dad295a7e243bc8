SPECIFICATION Spec
CONSTANTS
  Bits = 2
  Reg = {0, 1, 2}
  Addr = {1, 2}
  Funct <- MinMax
PROPERTIES
  EmulatesIsa
CHECK_DEADLOCK FALSE
