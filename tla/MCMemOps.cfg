SPECIFICATION Spec
CONSTANTS
  Size = 4
  Byte <- Bytes
  Val <- Vals
INVARIANTS
  TypeOK
  MovesExactly
  FillsExactly
  ComparesFirstDifference
