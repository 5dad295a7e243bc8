SPECIFICATION ProgramSpec
CONSTANTS
  Layout <- Layouts
  RamWords = 16
  TextSize <- Texts
  DataSize <- Datas
  TreeSize <- Trees
  Clobber <- Clobbers
INVARIANTS
  MainSeesImage
  PayloadIsFound
  CallerKeepsRegisters
PROPERTIES
  ComesToHalt
CHECK_DEADLOCK FALSE
