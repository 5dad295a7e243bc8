SPECIFICATION FairSpec
CONSTANTS
  Payload <- Payloads
  PsramSize <- Sizes
  Window = 12
  Byte = 2
  MaxKeys = 2
  MaxRestarts = 1
INVARIANTS
  CopyFits
  LinuxIsWhole
  PromptMeansNoKernel
PROPERTIES
  BootEnds
CHECK_DEADLOCK FALSE
