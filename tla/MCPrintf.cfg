SPECIFICATION PrintfSpec
CONSTANTS
  Bits = 5
  ShortBits = 4
  CharBits = 3
  BufSize = 5
  Directives <- All
  Capacity = 21
  Counts <- Rooms
INVARIANTS
  BufferHolds
  PrintsAsC
  SnprintfKeepsItsPromise
CHECK_DEADLOCK FALSE
