SPECIFICATION FairSpec
CONSTANTS
  MaxDiv = 2
INVARIANTS
  RunningClocksAreSteady
  NeverTooFast
  TimersAreRight
  UartMeetsItsPins
PROPERTIES
  AuxChangesAtRest
  ClocksComeUp
CHECK_DEADLOCK FALSE
