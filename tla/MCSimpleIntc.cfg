SPECIFICATION FairSpec
CONSTANTS
  mtie = mtie
  Irq <- TwoWindows
  Stale <- NoStale
  Parent <- TimerOnly
  MaxAssert = 2
INVARIANTS
  TypeOK
  GateOpen
  MaskDiscipline
PROPERTIES
  DeliverySpec
  IrqServed
  TimerFires
  HandlerReturns
