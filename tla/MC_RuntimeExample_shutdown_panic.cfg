CONSTANTS
  Cells <- MCCells
  UpdateOrder <- MCUpdateOrder
  MaxTicks = 3
  GCWidth = 12
SPECIFICATION Spec
INVARIANT NoPanicAtShutdown
CHECK_DEADLOCK FALSE
