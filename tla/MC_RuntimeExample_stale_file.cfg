CONSTANTS
  Cells <- MCCells
  UpdateOrder <- MCUpdateOrder
  MaxTicks = 3
  GCWidth = 12
SPECIFICATION Spec
INVARIANT StaleFileDetectable
CHECK_DEADLOCK FALSE
