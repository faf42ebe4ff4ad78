CONSTANTS
  Cells <- MCCells
  UpdateOrder <- MCUpdateOrder
  MaxTicks = 3
  GCWidth = 12
SPECIFICATION Spec
INVARIANT EveryInstanceSet
CHECK_DEADLOCK FALSE
