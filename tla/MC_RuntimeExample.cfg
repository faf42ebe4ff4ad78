CONSTANTS
  Cells <- MCCells
  UpdateOrder <- MCUpdateOrder
  MaxTicks = 3
  GCWidth = 12
SPECIFICATION Spec
INVARIANT TypeOK
INVARIANT CellsSpanTwoTicks
INVARIANT PauseIndexIsLatest
CHECK_DEADLOCK FALSE
