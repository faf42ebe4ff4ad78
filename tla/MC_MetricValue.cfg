CONSTANTS
  W32 = 4
  W64 = 8
  IntBits = 4
  Metrics = {m1, m2}
  Inputs <- MCInputs
  NoValue = NoValue
SPECIFICATION Spec
INVARIANT TypeOK
INVARIANT CellRoundTrip
