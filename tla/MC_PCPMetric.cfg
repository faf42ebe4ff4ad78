CONSTANTS
  Goroutines = {g1, g2, g3}
  Values = {a, b}
  Incompatible = {}
  Init0 = a
  NoG = NoG
  WeakMemory = FALSE
SPECIFICATION Spec
INVARIANT TypeOK
PROPERTY MetricIsLinearizable
