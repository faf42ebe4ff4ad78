CONSTANTS
  Goroutines = {g1, g2}
  Values = {a, b}
  Incompatible = {}
  Init0 = a
  NoG = NoG
  WeakMemory = TRUE
SPECIFICATION HSpec
PROPERTY SetNotLost
