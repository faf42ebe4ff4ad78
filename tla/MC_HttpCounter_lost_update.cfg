CONSTANTS
  Handlers = {h1, h2}
  W32 = 4
  InitialKinds = {"int", "int32"}
  MaxRequests = 3
  NoValue = NoValue
SPECIFICATION Spec
PROPERTY CounterMonotonic
CHECK_DEADLOCK FALSE
