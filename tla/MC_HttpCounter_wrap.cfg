CONSTANTS
  Handlers = {h1}
  W32 = 4
  InitialKinds = {"int", "int32"}
  MaxRequests = 9
  NoValue = NoValue
SPECIFICATION Spec
PROPERTY CounterMonotonic
CHECK_DEADLOCK FALSE
