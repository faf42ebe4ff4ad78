CONSTANTS
  Handlers = {h1, h2}
  W32 = 4
  InitialKinds = {"int", "int32"}
  MaxRequests = 9
  NoValue = NoValue
SPECIFICATION Spec
INVARIANT TypeOK
INVARIANT CounterNeverOvercounts
CHECK_DEADLOCK FALSE
