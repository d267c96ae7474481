SPECIFICATION Spec
CONSTANTS
  Handle = {h1}
  HeaderArray <- Arrays
  HeaderObject <- Objects
  Closed = Closed
  MaxOps = 5
CHECK_DEADLOCK FALSE
INVARIANT TraceOnce
