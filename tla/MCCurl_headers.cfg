SPECIFICATION Spec
CONSTANTS
  Handle = {h1, h2}
  HeaderArray <- Arrays
  HeaderObject <- Objects
  Closed = Closed
  MaxOps = 7
CHECK_DEADLOCK FALSE
SYMMETRY Symmetry
INVARIANTS TypeOK UserHeadersKept OwnTraceLast
