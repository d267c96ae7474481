SPECIFICATION MenuSpec
CONSTANTS
  Kind <- AllKinds
  Thrown = {"Exception", "Error"}
  Known = {{"dbname"}, {"dbname", "server"}}
  Handle = {h1}
  h1 = h1
  MaxCalls = 3
  MaxRequests = 2
  MaxClock = 2
  None = None
INVARIANTS
  TypeOK TimesNest ErrorExplained FailureShown FormatsAgree
PROPERTY MultiTimes
CHECK_DEADLOCK FALSE
