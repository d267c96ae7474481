SPECIFICATION LevelProcess
CONSTANTS
  LevelId = TRUE
  Upstream <- NoHeaders
  SpanCap = 2
  MaxDepth = 2
  MaxCalls = 2
  MaxRequests = 1
  MaxStep = 0
  NoLog = NoLog
CHECK_DEADLOCK FALSE
INVARIANT ServerIsRoot
