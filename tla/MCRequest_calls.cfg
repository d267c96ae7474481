SPECIFICATION TracedProcess
CONSTANTS
  LevelId = TRUE
  Upstream <- LevelHeaders
  SpanCap = 2
  MaxDepth = 3
  MaxCalls = 4
  MaxRequests = 2
  MaxStep = 8
  NoLog = NoLog
CHECK_DEADLOCK FALSE
INVARIANTS TypeOK LevelBalanced StackAccounting LiveContexts UniqueIds CompleteRecord SpanTree
