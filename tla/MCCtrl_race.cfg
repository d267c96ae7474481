SPECIFICATION Spec
CONSTANTS
  Worker = {w1, w2}
  IsCli = FALSE
  IniType = 2
  IniRate = 0
  IniRequest = 2
  PostBody <- NoPosts
  StartMinute = 0
  LimitBound = 2
  MaxMinute = 1
  MaxRequests = 4
  MaxCrashes = 0
  NoBody = NoBody
  Unread = Unread
CHECK_DEADLOCK FALSE
INVARIANT PerMinuteLimit
