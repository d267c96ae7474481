SPECIFICATION Spec
CONSTANTS
  Worker = {w1, w2}
  IsCli = FALSE
  IniType = 2
  IniRate = 0
  IniRequest = 1
  PostBody <- MixedPosts
  StartMinute = 0
  LimitBound = 1
  MaxMinute = 1
  MaxRequests = 3
  MaxCrashes = 1
  NoBody = NoBody
  Unread = Unread
CHECK_DEADLOCK FALSE
SYMMETRY Symmetry
INVARIANTS TypeOK CaptureBehindAll PageAhead EpochLimit SettledConfig
