SPECIFICATION Spec
CONSTANTS
  Worker = {w1, w2}
  Inode = {i1, i2, i3}
  NoFile = NoFile
  DayLength = 2
  MaxTime = 2
  Interval = 0
  Limit = 2
  MaxRequests = 3
  MaxErrors = 2
  MaxRotations = 1
CHECK_DEADLOCK FALSE
SYMMETRY Symmetry
INVARIANTS TypeOK RightFile ErrorsOnce BelowLimit
