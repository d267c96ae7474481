SPECIFICATION FairSpec
CONSTANTS
  Process = {p1, p2}
  Server = {s1, s2}
  Name = {web, shop}
  Discovery = Discovery
  Garbage = {2}
  MaxStarts = 3
CHECK_DEADLOCK FALSE
INVARIANTS TypeOK SegmentsCredited OneInstance SmoothRoundRobin
PROPERTY Starts
