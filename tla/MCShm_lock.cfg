SPECIFICATION Spec
CONSTANTS
  Proc = {p1, p2}
  Seg = {s1, s2, s3}
  Inode = {i1, i2, i3}
  NumSlots = 1
  MaxStarts = 2
  MaxFaults = 0
  None = None
CHECK_DEADLOCK FALSE
INVARIANT OneFileLock
