\* Two processes, two blocks; a log that one operation of one block fills half.
CONSTANTS
  p1 = p1
  p2 = p2
  b1 = b1
  b2 = b2
  old = old
  new = new
  Procs = {p1, p2}
  Blocks = {b1, b2}
  Values = {old, new}
  Blank = old
  MAXOPBLOCKS = 1
  LOGSIZE = 2
  NLog = 3
  MaxCalls = 7
  MaxCrashes = 2
SPECIFICATION FairSpec
INVARIANTS Pinned Reserved
PROPERTIES Atomicity BeginReturns
CHECK_DEADLOCK FALSE
