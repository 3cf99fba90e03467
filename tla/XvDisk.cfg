\* Three processes, four blocks and three buffers, and a process too many; descriptors
\* for two requests and one left over; the rings wrap and then their indices do.
CONSTANTS
  p1 = p1
  p2 = p2
  p3 = p3
  b1 = b1
  b2 = b2
  b3 = b3
  b4 = b4
  late = late
  new = new
  Procs = {p1, p2, p3, late}
  Blocks = {b1, b2, b3, b4}
  Values = {new}
  NBUF = 3
  NUM = 7
  Wrap = 14
  Start = 13
  MaxCalls = 4
SYMMETRY Alike
SPECIFICATION Bounded
INVARIANTS DescriptorsSound NobodyForgotten
PROPERTY IsBlockStore
CHECK_DEADLOCK FALSE
