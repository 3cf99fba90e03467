\* Two processes make calls at the same time.
CONSTANTS
  p1 = p1
  p2 = p2
  Procs = {p1, p2}
  NInodes = 5
  NBlocks = 6
  PerBlock = 4
  NDIRECT = 1
  MAXFILE = 2
  NINODE = 4
  NFILE = 2
  NOFILE = 2
  Image <- MCImage
  Calls <- MCCalls
  MaxCalls = 3
  MaxCrashes = 1
SPECIFICATION Spec
INVARIANTS DurableSound BlocksExclusive RefsCounted CallsGoOn
SYMMETRY Symmetry
