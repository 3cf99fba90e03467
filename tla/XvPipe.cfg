\* Two processes, a pipe of two bytes whose counters wrap after two rounds.
CONSTANTS
  p1 = p1
  p2 = p2
  b1 = b1
  b2 = b2
  Procs = {p1, p2}
  Creator = p1
  Bytes = {b1, b2}
  PIPESIZE = 2
  Wrap = 4
  MaxN = 3
  MaxCalls = 3
  MaxKills = 1
SPECIFICATION FairSpec
INVARIANTS NobodyStranded FreedUnused
PROPERTIES IsByteQueue EndReleases
CHECK_DEADLOCK FALSE
