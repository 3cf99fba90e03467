\* Init and three more processes on two CPUs.
CONSTANTS
  c1 = c1
  c2 = c2
  CPUs = {c1, c2}
  NPROC = 4
  MaxSyscalls = 3
SPECIFICATION ProcSpec
INVARIANTS StackExclusive WaitNotLost ParentsAlive
