\* Three slots; page-table pages of two entries; memory for the first process and
\* nearly one more, and for two and a bit.
CONSTANTS
  NPROC = 3
  NFRAMES = 24
  FANOUT = 2
  PGSIZE = 2
  MAXARG = 2
  Binaries <- MCPrograms
  Values = {"v"}
  Increments <- MCIncrements
  BootFree = {13, 24}
  MaxCalls = 3
  PageLimit = 6
SPECIFICATION MemSpec
INVARIANTS FramesOwnedOnce SizeIsMapped
PROPERTY IsAddressSpaces
CHECK_DEADLOCK FALSE
