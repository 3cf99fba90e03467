\* Three processes of one or two pages over two frames in each memory: evictions
\* that succeed, that fail, and that pick the process being swapped in.
CONSTANTS
  MM_PG_CNT = 2
  VM_PG_CNT = 2
  MaxPid = 3
  MaxPages = 2
  MaxTime = 4
  Programs <- StoringOrFaulty
SPECIFICATION FairSpec
INVARIANTS CountsMatch FramesExclusive MMConserved
PROPERTIES WordsIsolated CommandsReturn
