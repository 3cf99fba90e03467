\* The smallest ring main() accepts: two producers that find it full give up.
CONSTANTS
  Producers = {p1, p2, p3}
  Consumers = {c1}
  Main = main
  Free = free
  NoItem = none
  BufferSize = 2
  ProductionLimit = 2
  Shortfall = 1
SPECIFICATION CVFairSpec
PROPERTY ProgramOver
