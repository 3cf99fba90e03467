\* Two producers of three items over a ring of three: a producer can find it full.
CONSTANTS
  Producers = {p1, p2}
  Consumers = {c1, c2}
  Main = main
  Free = free
  NoItem = none
  BufferSize = 3
  ProductionLimit = 3
  Shortfall = 1
SPECIFICATION CVFairSpec
INVARIANTS FifoNoLoss MutexOwnership
PROPERTY EndsIfFed
