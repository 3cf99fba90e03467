\* Three processes over bursts of one and three ticks; up to three jobs with and
\* without I/O in three queues, some with nothing to run.
CONSTANTS
  Ids = {1, 2, 3}
  Arrivals = {0, 1}
  Bursts = {1, 3}
  Quantum = 2
  Threshold = 2
  MaxJobs = 3
  StartTimes = {0, 2}
  RunTimes = {0, 1, 4}
  IoFreqs = {0, 2}
  numQueues = 3
  quantum <- MCquantum
  allotment <- MCallotment
  Boosts = {0, 3}
  IoTimes = {0, 2}
SPECIFICATION EitherSpec
INVARIANTS QueuesTrue WaitBounded JobsInPlace
PROPERTY SimulationsEnd
CHECK_DEADLOCK FALSE
