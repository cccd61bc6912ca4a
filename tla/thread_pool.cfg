\* Three callers, two workers, the destructor at any time.
SPECIFICATION FairPoolSpec
CONSTANTS
  w1 = w1
  w2 = w2
  c1 = c1
  c2 = c2
  c3 = c3
  Workers <- TwoWorkers
  Callers <- ThreeCallers
  MaxCalls = 1
INVARIANTS RunByOneWorker NoIdleWorker DeletedDrained
  NeverAllWait
PROPERTIES GetReturns DtorReturns
\* After the destructor nobody has anything left to do: the pool may stop.
CHECK_DEADLOCK FALSE
