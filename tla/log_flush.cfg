\* Three batches of one byte, files of two, two runs of the process, each level
\* of flush_log.
SPECIFICATION Spec
CONSTANTS
  Times <- TwoInstants
  Sizes = {1}
  MaxSize = 2
  MaxBatches = 3
  MaxRuns = 2
INVARIANTS FlushTypeOK Durable NoHoles SinksAgree RolledInTime
\* When the batches and the runs are used up nothing is left to do.
CHECK_DEADLOCK FALSE
