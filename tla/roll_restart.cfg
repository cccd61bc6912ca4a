\* A second run of the process meets the file name of the first.
SPECIFICATION Spec
CONSTANTS
  Times <- TwoInstants
  Sizes = {2}
  MaxSize = 2
  MaxBatches = 2
  MaxRuns = 2
INVARIANT FileBounded
CHECK_DEADLOCK FALSE
