SPECIFICATION Spec
CONSTANTS
  Names = {n1, n2}
  Dirs = {"low", "deep"}
  MaxInt = 2147483647
  Clients = {c1}
  Sizes = {2}
  PackedSize <- MCPackedSize
  MaxUploads = 1
  MaxTime = 0
  MaxFaults = 0
  MaxCrashes = 0
INVARIANTS
  MissingIs404
