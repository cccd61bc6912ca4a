SPECIFICATION Spec
CONSTANTS
  Names = {n1, n2}
  Dirs = {"low", "deep"}
  MaxInt = 2147483647
  Clients = {c1, c2}
  Sizes = {2}
  PackedSize <- MCPackedSize
  MaxUploads = 2
  MaxTime = 1
  MaxFaults = 1
  MaxCrashes = 1
INVARIANTS
  StorageTypeOK
  
  TableBacked
  TagMatchesBody
  CompleteIsVersion
PROPERTY ServesLatest
SYMMETRY Symm
