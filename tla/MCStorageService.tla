--------------------------- MODULE MCStorageService ---------------------------
(***************************************************************************)
(* Instances of StorageService: contents of two bytes, packed into one.     *)
(***************************************************************************)
EXTENDS StorageService, TLC

MCPackedSize == [s \in 0 .. 2 |-> IF s = 0 THEN 0 ELSE 1]

Symm == Permutations(Clients) \cup Permutations(Names)
=============================================================================
