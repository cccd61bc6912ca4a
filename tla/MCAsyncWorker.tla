---------------------------- MODULE MCAsyncWorker ----------------------------
(***************************************************************************)
(* Instances of AsyncWorker for TLC: two producers and a buffer of two      *)
(* bytes.  The lines of FittingLens fit an empty buffer, so that a buffer   *)
(* is full after one or two of them; OversizeLens has one that does not,    *)
(* even after the one enlargement of an UNSAFE buffer.                      *)
(***************************************************************************)
EXTENDS AsyncWorker

CONSTANTS p1, p2

TwoProducers == {p1, p2}

FittingLens == {1, 2}

OversizeLens == {1, 5}
=============================================================================
