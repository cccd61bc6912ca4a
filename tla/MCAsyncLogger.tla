---------------------------- MODULE MCAsyncLogger ----------------------------
(***************************************************************************)
(* Instances of AsyncLogger for TLC: two callers and two pool threads.      *)
(***************************************************************************)
EXTENDS AsyncLogger

CONSTANTS w1, w2, c1, c2

TwoWorkers == {w1, w2}

TwoCallers == {c1, c2}
=============================================================================
