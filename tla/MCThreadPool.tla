---------------------------- MODULE MCThreadPool -----------------------------
(***************************************************************************)
(* Instances of ThreadPool for TLC: two workers, so that one can run a task *)
(* while the other sleeps, and three callers, so that tasks queue up.       *)
(***************************************************************************)
EXTENDS ThreadPool

CONSTANTS w1, w2, c1, c2, c3

TwoWorkers == {w1, w2}

ThreeCallers == {c1, c2, c3}
=============================================================================
