----------------------------- MODULE BackupStore ------------------------------
(***************************************************************************)
(* What AsyncLogger takes the backup server for: a message that has been    *)
(* sent is in flight until it is stored, once, in any order, or lost with   *)
(* the server.                                                              *)
(***************************************************************************)
EXTENDS Sequences

CONSTANT Messages

VARIABLES
  inflight,    \* sent, neither stored nor lost
  log          \* what is stored, in order

storeVars == <<inflight, log>>

StoreInit ==
  /\ inflight = {}
  /\ log = << >>

Send(m) ==
  /\ m \notin inflight
  /\ \A i \in DOMAIN log : log[i] # m
  /\ inflight' = inflight \cup {m}
  /\ UNCHANGED log

Store(m) ==
  /\ m \in inflight
  /\ inflight' = inflight \ {m}
  /\ log' = Append(log, m)

Lose(ms) ==
  /\ inflight' = inflight \ ms
  /\ UNCHANGED log

StoreNext ==
  \/ \E m \in Messages : Send(m) \/ Store(m)
  \/ \E ms \in SUBSET Messages : Lose(ms)

StoreSpec == StoreInit /\ [][StoreNext]_storeVars
=============================================================================
