---------------------------- MODULE MCBackupServer ----------------------------
(***************************************************************************)
(* Instance of BackupServer: two messages, each longer than the buffer, and *)
(* one place in the queue of connections.                                   *)
(***************************************************************************)
EXTENDS BackupServer

CONSTANTS c1, c2

TwoConns == {c1, c2}

MCLength == [c \in TwoConns |-> IF c = c1 THEN 4 ELSE 3]
=============================================================================
