----------------------------- MODULE BackupServer -----------------------------
(***************************************************************************)
(* The backup server (backlogserver/Server.hpp, Server.cpp): an accepting   *)
(* thread, one detached thread per connection, and the backup file that all *)
(* of them append to.  A client (Client.hpp) sends one message on a         *)
(* connection of its own and closes it.                                     *)
(*                                                                          *)
(* A message is its connection and a length in bytes, the file a sequence   *)
(* of pieces: the bytes from .. to of a message, which read returned at     *)
(* once, with the client's address before them.                             *)
(***************************************************************************)
EXTENDS Integers, Sequences, FiniteSets

CONSTANTS
  Conns,        \* connections
  Length,       \* the length of each one's message
  BufSize,      \* of buf in service: 1024
  Backlog,      \* connections that wait for accept: 32
  MaxFaults, MaxCrashes    \* bounds

ASSUME BackupConfig ==
  /\ Length \in [Conns -> Nat \ {0}]
  /\ {BufSize, Backlog} \subseteq Nat \ {0}
  /\ {MaxFaults, MaxCrashes} \subseteq Nat

VARIABLES
  server,      \* "up", "down", "deaf": it runs, on a port nobody knows
  queue,       \* connected, not accepted
  client,      \* "new", "connected", "sent", "closed"
  stage,       \* the thread of a connection: "none", "read", "write", "done"
  got,         \* bytes read
  buf,         \* the piece in its buffer
  file,        \* logfile.log
  faults, crashes,
  \* History: connections of which the server lost something, by what it did
  \* (with the process, or its thread), or in the file.
  lost, holed

vars == <<server, queue, client, stage, got, buf, file, faults, crashes,
          lost, holed>>

NoPiece == [conn |-> "none"]

Fault == faults < MaxFaults /\ faults' = faults + 1

Minimum(x, y) == IF x <= y THEN x ELSE y

Init ==
  /\ server = "up" /\ queue = << >>
  /\ client = [c \in Conns |-> "new"]
  /\ stage = [c \in Conns |-> "none"]
  /\ got = [c \in Conns |-> 0]
  /\ buf = [c \in Conns |-> NoPiece]
  /\ file = << >>
  /\ faults = 0 /\ crashes = 0
  /\ lost = {} /\ holed = {}

-----------------------------------------------------------------------------
(***************************************************************************)
(* The client: connect succeeds once the kernel has queued the connection.  *)
(* A write to a connection whose server has died may succeed as well; its   *)
(* result is only printed.                                                  *)
(***************************************************************************)
Connect(c) ==
  /\ client[c] = "new"
  /\ server = "up"
  /\ Len(queue) < Backlog
  /\ client' = [client EXCEPT ![c] = "connected"]
  /\ queue' = Append(queue, c)
  /\ UNCHANGED <<server, stage, got, buf, file, faults, crashes, lost, holed>>

SendMessage(c) ==
  /\ client[c] = "connected"
  /\ client' = [client EXCEPT ![c] = "sent"]
  /\ UNCHANGED <<server, queue, stage, got, buf, file, faults, crashes, lost,
                 holed>>

Close(c) ==
  /\ client[c] = "sent"
  /\ client' = [client EXCEPT ![c] = "closed"]
  /\ UNCHANGED <<server, queue, stage, got, buf, file, faults, crashes, lost,
                 holed>>

-----------------------------------------------------------------------------
(***************************************************************************)
(* start_service: accept, and a thread for the connection.  If it cannot be *)
(* created nobody looks, and the connection is never read.                  *)
(***************************************************************************)
Accept ==
  /\ server = "up"
  /\ queue # << >>
  /\ stage' = [stage EXCEPT ![Head(queue)] = "read"]
  /\ queue' = Tail(queue)
  /\ UNCHANGED <<server, client, got, buf, file, faults, crashes, lost, holed>>

AcceptWithoutThread ==
  /\ server = "up"
  /\ queue # << >>
  /\ Fault
  /\ lost' = lost \cup {Head(queue)}
  /\ queue' = Tail(queue)
  /\ UNCHANGED <<server, client, stage, got, buf, file, crashes, holed>>

(***************************************************************************)
(* The process dies: threads, connections and what they held are gone.      *)
(***************************************************************************)
Die ==
  /\ server' = "down"
  /\ lost' = lost \cup {c \in Conns : client[c] # "new" /\ stage[c] # "done"}
  /\ queue' = << >>
  /\ stage' = [c \in Conns |-> IF stage[c] = "done" THEN "done" ELSE "none"]
  /\ UNCHANGED <<client, got, buf, file, holed>>

(***************************************************************************)
(* service: read returns some of what has arrived.                          *)
(***************************************************************************)
Arrived(c) == IF client[c] \in {"sent", "closed"} THEN Length[c] ELSE 0

Piece(c, n) == [conn |-> c, from |-> got[c], to |-> got[c] + n - 1]

(* Faulty variant: the threads share one buffer. *)
ReadShared(c) ==
  /\ stage[c] = "read"
  /\ \E n \in 1 .. Minimum(BufSize, Arrived(c) - got[c]) :
       /\ got' = [got EXCEPT ![c] = @ + n]
       /\ buf' = [d \in Conns |-> Piece(c, n)]
  /\ stage' = [stage EXCEPT ![c] = "write"]
  /\ UNCHANGED <<server, queue, client, file, faults, crashes, lost, holed>>

(* Faulty variant: a short read is taken for the end of the message. *)
ReadOnce(c) ==
  /\ stage[c] = "read"
  /\ got[c] = 0
  /\ \E n \in 1 .. Minimum(BufSize, Arrived(c) - got[c]) :
       /\ got' = [got EXCEPT ![c] = @ + n]
       /\ buf' = [buf EXCEPT ![c] = Piece(c, n)]
  /\ stage' = [stage EXCEPT ![c] = "write"]
  /\ UNCHANGED <<server, queue, client, file, faults, crashes, lost, holed>>

Read(c) ==
  /\ stage[c] = "read"
  /\ \E n \in 1 .. Minimum(BufSize, Arrived(c) - got[c]) :
       /\ got' = [got EXCEPT ![c] = @ + n]
       /\ buf' = [buf EXCEPT ![c] = Piece(c, n)]
  /\ stage' = [stage EXCEPT ![c] = "write"]
  /\ UNCHANGED <<server, queue, client, file, faults, crashes, lost, holed>>

(***************************************************************************)
(* A full read: the terminating zero is written behind the buffer, on the   *)
(* thread's stack.  That may go unnoticed (Read) or end the process.        *)
(***************************************************************************)
ReadOverrun(c) ==
  /\ stage[c] = "read"
  /\ Arrived(c) - got[c] >= BufSize
  /\ crashes < MaxCrashes /\ crashes' = crashes + 1
  /\ Die
  /\ UNCHANGED faults

(* Faulty variant: the end of the connection is taken for that of its message. *)
ReadEndAtClose(c) ==
  /\ stage[c] = "read"
  /\ client[c] = "closed"
  /\ stage' = [stage EXCEPT ![c] = "done"]
  /\ UNCHANGED <<server, queue, client, got, buf, file, faults, crashes, lost,
                 holed>>

(***************************************************************************)
(* read returns 0, or fails for good.                                       *)
(***************************************************************************)
ReadEnd(c) ==
  /\ stage[c] = "read"
  /\ client[c] = "closed" /\ got[c] = Length[c]
  /\ stage' = [stage EXCEPT ![c] = "done"]
  /\ UNCHANGED <<server, queue, client, got, buf, file, faults, crashes, lost,
                 holed>>

ReadFails(c) ==
  /\ stage[c] = "read"
  /\ Fault
  /\ lost' = lost \cup {c}
  /\ stage' = [stage EXCEPT ![c] = "done"]
  /\ UNCHANGED <<server, queue, client, got, buf, file, crashes, holed>>

(***************************************************************************)
(* fopen fails: assert(false).                                              *)
(***************************************************************************)
OpenFileFails(c) ==
  /\ stage[c] = "write"
  /\ Fault
  /\ Die
  /\ UNCHANGED crashes

(* Faulty variant: what could not be written at once is written again. *)
WriteFileAgain(c) ==
  /\ stage[c] = "write"
  /\ file' = Append(file, buf[c])
  /\ stage' \in {[stage EXCEPT ![c] = "read"], stage}
  /\ UNCHANGED <<server, queue, client, got, buf, faults, crashes, lost, holed>>

(***************************************************************************)
(* backup_log: fopen(.., "ab"), and a piece that fits the stream's buffer,  *)
(* so that fflush writes it at once, at what is then the end of the file.   *)
(***************************************************************************)
WriteFile(c) ==
  /\ stage[c] = "write"
  /\ file' = Append(file, buf[c])
  /\ stage' = [stage EXCEPT ![c] = "read"]
  /\ UNCHANGED <<server, queue, client, got, buf, faults, crashes, lost, holed>>

(***************************************************************************)
(* fflush fails: its result is not looked at.                               *)
(***************************************************************************)
WriteFileFails(c) ==
  /\ stage[c] = "write"
  /\ Fault
  /\ holed' = holed \cup {c}
  /\ stage' = [stage EXCEPT ![c] = "read"]
  /\ UNCHANGED <<server, queue, client, got, buf, file, crashes, lost>>

Crash ==
  /\ server # "down"
  /\ crashes < MaxCrashes /\ crashes' = crashes + 1
  /\ Die
  /\ UNCHANGED faults

(***************************************************************************)
(* init_service.  A bind that fails is only printed (the port is in use     *)
(* while connections of the dead process linger); listen then takes a port  *)
(* of its own choice.                                                       *)
(***************************************************************************)
InitService ==
  /\ server = "down"
  /\ server' \in {"up", "deaf"}
  /\ UNCHANGED <<queue, client, stage, got, buf, file, faults, crashes, lost,
                 holed>>

Thread(c) == Read(c) \/ ReadEnd(c) \/ WriteFile(c)

Failure(c) ==
  ReadOverrun(c) \/ ReadFails(c) \/ OpenFileFails(c) \/ WriteFileFails(c)

Client(c) == Connect(c) \/ SendMessage(c) \/ Close(c)

Next ==
  \/ \E c \in Conns : Client(c) \/ Thread(c) \/ Failure(c)
  \/ Accept \/ AcceptWithoutThread
  \/ Crash \/ InitService

Spec == Init /\ [][Next]_vars

(***************************************************************************)
(* The threads run and the accepting loop goes round; a client that has     *)
(* connected sends and closes.                                              *)
(***************************************************************************)
FairSpec ==
  /\ Spec
  /\ WF_vars(Accept)
  /\ \A c \in Conns : WF_vars(Thread(c)) /\ WF_vars(SendMessage(c) \/ Close(c))

-----------------------------------------------------------------------------
Last(p) == p.to = Length[p.conn] - 1

Stored(c) == \E i \in DOMAIN file : file[i].conn = c /\ Last(file[i])

(* A piece of a message comes after those with earlier bytes and shares no  *)
(* byte with them, and it continues one of them or begins the message: no   *)
(* byte is missing before it, repeated or out of order, however the         *)
(* threads' reads and writes interleave.  Bytes may be missing only of a    *)
(* message of which a flush failed.                                         *)
PiecesInOrder ==
  \A i \in DOMAIN file :
    LET p == file[i]
        before == {j \in 1 .. i - 1 : file[j].conn = p.conn}
    IN /\ \A j \in before : file[j].to < p.from
       /\ \/ p.from = 0
          \/ \E j \in before : file[j].to + 1 = p.from
          \/ p.conn \in holed

(* A connection is never forgotten: it waits to be accepted, or a thread    *)
(* reads it, or its message is in the file to its last byte, unless the     *)
(* server died, could not start the thread or read, or a flush failed, with *)
(* it on the way.                                                           *)
NothingForgotten ==
  \A c \in Conns : client[c] # "new" =>
    \/ \E i \in DOMAIN queue : queue[i] = c
    \/ stage[c] \in {"read", "write"}
    \/ Stored(c) \/ c \in lost \cup holed

(* Every message that was sent is in the file to its last byte some time,   *)
(* whatever the sizes read returns, unless the server died, could not start *)
(* the thread or read, or a flush failed, with it on the way.               *)
Delivered ==
  \A c \in Conns :
    client[c] = "sent" ~> Stored(c) \/ c \in lost \cup holed

(***************************************************************************)
(* A message is stored when its last piece is written, unless one is        *)
(* missing: the messages in the order of their last pieces.                 *)
(***************************************************************************)
Ends == {i \in DOMAIN file : Last(file[i]) /\ file[i].conn \notin holed}

Place(i) == Cardinality({j \in Ends : j <= i})

Completed ==
  [n \in 1 .. Cardinality(Ends) |-> file[CHOOSE i \in Ends : Place(i) = n].conn]

InFlight ==
  {c \in Conns : client[c] \in {"sent", "closed"} /\ ~Stored(c)
                 /\ c \notin lost \cup holed}

(* The server implements the store that AsyncLogger assumes: whole messages *)
(* appear once, in any order, and are lost only with the process, a thread  *)
(* or a flush.                                                              *)
Store == INSTANCE BackupStore
  WITH Messages <- Conns, inflight <- InFlight, log <- Completed

ImplementsBackup == Store!StoreSpec
=============================================================================
