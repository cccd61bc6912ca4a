-------------------------- MODULE BackupServerProofs --------------------------
(***************************************************************************)
(* Safety of the backup server for any connections, lengths, buffer size    *)
(* and number of failures, and the store that it implements.  The heart is  *)
(* Front: the bytes of a message before its thread's front are in the       *)
(* file, in order, or were lost in a flush; the piece in the buffer begins  *)
(* at the front.                                                            *)
(***************************************************************************)
EXTENDS BackupServer, FiniteSetTheorems, TLAPS

PieceSet == [conn : Conns, from : Nat, to : Nat]

Stages == {"none", "read", "write", "done"}

BackupTypeOK ==
  /\ queue \in Seq(Conns)
  /\ client \in [Conns -> {"new", "connected", "sent", "closed"}]
  /\ stage \in [Conns -> Stages]
  /\ got \in [Conns -> Nat]
  /\ buf \in [Conns -> PieceSet \cup {NoPiece}]
  /\ file \in Seq(PieceSet)
  /\ holed \subseteq Conns

(* A connection that no thread has had. *)
Fresh(c) ==
  /\ stage[c] = "none"
  /\ got[c] = 0
  /\ \A i \in DOMAIN file : file[i].conn # c

(* A connection waits for one thread, and only after connecting. *)
QueueInv ==
  /\ \A i \in DOMAIN queue : Fresh(queue[i]) /\ client[queue[i]] # "new"
  /\ \A i, j \in DOMAIN queue : queue[i] = queue[j] => i = j
  /\ \A c \in Conns : client[c] = "new" => Fresh(c)

Front(c) == IF stage[c] = "write" THEN buf[c].from ELSE got[c]

BufferInv ==
  \A c \in Conns : stage[c] = "write" =>
    /\ buf[c] \in PieceSet
    /\ buf[c].conn = c
    /\ buf[c].from <= buf[c].to
    /\ buf[c].to + 1 = got[c]

(* What is in the file of a message is before its front, and reaches it. *)
FrontInv ==
  \A c \in Conns : stage[c] \in {"read", "write"} =>
    /\ \A i \in DOMAIN file : file[i].conn = c => file[i].to < Front(c)
    /\ \/ Front(c) = 0
       \/ \E i \in DOMAIN file : file[i].conn = c /\ file[i].to + 1 = Front(c)
       \/ c \in holed

IInv == BackupTypeOK /\ QueueInv /\ BufferInv /\ FrontInv /\ PiecesInOrder

LEMMA InitIInv == Init => IInv
BY BackupConfig DEF Init, IInv, BackupTypeOK, QueueInv, BufferInv, FrontInv,
   PiecesInOrder, Fresh, Stages, NoPiece

(* Faces of Append and Tail that the steps need.                            *)
LEMMA Appended ==
  ASSUME NEW S, NEW s \in Seq(S), NEW x \in S
  PROVE  /\ Append(s, x) \in Seq(S)
         /\ DOMAIN Append(s, x) = DOMAIN s \cup {Len(s) + 1}
         /\ \A i \in DOMAIN s : Append(s, x)[i] = s[i]
         /\ Append(s, x)[Len(s) + 1] = x
         /\ DOMAIN s = 1 .. Len(s)
         /\ Len(s) \in Nat
OBVIOUS

LEMMA Shortened ==
  ASSUME NEW S, NEW s \in Seq(S), s # << >>
  PROVE  /\ Tail(s) \in Seq(S)
         /\ DOMAIN Tail(s) = 1 .. Len(s) - 1
         /\ \A i \in DOMAIN Tail(s) : Tail(s)[i] = s[i + 1] /\ i + 1 \in DOMAIN s
         /\ Head(s) = s[1] /\ Head(s) \in S /\ 1 \in DOMAIN s
         /\ DOMAIN s = 1 .. Len(s)
         /\ Len(s) \in Nat
OBVIOUS

(* Sequences as functions.                                                  *)
LEMMA SequenceIsFunction ==
  ASSUME NEW S, NEW s \in Seq(S)
  PROVE  s \in [1 .. Len(s) -> S]
OBVIOUS

LEMMA SameFunction ==
  ASSUME NEW D, NEW S, NEW f \in [D -> S], NEW g \in [D -> S], \A x \in D : f[x] = g[x]
  PROVE  f = g
OBVIOUS

LEMMA FileTyped ==
  BackupTypeOK => \A i \in DOMAIN file : file[i].from \in Nat /\ file[i].to \in Nat
<1> SUFFICES ASSUME BackupTypeOK, NEW i \in DOMAIN file
             PROVE  file[i].from \in Nat /\ file[i].to \in Nat
  OBVIOUS
<1>1. file[i] \in PieceSet
  BY DEF BackupTypeOK
<1> QED
  BY <1>1 DEF PieceSet

(* Steps that leave the threads and the file alone.                         *)
LEMMA QueueStep ==
  ASSUME IInv, NEW c \in Conns,
         Connect(c) \/ SendMessage(c) \/ Close(c) \/ AcceptWithoutThread
  PROVE  IInv'
<1> USE DEF IInv
<1>1. UNCHANGED <<stage, got, buf, file, holed>>
  BY DEF Connect, SendMessage, Close, AcceptWithoutThread
<1>2. BufferInv' /\ FrontInv' /\ PiecesInOrder'
  BY <1>1 DEF BufferInv, FrontInv, Front, PiecesInOrder
<1>3. CASE Connect(c)
  <2>1. BackupTypeOK'
    BY <1>3, <1>1 DEF Connect, BackupTypeOK
  <2>2. /\ DOMAIN queue' = DOMAIN queue \cup {Len(queue) + 1}
        /\ \A i \in DOMAIN queue : queue'[i] = queue[i]
        /\ queue'[Len(queue) + 1] = c
    BY <1>3, Appended DEF Connect, BackupTypeOK
  <2> QED
    BY <2>1, <2>2, <1>1, <1>2, <1>3 DEF Connect, BackupTypeOK, QueueInv, Fresh
<1>4. CASE SendMessage(c) \/ Close(c)
  <2>1. \E x \in {"sent", "closed"} : client' = [client EXCEPT ![c] = x]
    BY <1>4 DEF SendMessage, Close
  <2>2. UNCHANGED queue
    BY <1>4 DEF SendMessage, Close
  <2>3. BackupTypeOK'
    BY <1>1, <2>1, <2>2 DEF BackupTypeOK
  <2>4. /\ \A d \in Conns : client'[d] = "new" => client[d] = "new"
        /\ \A d \in Conns : client[d] # "new" => client'[d] # "new"
    BY <2>1 DEF BackupTypeOK
  <2>5. \A i \in DOMAIN queue : queue[i] \in Conns
    BY DEF BackupTypeOK
  <2>6. QueueInv'
    BY <1>1, <2>2, <2>4, <2>5 DEF QueueInv, Fresh
  <2> QED
    BY <1>2, <2>3, <2>6
<1>5. CASE AcceptWithoutThread
  <2>1. queue # << >> /\ queue' = Tail(queue) /\ UNCHANGED client
    BY <1>5 DEF AcceptWithoutThread
  <2>2. /\ queue' \in Seq(Conns)
        /\ \A i \in DOMAIN queue' : queue'[i] = queue[i + 1] /\ i + 1 \in DOMAIN queue
        /\ \A i \in DOMAIN queue' : i \in Nat
    BY <2>1, Shortened DEF BackupTypeOK
  <2> QED
    BY <2>1, <2>2, <1>1, <1>2 DEF BackupTypeOK, QueueInv, Fresh
<1> QED
  BY <1>3, <1>4, <1>5

LEMMA AcceptStep == IInv /\ Accept => IInv'
<1> SUFFICES ASSUME IInv, Accept PROVE IInv'
  OBVIOUS
<1> USE DEF IInv
<1> DEFINE c == Head(queue)
<1>1. /\ queue # << >> /\ queue' = Tail(queue)
      /\ stage' = [stage EXCEPT ![c] = "read"]
      /\ UNCHANGED <<client, got, buf, file, holed>>
  BY DEF Accept
<1>2. /\ queue' \in Seq(Conns)
      /\ \A i \in DOMAIN queue' : queue'[i] = queue[i + 1] /\ i + 1 \in DOMAIN queue
      /\ \A i \in DOMAIN queue' : i \in Nat \ {0}
      /\ c = queue[1] /\ c \in Conns /\ 1 \in DOMAIN queue
  BY <1>1, Shortened DEF BackupTypeOK
<1>3. Fresh(c) /\ client[c] # "new"
  BY <1>2 DEF QueueInv
<1>4. BackupTypeOK'
  BY <1>1, <1>2 DEF BackupTypeOK, Stages
<1>5. \A i \in DOMAIN queue' : queue'[i] # c
  BY <1>2 DEF QueueInv
<1>6. QueueInv'
  BY <1>1, <1>2, <1>3, <1>5 DEF QueueInv, Fresh, BackupTypeOK
<1>7. BufferInv' /\ FrontInv'
  BY <1>1, <1>2, <1>3 DEF BufferInv, FrontInv, Front, Fresh, BackupTypeOK
<1>8. PiecesInOrder'
  BY <1>1 DEF PiecesInOrder
<1> QED
  BY <1>4, <1>6, <1>7, <1>8

(* Threads end, and nothing else but the queue changes.                     *)
LEMMA EndStep ==
  ASSUME IInv,
         queue' = queue \/ queue' = << >>,
         stage' \in [Conns -> Stages],
         \A c \in Conns : stage'[c] \in {stage[c], "none"}
                          \/ (stage[c] = "read" /\ stage'[c] = "done"),
         UNCHANGED <<client, got, buf, file, holed>>
  PROVE  IInv'
<1> USE DEF IInv
<1>1. BackupTypeOK'
  <2>1. << >> \in Seq(Conns)
    OBVIOUS
  <2> QED
    BY <2>1 DEF BackupTypeOK
<1>2. \A c \in Conns : Fresh(c) => Fresh(c)'
  BY DEF Fresh
<1>3. QueueInv'
  BY <1>2 DEF QueueInv, BackupTypeOK
<1>4. BufferInv' /\ FrontInv'
  BY DEF BufferInv, FrontInv, Front, BackupTypeOK
<1>5. PiecesInOrder'
  BY DEF PiecesInOrder
<1> QED
  BY <1>1, <1>3, <1>4, <1>5

LEMMA ReadStep ==
  ASSUME IInv, NEW c \in Conns, Read(c)
  PROVE  IInv'
<1> USE DEF IInv
<1> PICK n \in 1 .. Minimum(BufSize, Arrived(c) - got[c]) :
      /\ got' = [got EXCEPT ![c] = @ + n]
      /\ buf' = [buf EXCEPT ![c] = Piece(c, n)]
  BY DEF Read
<1>1. n \in Nat /\ n >= 1
  OBVIOUS
<1>2. /\ stage[c] = "read"
      /\ stage' = [stage EXCEPT ![c] = "write"]
      /\ UNCHANGED <<queue, client, file, holed>>
  BY DEF Read
<1>3. got[c] \in Nat
  BY DEF BackupTypeOK
<1>4. /\ Piece(c, n) \in PieceSet
      /\ Piece(c, n).conn = c
      /\ Piece(c, n).from = got[c]
      /\ Piece(c, n).to = got[c] + n - 1
  BY <1>1, <1>3 DEF Piece, PieceSet
<1>5. BackupTypeOK'
  BY <1>1, <1>2, <1>4 DEF BackupTypeOK, Stages
<1>6. QueueInv'
  BY <1>2 DEF QueueInv, Fresh, BackupTypeOK
<1>7. BufferInv'
  BY <1>1, <1>2, <1>3, <1>4 DEF BufferInv, BackupTypeOK
<1>8. \A d \in Conns : stage'[d] \in {"read", "write"} =>
        stage[d] \in {"read", "write"} /\ Front(d)' = Front(d)
  BY <1>2, <1>4 DEF Front, BackupTypeOK
<1>9. FrontInv' /\ PiecesInOrder'
  BY <1>2, <1>8 DEF FrontInv, PiecesInOrder
<1> QED
  BY <1>5, <1>6, <1>7, <1>9

LEMMA WriteStep ==
  ASSUME IInv, NEW c \in Conns, WriteFile(c)
  PROVE  IInv'
<1> USE DEF IInv
<1> DEFINE p == buf[c]
           n == Len(file) + 1
<1>1. /\ stage[c] = "write"
      /\ stage' = [stage EXCEPT ![c] = "read"]
      /\ file' = Append(file, p)
      /\ UNCHANGED <<queue, client, got, buf, holed>>
  BY DEF WriteFile
<1>2. /\ p \in PieceSet /\ p.conn = c /\ p.from \in Nat /\ p.to \in Nat
      /\ p.from <= p.to /\ p.to + 1 = got[c]
  BY <1>1 DEF BufferInv, PieceSet
<1>3. /\ file' \in Seq(PieceSet)
      /\ DOMAIN file' = DOMAIN file \cup {n}
      /\ \A i \in DOMAIN file : file'[i] = file[i]
      /\ file'[n] = p
      /\ DOMAIN file = 1 .. Len(file) /\ Len(file) \in Nat
  BY <1>1, <1>2, Appended DEF BackupTypeOK
<1>4. BackupTypeOK'
  BY <1>1, <1>3 DEF BackupTypeOK, Stages
<1>5. \A d \in Conns : Fresh(d) => Fresh(d)'
  BY <1>1, <1>2, <1>3 DEF Fresh, BackupTypeOK
<1>6. QueueInv'
  BY <1>1, <1>5 DEF QueueInv, BackupTypeOK
<1>7. BufferInv'
  BY <1>1 DEF BufferInv, BackupTypeOK
<1>8. /\ Front(c) = p.from
      /\ \A i \in DOMAIN file : file[i].conn = c => file[i].to < p.from
      /\ \/ p.from = 0
         \/ \E i \in DOMAIN file : file[i].conn = c /\ file[i].to + 1 = p.from
         \/ c \in holed
  BY <1>1 DEF FrontInv, Front
<1>9. FrontInv'
  <2> SUFFICES ASSUME NEW d \in Conns, stage'[d] \in {"read", "write"}
               PROVE  /\ \A i \in DOMAIN file' : file'[i].conn = d => file'[i].to < Front(d)'
                      /\ \/ Front(d)' = 0
                         \/ \E i \in DOMAIN file' : file'[i].conn = d /\ file'[i].to + 1 = Front(d)'
                         \/ d \in holed'
    BY DEF FrontInv
  <2>1. CASE d = c
    <3>1. Front(c)' = got[c] /\ got[c] \in Nat
      BY <1>1 DEF Front, BackupTypeOK
    <3>2. \A i \in DOMAIN file : file[i].conn = c => file[i].to < got[c]
      BY <1>2, <1>8, <3>1, FileTyped
    <3> QED
      BY <2>1, <3>1, <3>2, <1>2, <1>3
  <2>2. CASE d # c
    <3>1. stage[d] = stage'[d] /\ Front(d)' = Front(d)
      BY <2>2, <1>1 DEF Front, BackupTypeOK
    <3> QED
      BY <2>2, <3>1, <1>1, <1>2, <1>3 DEF FrontInv
  <2> QED
    BY <2>1, <2>2
<1>10. PiecesInOrder'
  <2> SUFFICES ASSUME NEW i \in DOMAIN file'
      PROVE /\ \A j \in 1 .. i - 1 : file'[j].conn = file'[i].conn => file'[j].to < file'[i].from
            /\ \/ file'[i].from = 0
               \/ \E j \in 1 .. i - 1 : file'[j].conn = file'[i].conn
                                        /\ file'[j].to + 1 = file'[i].from
               \/ file'[i].conn \in holed'
    BY DEF PiecesInOrder
  <2>1. CASE i = n
    <3>1. 1 .. i - 1 = DOMAIN file
      BY <2>1, <1>3
    <3>2. file'[i] = p /\ \A j \in DOMAIN file : file'[j] = file[j]
      BY <2>1, <1>3
    <3> QED
      BY <3>1, <3>2, <1>1, <1>2, <1>8
  <2>2. CASE i \in DOMAIN file
    <3>1. \A j \in 1 .. i - 1 : j \in DOMAIN file /\ file'[j] = file[j]
      BY <2>2, <1>3
    <3> QED
      BY <2>2, <3>1, <1>1, <1>3 DEF PiecesInOrder
  <2> QED
    BY <2>1, <2>2, <1>3
<1> QED
  BY <1>4, <1>6, <1>7, <1>9, <1>10

LEMMA WriteFailsStep ==
  ASSUME IInv, NEW c \in Conns, WriteFileFails(c)
  PROVE  IInv'
<1> USE DEF IInv
<1>1. /\ stage[c] = "write"
      /\ stage' = [stage EXCEPT ![c] = "read"]
      /\ holed' = holed \cup {c}
      /\ UNCHANGED <<queue, client, got, buf, file>>
  BY DEF WriteFileFails
<1>2. BackupTypeOK'
  BY <1>1 DEF BackupTypeOK, Stages
<1>3. QueueInv'
  BY <1>1 DEF QueueInv, Fresh, BackupTypeOK
<1>4. BufferInv'
  BY <1>1 DEF BufferInv, BackupTypeOK
<1>5. FrontInv'
  <2>1. Front(c)' = got[c] /\ Front(c) < got[c]
    BY <1>1 DEF Front, BufferInv, PieceSet, BackupTypeOK
  <2>2. \A i \in DOMAIN file : file[i].to \in Nat
    BY FileTyped
  <2>3. \A i \in DOMAIN file : file[i].conn = c => file[i].to < got[c]
    BY <1>1, <2>1, <2>2 DEF FrontInv, Front, BufferInv, PieceSet, BackupTypeOK
  <2>4. \A d \in Conns \ {c} : stage'[d] = stage[d] /\ Front(d)' = Front(d)
    BY <1>1 DEF Front, BackupTypeOK
  <2> QED
    BY <1>1, <2>1, <2>3, <2>4 DEF FrontInv
<1>6. PiecesInOrder'
  BY <1>1 DEF PiecesInOrder
<1> QED
  BY <1>2, <1>3, <1>4, <1>5, <1>6

LEMMA StepIInv == IInv /\ [Next]_vars => IInv'
<1> SUFFICES ASSUME IInv, [Next]_vars PROVE IInv'
  OBVIOUS
<1>1. ASSUME NEW c \in Conns, Client(c) PROVE IInv'
  BY <1>1, QueueStep DEF Client
<1>2. ASSUME NEW c \in Conns, Read(c) \/ WriteFile(c) \/ WriteFileFails(c) PROVE IInv'
  BY <1>2, ReadStep, WriteStep, WriteFailsStep
<1>3. ASSUME NEW c \in Conns, ReadEnd(c) \/ ReadFails(c) PROVE IInv'
  <2>1. /\ stage[c] = "read"
        /\ stage' = [stage EXCEPT ![c] = "done"]
        /\ UNCHANGED <<queue, client, got, buf, file, holed>>
    BY <1>3 DEF ReadEnd, ReadFails
  <2>2. stage \in [Conns -> Stages]
    BY DEF IInv, BackupTypeOK
  <2>3. stage' \in [Conns -> Stages]
    BY <2>1, <2>2 DEF Stages
  <2> QED
    BY <2>1, <2>2, <2>3, EndStep
<1>4. ASSUME Die PROVE IInv'
  <2>1. /\ queue' = << >>
        /\ stage' = [c \in Conns |-> IF stage[c] = "done" THEN "done" ELSE "none"]
        /\ UNCHANGED <<client, got, buf, file, holed>>
    BY <1>4 DEF Die
  <2>2. stage' \in [Conns -> Stages]
    BY <2>1 DEF Stages
  <2> QED
    BY <2>1, <2>2, EndStep
<1>5. ASSUME NEW c \in Conns, ReadOverrun(c) \/ OpenFileFails(c) PROVE IInv'
  BY <1>4, <1>5 DEF ReadOverrun, OpenFileFails
<1>6. CASE Crash
  BY <1>4, <1>6 DEF Crash
<1>7. CASE Accept
  BY <1>7, AcceptStep
<1>8. CASE AcceptWithoutThread
  <2>1. PICK c \in Conns : TRUE
    <3>1. queue # << >> /\ queue \in Seq(Conns)
      BY <1>8 DEF AcceptWithoutThread, IInv, BackupTypeOK
    <3> QED
      BY <3>1, Shortened
  <2> QED
    BY <1>8, QueueStep
<1>9. CASE InitService \/ UNCHANGED vars
  <2>1. UNCHANGED <<queue, client, stage, got, buf, file, holed>>
    BY <1>9 DEF InitService, vars
  <2>2. stage' \in [Conns -> Stages]
    BY <2>1 DEF IInv, BackupTypeOK
  <2> QED
    BY <2>1, <2>2, EndStep
<1> QED
  BY <1>1, <1>2, <1>3, <1>5, <1>6, <1>7, <1>8, <1>9 DEF Next, Thread, Failure

(* The pieces of a message stand in the file once, in order and, unless a   *)
(* flush failed, without a gap, for any number of connections, messages of  *)
(* any length and any sizes that read returns (service, backup_log).        *)
THEOREM PiecesKeptInOrder == Spec => []PiecesInOrder
<1>1. IInv => PiecesInOrder
  BY DEF IInv
<1> QED
  BY <1>1, InitIInv, StepIInv, PTL DEF Spec

-----------------------------------------------------------------------------
(* The store that the server implements                                     *)

(* The places of the elements of a set of numbers, and of one more.         *)
LEMMA Places ==
  ASSUME NEW k \in Nat, NEW E \in SUBSET (1 .. k), NEW F, F = E \cup {k + 1}
  PROVE  /\ IsFiniteSet(E) /\ Cardinality(E) \in Nat
         /\ Cardinality(F) = Cardinality(E) + 1
         /\ \A i \in E : /\ {j \in F : j <= i} = {j \in E : j <= i}
                         /\ Cardinality({j \in E : j <= i}) <= Cardinality(E)
                         /\ Cardinality({j \in E : j <= i}) \in Nat
         /\ {j \in F : j <= k + 1} = F
<1>1. IsFiniteSet(1 .. k)
  BY FS_Interval
<1>2. IsFiniteSet(E) /\ Cardinality(E) \in Nat
  BY <1>1, FS_Subset, FS_CardinalityType
<1>3. k + 1 \notin E
  OBVIOUS
<1>4. Cardinality(F) = Cardinality(E) + 1
  BY <1>2, <1>3, FS_AddElement
<1>5. \A i \in E : i <= k /\ i \in Nat
  OBVIOUS
<1>6. ASSUME NEW i \in E
      PROVE  /\ {j \in F : j <= i} = {j \in E : j <= i}
             /\ Cardinality({j \in E : j <= i}) <= Cardinality(E)
             /\ Cardinality({j \in E : j <= i}) \in Nat
  <2>1. {j \in F : j <= i} = {j \in E : j <= i}
    BY <1>5
  <2>2. {j \in E : j <= i} \in SUBSET E
    OBVIOUS
  <2> QED
    BY <1>2, <2>1, <2>2, FS_Subset, FS_CardinalityType
<1>7. {j \in F : j <= k + 1} = F
  <2>1. \A j \in F : j <= k + 1
    BY <1>5
  <2> QED
    BY <2>1
<1> QED
  BY <1>2, <1>4, <1>6, <1>7

(* Every place up to the number of ends is that of an end.                  *)
Listed == \A n \in 1 .. Cardinality(Ends) : \E i \in Ends : Place(i) = n

(* Nothing is read or lost of a message before it is sent, or beyond its    *)
(* end; what is being served or waits to be is not lost.                    *)
SentInv ==
  /\ \A c \in Conns : got[c] <= Length[c]
  /\ \A c \in Conns : client[c] \in {"new", "connected"} =>
       /\ got[c] = 0 /\ c \notin holed
       /\ \A i \in DOMAIN file : file[i].conn # c
  /\ \A c \in Conns : client[c] = "new" => c \notin lost
  /\ \A c \in Conns : stage[c] \in {"read", "write"} => c \notin lost /\ client[c] # "new"
  /\ \A i \in DOMAIN queue : queue[i] \notin lost

LEMMA EndsTyped ==
  ASSUME BackupTypeOK
  PROVE  /\ Len(file) \in Nat /\ DOMAIN file = 1 .. Len(file)
         /\ Ends \in SUBSET (1 .. Len(file))
         /\ IsFiniteSet(Ends) /\ Cardinality(Ends) \in Nat
<1>1. Len(file) \in Nat /\ DOMAIN file = 1 .. Len(file)
  BY DEF BackupTypeOK
<1>2. Ends \in SUBSET (1 .. Len(file))
  BY <1>1 DEF Ends
<1> QED
  BY <1>1, <1>2, Places

(* The messages stored are connections of which the last piece is written.  *)
LEMMA CompletedStored ==
  ASSUME BackupTypeOK, Listed
  PROVE  /\ Completed \in Seq(Conns) /\ DOMAIN Completed = 1 .. Cardinality(Ends)
         /\ Len(Completed) = Cardinality(Ends)
         /\ \A n \in DOMAIN Completed : Stored(Completed[n])
<1>1. /\ Cardinality(Ends) \in Nat /\ DOMAIN file = 1 .. Len(file)
  BY EndsTyped
<1>2. ASSUME NEW n \in 1 .. Cardinality(Ends)
      PROVE  Completed[n] \in Conns /\ Stored(Completed[n])
  <2>1. (CHOOSE i \in Ends : Place(i) = n) \in Ends
    BY DEF Listed
  <2>2. PICK i \in Ends : Completed[n] = file[i].conn
    BY <2>1 DEF Completed
  <2>3. i \in DOMAIN file /\ Last(file[i]) /\ file[i] \in PieceSet
    BY <2>2 DEF Ends, BackupTypeOK
  <2> QED
    BY <2>2, <2>3 DEF Stored, PieceSet
<1>3. DOMAIN Completed = 1 .. Cardinality(Ends)
  BY DEF Completed
<1>4. Completed \in [1 .. Cardinality(Ends) -> Conns]
  BY <1>2, <1>3 DEF Completed
<1>5. Completed \in Seq(Conns) /\ Len(Completed) = Cardinality(Ends)
  BY <1>1, <1>4
<1> QED
  BY <1>2, <1>3, <1>5

(* A last piece that is written stores its message.                         *)
LEMMA OneMoreStored ==
  ASSUME BackupTypeOK, Listed, NEW p \in PieceSet, file' = Append(file, p), UNCHANGED holed
  PROVE  /\ Listed'
         /\ Completed' = IF Last(p) /\ p.conn \notin holed
                         THEN Append(Completed, p.conn) ELSE Completed
<1>0. PICK k \in Nat : k = Len(file)
  BY EndsTyped
<1>1. /\ DOMAIN file = 1 .. k
      /\ Ends \in SUBSET (1 .. k) /\ Cardinality(Ends) \in Nat
  BY <1>0, EndsTyped
<1>2. /\ DOMAIN file' = DOMAIN file \cup {k + 1}
      /\ \A i \in DOMAIN file : file'[i] = file[i]
      /\ file'[k + 1] = p
  BY <1>0, Appended DEF BackupTypeOK
<1>l. \A n \in 1 .. Cardinality(Ends) : \E i \in Ends : Place(i) = n
  BY DEF Listed
<1>3. CASE Last(p) /\ p.conn \notin holed
  <2>0. PICK F : F = Ends \cup {k + 1}
    OBVIOUS
  <2>1. Ends' = F
    BY <1>2, <1>3, <2>0 DEF Ends, Last
  <2>2. /\ IsFiniteSet(Ends) /\ Cardinality(Ends) \in Nat
        /\ Cardinality(F) = Cardinality(Ends) + 1
        /\ \A i \in Ends : /\ {j \in F : j <= i} = {j \in Ends : j <= i}
                           /\ Cardinality({j \in Ends : j <= i}) <= Cardinality(Ends)
                           /\ Cardinality({j \in Ends : j <= i}) \in Nat
        /\ {j \in F : j <= k + 1} = F
    BY ONLY <1>1, <2>0, k \in Nat, Places
  <2>3. ASSUME NEW i PROVE Place(i)' = Cardinality({j \in F : j <= i})
    BY <2>1 DEF Place
  <2>4. \A i \in Ends : /\ Place(i)' = Place(i) /\ Place(i) <= Cardinality(Ends)
                        /\ Place(i) \in Nat
    BY <2>2, <2>3 DEF Place
  <2>5. Place(k + 1)' = Cardinality(Ends) + 1
    BY <2>2, <2>3
  <2>6. ASSUME NEW n \in 1 .. Cardinality(Ends)
        PROVE  \A i : i \in F /\ Place(i)' = n <=> i \in Ends /\ Place(i) = n
    <3>1. Place(k + 1)' # n
      BY <1>1, <2>5
    <3> QED
      BY <2>0, <2>4, <3>1
  <2>7. ASSUME NEW n, n = Cardinality(Ends) + 1
        PROVE  \A i \in F : Place(i)' = n <=> i = k + 1
    BY <1>1, <2>0, <2>4, <2>5, <2>7
  <2>8. Listed'
    BY <1>1, <1>l, <2>0, <2>1, <2>2, <2>4, <2>5 DEF Listed
  <2>9. ASSUME NEW n \in 1 .. Cardinality(Ends)
        PROVE  file'[CHOOSE i \in F : Place(i)' = n].conn
                 = file[CHOOSE i \in Ends : Place(i) = n].conn
    <3>2. (CHOOSE i \in F : Place(i)' = n) = (CHOOSE i \in Ends : Place(i) = n)
      BY <2>6
    <3>3. (CHOOSE i \in Ends : Place(i) = n) \in DOMAIN file
      BY <1>1, <1>l
    <3> QED
      BY <1>2, <3>2, <3>3
  <2>10. ASSUME NEW n, n = Cardinality(Ends) + 1
         PROVE  file'[CHOOSE i \in F : Place(i)' = n].conn = p.conn
    <3>1. (CHOOSE i \in F : Place(i)' = n) = k + 1
      BY <2>0, <2>7, <2>10
    <3> QED
      BY <1>2, <3>1
  <2> DEFINE k2 == Cardinality(Ends)
  <2>11. /\ Completed \in Seq(Conns) /\ Len(Completed) = k2 /\ p.conn \in Conns
         /\ \A n \in 1 .. k2 : Completed[n] = file[CHOOSE i \in Ends : Place(i) = n].conn
    BY CompletedStored DEF Completed, PieceSet
  <2>12. Completed' = [n \in 1 .. k2 + 1 |-> file'[CHOOSE i \in F : Place(i)' = n].conn]
    BY <2>1, <2>2 DEF Completed
  <2>13. /\ Append(Completed, p.conn) \in Seq(Conns)
         /\ Len(Append(Completed, p.conn)) = k2 + 1
         /\ \A n \in 1 .. k2 : Append(Completed, p.conn)[n] = Completed[n]
         /\ Append(Completed, p.conn)[k2 + 1] = p.conn
    BY <2>11
  <2>14. \A n \in 1 .. k2 + 1 : Completed'[n] = Append(Completed, p.conn)[n]
    <3> SUFFICES ASSUME NEW n \in 1 .. k2 + 1
                 PROVE  Completed'[n] = Append(Completed, p.conn)[n]
      OBVIOUS
    <3>1. Completed'[n] = file'[CHOOSE i \in F : Place(i)' = n].conn
      BY <2>12
    <3>2. n \in 1 .. k2 \/ n = k2 + 1
      BY <1>1
    <3>3. CASE n \in 1 .. k2
      BY <2>9, <2>11, <2>13, <3>1, <3>3
    <3>4. CASE n = k2 + 1
      BY <2>10, <2>13, <3>1, <3>4
    <3> QED
      BY <3>2, <3>3, <3>4
  <2>15. Completed' = Append(Completed, p.conn)
    <3>1. Append(Completed, p.conn) \in [1 .. k2 + 1 -> Conns]
      <4>1. Append(Completed, p.conn) \in [1 .. Len(Append(Completed, p.conn)) -> Conns]
        BY <2>13, SequenceIsFunction
      <4> QED
        BY <2>13, <4>1
    <3>2. \A n \in 1 .. k2 + 1 : Completed'[n] \in Conns
      BY <2>14, <3>1
    <3>3. Completed' \in [1 .. k2 + 1 -> Conns]
      BY <2>12, <3>2
    <3>4. \A f, g \in [1 .. k2 + 1 -> Conns] :
            (\A n \in 1 .. k2 + 1 : f[n] = g[n]) => f = g
      BY SameFunction
    <3> QED
      BY <2>14, <3>1, <3>3, <3>4
  <2> QED
    BY <1>3, <2>8, <2>15
<1>4. CASE ~(Last(p) /\ p.conn \notin holed)
  <2>1. Ends' = Ends
    BY <1>1, <1>2, <1>4 DEF Ends, Last
  <2>2. \A i : Place(i)' = Place(i)
    BY <2>1 DEF Place
  <2>3. Listed'
    BY <2>1, <2>2 DEF Listed
  <2>4. \A n \in 1 .. Cardinality(Ends) :
          /\ (CHOOSE i \in Ends : Place(i)' = n) = (CHOOSE i \in Ends : Place(i) = n)
          /\ (CHOOSE i \in Ends : Place(i) = n) \in DOMAIN file
    BY <1>1, <1>l, <2>2
  <2>5. \A n \in 1 .. Cardinality(Ends) :
          file'[CHOOSE i \in Ends : Place(i)' = n].conn
            = file[CHOOSE i \in Ends : Place(i) = n].conn
    BY <1>2, <2>4
  <2>6. Completed' = Completed
    <3>1. Completed' = [n \in 1 .. Cardinality(Ends) |->
                          file'[CHOOSE i \in Ends : Place(i)' = n].conn]
      BY <2>1 DEF Completed
    <3>2. \A n \in 1 .. Cardinality(Ends) : Completed'[n] = Completed[n]
      <4>1. \A n \in 1 .. Cardinality(Ends) :
              Completed[n] = file[CHOOSE i \in Ends : Place(i) = n].conn
        BY DEF Completed
      <4>2. \A n \in 1 .. Cardinality(Ends) :
              Completed'[n] = file'[CHOOSE i \in Ends : Place(i)' = n].conn
        BY <3>1
      <4> QED
        BY <2>5, <4>1, <4>2
    <3>3. Completed \in [1 .. Cardinality(Ends) -> Conns]
      BY <1>1, CompletedStored
    <3>4. Completed' \in [1 .. Cardinality(Ends) -> Conns]
      BY <3>1, <3>2, <3>3
    <3>5. \A f, g \in [1 .. Cardinality(Ends) -> Conns] :
            (\A n \in 1 .. Cardinality(Ends) : f[n] = g[n]) => f = g
      BY SameFunction
    <3> QED
      BY <3>2, <3>3, <3>4, <3>5
  <2> QED
    BY <1>4, <2>3, <2>6
<1> QED
  BY <1>3, <1>4

LEMMA SentInit == Init => SentInv /\ Listed
<1> SUFFICES ASSUME Init PROVE SentInv /\ Listed
  OBVIOUS
<1>1. SentInv
  BY BackupConfig DEF Init, SentInv
<1>2. Ends = {}
  BY DEF Init, Ends
<1>3. Cardinality(Ends) = 0
  BY <1>2, FS_EmptySet
<1> QED
  BY <1>1, <1>3 DEF Listed

LEMMA SameEnds ==
  ASSUME Listed, UNCHANGED <<file, Ends>>
  PROVE  Listed' /\ Completed' = Completed
<1>1. \A i : Place(i)' = Place(i)
  BY DEF Place
<1>2. Listed'
  BY <1>1 DEF Listed
<1>3. \A n : (CHOOSE i \in Ends : Place(i)' = n) = (CHOOSE i \in Ends : Place(i) = n)
  BY <1>1
<1>4. Completed' = [n \in 1 .. Cardinality(Ends) |->
                      file[CHOOSE i \in Ends : Place(i)' = n].conn]
  BY DEF Completed
<1>5. Completed' = [n \in 1 .. Cardinality(Ends) |->
                      file[CHOOSE i \in Ends : Place(i) = n].conn]
  <2> DEFINE e(n) == file[CHOOSE i \in Ends : Place(i)' = n].conn
             d(n) == file[CHOOSE i \in Ends : Place(i) = n].conn
  <2>1. ASSUME NEW n PROVE e(n) = d(n)
    <3>1. (CHOOSE i \in Ends : Place(i)' = n) = (CHOOSE i \in Ends : Place(i) = n)
      BY <1>3
    <3> QED
      BY <3>1, Zenon
  <2>2. Completed' = [n \in 1 .. Cardinality(Ends) |-> e(n)]
    BY <1>4
  <2> HIDE DEF e, d
  <2>3. Completed' = [n \in 1 .. Cardinality(Ends) |-> d(n)]
    BY <2>1, <2>2
  <2> QED
    BY <2>3 DEF d
<1> QED
  BY <1>2, <1>5 DEF Completed

(* A step that does not touch the file.                                     *)
LEMMA ListedSame ==
  ASSUME Listed, UNCHANGED <<file, holed>>
  PROVE  Listed' /\ Completed' = Completed /\ \A c : Stored(c)' <=> Stored(c)
<1>1. Ends' = Ends
  BY DEF Ends, Last
<1> QED
  BY <1>1, SameEnds DEF Stored, Last

(* A message whose thread has a piece to write is not stored yet.           *)
LEMMA NotStoredYet ==
  ASSUME IInv, SentInv, NEW c \in Conns, stage[c] = "write"
  PROVE  /\ ~Stored(c) /\ got[c] > 0 /\ client[c] \in {"sent", "closed"} /\ c \notin lost
         /\ buf[c] \in PieceSet /\ buf[c].conn = c
<1>1. /\ buf[c] \in PieceSet /\ buf[c].conn = c /\ buf[c].from <= buf[c].to
      /\ buf[c].to + 1 = got[c] /\ buf[c].from \in Nat /\ buf[c].to \in Nat
      /\ \A i \in DOMAIN file : file[i].conn = c => file[i].to < buf[c].from
  BY DEF IInv, BufferInv, FrontInv, Front, PieceSet
<1>2. got[c] \in Nat /\ got[c] > 0 /\ got[c] <= Length[c] /\ Length[c] \in Nat
  BY <1>1, BackupConfig DEF IInv, BackupTypeOK, SentInv
<1>3. \A i \in DOMAIN file : file[i].conn = c => file[i].to # Length[c] - 1
  BY <1>1, <1>2, FileTyped DEF IInv
<1>4. ~Stored(c)
  BY <1>3 DEF Stored, Last
<1>5. client[c] \in {"sent", "closed"}
  BY <1>2 DEF IInv, BackupTypeOK, SentInv
<1> QED
  BY <1>1, <1>2, <1>4, <1>5 DEF SentInv

(* A flush that fails is of a message that is not stored.                   *)
LEMMA HoleBefore ==
  ASSUME IInv, SentInv, Listed, NEW c \in Conns, WriteFileFails(c)
  PROVE  Listed' /\ Completed' = Completed /\ \A d : Stored(d)' <=> Stored(d)
<1>1. /\ stage[c] = "write" /\ holed' = holed \cup {c} /\ UNCHANGED file
  BY DEF WriteFileFails
<1>2. ~Stored(c)
  BY <1>1, NotStoredYet
<1>3. Ends' = Ends
  BY <1>1, <1>2 DEF Ends, Stored, Last
<1> QED
  BY <1>1, <1>3, SameEnds DEF Stored, Last

LEMMA SentStep == IInv /\ SentInv /\ [Next]_vars => SentInv'
<1> SUFFICES ASSUME IInv, SentInv, [Next]_vars PROVE SentInv'
  OBVIOUS
<1>t. BackupTypeOK /\ QueueInv
  BY DEF IInv
(* The queue gets shorter, threads end, more is lost.                       *)
<1>a. ASSUME UNCHANGED <<client, got, file, holed>>,
             \A i \in DOMAIN queue' : \E j \in DOMAIN queue : queue'[i] = queue[j],
             \A c \in Conns : stage'[c] \in {"read", "write"} => stage[c] \in {"read", "write"},
             \A c \in Conns : c \in lost' \ lost =>
                client[c] # "new" /\ stage'[c] \notin {"read", "write"},
             \A i \in DOMAIN queue' : queue'[i] \notin lost' \ lost
      PROVE  SentInv'
  BY <1>a DEF SentInv
<1>d. ASSUME Die PROVE SentInv'
  <2>1. /\ queue' = << >> /\ UNCHANGED <<client, got, file, holed>>
        /\ lost' = lost \cup {c \in Conns : client[c] # "new" /\ stage[c] # "done"}
        /\ stage' = [c \in Conns |-> IF stage[c] = "done" THEN "done" ELSE "none"]
    BY <1>d DEF Die
  <2>2. DOMAIN queue' = {}
    BY <2>1
  <2>3. \A c \in Conns : stage'[c] \notin {"read", "write"}
    BY <2>1
  <2>4. \A c \in Conns : c \in lost' \ lost => client[c] # "new"
    BY <2>1
  <2> QED
    BY <1>a, <2>1, <2>2, <2>3, <2>4
<1>1. ASSUME NEW c \in Conns, Connect(c) PROVE SentInv'
  <2>1. /\ client[c] = "new" /\ client' = [client EXCEPT ![c] = "connected"]
        /\ queue' = Append(queue, c)
        /\ UNCHANGED <<stage, got, file, holed, lost>>
    BY <1>1 DEF Connect
  <2>2. /\ DOMAIN queue' = DOMAIN queue \cup {Len(queue) + 1}
        /\ \A i \in DOMAIN queue : queue'[i] = queue[i]
        /\ queue'[Len(queue) + 1] = c
    BY <1>t, <2>1, Appended DEF BackupTypeOK
  <2>3. c \notin lost
    BY <2>1 DEF SentInv
  <2>4. \A i \in DOMAIN queue' : queue'[i] \notin lost'
    BY <2>1, <2>2, <2>3 DEF SentInv
  <2>5. \A d \in Conns : /\ client'[d] = "new" => client[d] = "new"
                         /\ client'[d] \in {"new", "connected"} =>
                              client[d] \in {"new", "connected"}
                         /\ client[d] # "new" => client'[d] # "new"
    BY <1>t, <2>1 DEF BackupTypeOK
  <2> QED
    BY <2>1, <2>4, <2>5 DEF SentInv
<1>2. ASSUME NEW c \in Conns, SendMessage(c) \/ Close(c) PROVE SentInv'
  <2>1. /\ client[c] \in {"connected", "sent"}
        /\ \E x \in {"sent", "closed"} : client' = [client EXCEPT ![c] = x]
        /\ UNCHANGED <<queue, stage, got, file, holed, lost>>
    BY <1>2 DEF SendMessage, Close
  <2>2. \A d \in Conns : /\ client'[d] \in {"new", "connected"} => client'[d] = client[d]
                         /\ client[d] # "new" => client'[d] # "new"
    BY <1>t, <2>1 DEF BackupTypeOK
  <2> QED
    BY <2>1, <2>2 DEF SentInv
<1>3. CASE Accept
  <2> DEFINE c == Head(queue)
  <2>1. /\ queue # << >> /\ queue' = Tail(queue)
        /\ stage' = [stage EXCEPT ![c] = "read"]
        /\ UNCHANGED <<client, got, file, holed, lost>>
    BY <1>3 DEF Accept
  <2>2. /\ \A i \in DOMAIN queue' : queue'[i] = queue[i + 1] /\ i + 1 \in DOMAIN queue
        /\ c = queue[1] /\ c \in Conns /\ 1 \in DOMAIN queue
    BY <1>t, <2>1, Shortened DEF BackupTypeOK
  <2>3. c \notin lost /\ client[c] # "new"
    BY <1>t, <2>2 DEF SentInv, QueueInv
  <2>4. \A d \in Conns : stage'[d] \in {"read", "write"} =>
                           d \notin lost /\ client[d] # "new"
    BY <1>t, <2>1, <2>3 DEF SentInv, BackupTypeOK
  <2>5. \A i \in DOMAIN queue' : queue'[i] \notin lost
    BY <2>2 DEF SentInv
  <2> QED
    BY <2>1, <2>4, <2>5 DEF SentInv
<1>4. CASE AcceptWithoutThread
  <2> DEFINE c == Head(queue)
  <2>1. /\ queue # << >> /\ queue' = Tail(queue) /\ lost' = lost \cup {c}
        /\ UNCHANGED <<client, stage, got, file, holed>>
    BY <1>4 DEF AcceptWithoutThread
  <2>2. /\ \A i \in DOMAIN queue' : queue'[i] = queue[i + 1] /\ i + 1 \in DOMAIN queue
                                    /\ i \in Nat /\ i # 0
        /\ c = queue[1] /\ c \in Conns /\ 1 \in DOMAIN queue
    BY <1>t, <2>1, Shortened DEF BackupTypeOK
  <2>3. client[c] # "new" /\ stage[c] = "none"
    BY <1>t, <2>2 DEF QueueInv, Fresh
  <2>4. \A i \in DOMAIN queue' : queue'[i] # c
    BY <1>t, <2>2 DEF QueueInv
  <2>5. \A i \in DOMAIN queue' : \E j \in DOMAIN queue : queue'[i] = queue[j]
    BY <2>2
  <2> QED
    BY <1>a, <2>1, <2>3, <2>4, <2>5
<1>5. ASSUME NEW c \in Conns, Read(c) PROVE SentInv'
  <2>1. PICK n \in 1 .. Minimum(BufSize, Arrived(c) - got[c]) :
          got' = [got EXCEPT ![c] = @ + n]
    BY <1>5 DEF Read
  <2>2. /\ stage[c] = "read" /\ stage' = [stage EXCEPT ![c] = "write"]
        /\ UNCHANGED <<queue, client, file, lost, holed>>
    BY <1>5 DEF Read
  <2>3. got[c] \in Nat /\ Length[c] \in Nat /\ BufSize \in Nat /\ n \in Nat /\ n >= 1
    BY <1>t, BackupConfig DEF BackupTypeOK
  <2>4. n <= Arrived(c) - got[c]
    BY <2>3 DEF Minimum, Arrived
  <2>5. client[c] \in {"sent", "closed"} /\ got[c] + n <= Length[c]
    BY <2>3, <2>4 DEF Arrived
  <2>6. \A d \in Conns : /\ got'[d] <= Length[d]
                         /\ client[d] \in {"new", "connected"} => got'[d] = got[d]
    BY <1>t, <2>1, <2>5 DEF SentInv, BackupTypeOK
  <2>7. \A d \in Conns : stage'[d] \in {"read", "write"} => stage[d] \in {"read", "write"}
    BY <1>t, <2>2 DEF BackupTypeOK
  <2> QED
    BY <2>2, <2>6, <2>7 DEF SentInv
<1>6. ASSUME NEW c \in Conns, ReadEnd(c) \/ ReadFails(c) PROVE SentInv'
  <2>1. /\ stage[c] = "read" /\ stage' = [stage EXCEPT ![c] = "done"]
        /\ lost' \in {lost, lost \cup {c}}
        /\ UNCHANGED <<queue, client, got, file, holed>>
    BY <1>6 DEF ReadEnd, ReadFails
  <2>2. client[c] # "new" /\ \A i \in DOMAIN queue : queue[i] # c
    BY <1>t, <2>1 DEF SentInv, QueueInv, Fresh
  <2>3. \A d \in Conns : /\ stage'[d] \in {"read", "write"} => stage[d] \in {"read", "write"}
                         /\ stage'[c] = "done"
    BY <1>t, <2>1 DEF BackupTypeOK
  <2> QED
    BY <1>a, <2>1, <2>2, <2>3
<1>7. ASSUME NEW c \in Conns, WriteFile(c) PROVE SentInv'
  <2>1. /\ stage[c] = "write" /\ stage' = [stage EXCEPT ![c] = "read"]
        /\ file' = Append(file, buf[c])
        /\ UNCHANGED <<queue, client, got, lost, holed>>
    BY <1>7 DEF WriteFile
  <2>2. client[c] \in {"sent", "closed"} /\ buf[c] \in PieceSet /\ buf[c].conn = c
    BY <2>1, NotStoredYet
  <2>3. /\ DOMAIN file' = DOMAIN file \cup {Len(file) + 1}
        /\ \A i \in DOMAIN file : file'[i] = file[i]
        /\ file'[Len(file) + 1] = buf[c]
    BY <1>t, <2>1, <2>2, Appended DEF BackupTypeOK
  <2>4. \A d \in Conns : client[d] \in {"new", "connected"} =>
          \A i \in DOMAIN file' : file'[i].conn # d
    BY <2>2, <2>3 DEF SentInv
  <2>5. \A d \in Conns : stage'[d] \in {"read", "write"} => stage[d] \in {"read", "write"}
    BY <1>t, <2>1 DEF BackupTypeOK
  <2> QED
    BY <2>1, <2>4, <2>5 DEF SentInv
<1>8. ASSUME NEW c \in Conns, WriteFileFails(c) PROVE SentInv'
  <2>1. /\ stage[c] = "write" /\ stage' = [stage EXCEPT ![c] = "read"]
        /\ holed' = holed \cup {c}
        /\ UNCHANGED <<queue, client, got, file, lost>>
    BY <1>8 DEF WriteFileFails
  <2>2. client[c] \in {"sent", "closed"}
    BY <2>1, NotStoredYet
  <2>3. \A d \in Conns : stage'[d] \in {"read", "write"} => stage[d] \in {"read", "write"}
    BY <1>t, <2>1 DEF BackupTypeOK
  <2> QED
    BY <2>1, <2>2, <2>3 DEF SentInv
<1>9. ASSUME NEW c \in Conns, ReadOverrun(c) \/ OpenFileFails(c) PROVE SentInv'
  BY <1>9, <1>d DEF ReadOverrun, OpenFileFails
<1>10. CASE Crash
  BY <1>10, <1>d DEF Crash
<1>11. CASE InitService \/ UNCHANGED vars
  BY <1>11 DEF InitService, vars, SentInv
<1> QED
  BY <1>1, <1>2, <1>3, <1>4, <1>5, <1>6, <1>7, <1>8, <1>9, <1>10, <1>11
  DEF Next, Client, Thread, Failure

(* A step that only loses, in terms of the store.                           *)
LEMMA OnlyLoses ==
  ASSUME Completed' = Completed, NEW D,
         InFlight' = InFlight \ D
  PROVE  [Store!StoreNext]_(Store!storeVars)
<1>1. InFlight' = InFlight \ (D \cap Conns)
  BY DEF InFlight
<1>2. D \cap Conns \in SUBSET Conns
  OBVIOUS
<1>3. Store!Lose(D \cap Conns)
  BY <1>1 DEF Store!Lose
<1> QED
  BY <1>2, <1>3 DEF Store!StoreNext

LEMMA StoreStep ==
  IInv /\ SentInv /\ Listed /\ [Next]_vars =>
    Listed' /\ [Store!StoreNext]_(Store!storeVars)
<1> SUFFICES ASSUME IInv, SentInv, Listed, [Next]_vars
             PROVE  Listed' /\ [Store!StoreNext]_(Store!storeVars)
  OBVIOUS
<1>t. BackupTypeOK
  BY DEF IInv
(* The file and the clients stay, something may be lost.                    *)
<1>a. ASSUME UNCHANGED <<client, file, holed>>, NEW D, lost' = lost \cup D
      PROVE  Listed' /\ [Store!StoreNext]_(Store!storeVars)
  <2>1. Listed' /\ Completed' = Completed /\ \A c : Stored(c)' <=> Stored(c)
    BY <1>a, ListedSame
  <2>2. InFlight' = InFlight \ D
    BY <1>a, <2>1 DEF InFlight
  <2> QED
    BY <2>1, <2>2, OnlyLoses
<1>b. ASSUME UNCHANGED <<client, file, holed, lost>>
      PROVE  Listed' /\ [Store!StoreNext]_(Store!storeVars)
  <2>1. lost' = lost \cup {}
    BY <1>b
  <2> QED
    BY <1>a, <1>b, <2>1
<1>1. ASSUME NEW c \in Conns, Connect(c) \/ Close(c)
      PROVE  Listed' /\ [Store!StoreNext]_(Store!storeVars)
  <2>1. /\ \/ client[c] = "new" /\ client' = [client EXCEPT ![c] = "connected"]
           \/ client[c] = "sent" /\ client' = [client EXCEPT ![c] = "closed"]
        /\ UNCHANGED <<file, holed, lost>>
    BY <1>1 DEF Connect, Close
  <2>2. Listed' /\ Completed' = Completed /\ \A d : Stored(d)' <=> Stored(d)
    BY <2>1, ListedSame
  <2>3. \A d \in Conns : client'[d] \in {"sent", "closed"} <=> client[d] \in {"sent", "closed"}
    BY <1>t, <2>1 DEF BackupTypeOK
  <2>4. InFlight' = InFlight \ {}
    BY <2>1, <2>2, <2>3 DEF InFlight
  <2> QED
    BY <2>2, <2>4, OnlyLoses
<1>2. ASSUME NEW c \in Conns, SendMessage(c)
      PROVE  Listed' /\ [Store!StoreNext]_(Store!storeVars)
  <2>1. /\ client[c] = "connected" /\ client' = [client EXCEPT ![c] = "sent"]
        /\ UNCHANGED <<file, holed, lost>>
    BY <1>2 DEF SendMessage
  <2>2. Listed' /\ Completed' = Completed /\ \A d : Stored(d)' <=> Stored(d)
    BY <2>1, ListedSame
  <2>3. c \notin holed /\ ~Stored(c)
    BY <2>1 DEF SentInv, Stored
  <2>4. \A d \in Conns : client'[d] \in {"sent", "closed"} <=>
                           client[d] \in {"sent", "closed"} \/ d = c
    BY <1>t, <2>1 DEF BackupTypeOK
  <2>5. CASE c \in lost
    <3>1. InFlight' = InFlight \ {}
      BY <2>1, <2>2, <2>4, <2>5 DEF InFlight
    <3> QED
      BY <2>2, <3>1, OnlyLoses
  <2>6. CASE c \notin lost
    <3>1. InFlight' = InFlight \cup {c} /\ c \notin InFlight
      BY <2>1, <2>2, <2>3, <2>4, <2>6 DEF InFlight
    <3>2. \A n \in DOMAIN Completed : Completed[n] # c
      BY <1>t, <2>3, CompletedStored
    <3>3. Store!Send(c)
      BY <2>2, <3>1, <3>2 DEF Store!Send
    <3> QED
      BY <2>2, <3>3 DEF Store!StoreNext
  <2> QED
    BY <2>5, <2>6
<1>3. ASSUME NEW c \in Conns, WriteFile(c)
      PROVE  Listed' /\ [Store!StoreNext]_(Store!storeVars)
  <2>1. /\ stage[c] = "write" /\ file' = Append(file, buf[c])
        /\ UNCHANGED <<client, holed, lost>>
    BY <1>3 DEF WriteFile
  <2>2. /\ ~Stored(c) /\ client[c] \in {"sent", "closed"} /\ c \notin lost
        /\ buf[c] \in PieceSet /\ buf[c].conn = c
    BY <2>1, NotStoredYet
  <2>p. PICK p \in PieceSet : p = buf[c]
    BY <2>2
  <2>3. /\ Listed'
        /\ Completed' = IF Last(p) /\ c \notin holed THEN Append(Completed, c) ELSE Completed
    BY <1>t, <2>1, <2>2, <2>p, OneMoreStored
  <2>4. /\ DOMAIN file' = DOMAIN file \cup {Len(file) + 1}
        /\ \A i \in DOMAIN file : file'[i] = file[i]
        /\ file'[Len(file) + 1] = p
    BY <1>t, <2>1, <2>p, Appended DEF BackupTypeOK
  <2>5. \A d \in Conns : Stored(d)' <=> Stored(d) \/ (d = c /\ Last(p))
    BY <2>2, <2>p, <2>4 DEF Stored, Last
  <2>6. CASE Last(p) /\ c \notin holed
    <3>1. InFlight' = InFlight \ {c} /\ c \in InFlight
      BY <2>1, <2>2, <2>5, <2>6 DEF InFlight
    <3>2. Store!Store(c)
      BY <2>3, <2>6, <3>1 DEF Store!Store
    <3> QED
      BY <2>3, <3>2 DEF Store!StoreNext
  <2>7. CASE ~(Last(p) /\ c \notin holed)
    <3>1. InFlight' = InFlight \ {}
      BY <2>1, <2>5, <2>7 DEF InFlight
    <3> QED
      BY <2>3, <2>7, <3>1, OnlyLoses
  <2> QED
    BY <2>6, <2>7
<1>4. ASSUME NEW c \in Conns, WriteFileFails(c)
      PROVE  Listed' /\ [Store!StoreNext]_(Store!storeVars)
  <2>1. holed' = holed \cup {c} /\ UNCHANGED <<client, file, lost>>
    BY <1>4 DEF WriteFileFails
  <2>2. Listed' /\ Completed' = Completed /\ \A d : Stored(d)' <=> Stored(d)
    BY <1>4, HoleBefore
  <2>3. InFlight' = InFlight \ {c}
    BY <2>1, <2>2 DEF InFlight
  <2> QED
    BY <2>2, <2>3, OnlyLoses
<1>5. ASSUME NEW c \in Conns, Read(c) \/ ReadEnd(c) \/ ReadFails(c)
      PROVE  Listed' /\ [Store!StoreNext]_(Store!storeVars)
  BY <1>5, <1>a, <1>b DEF Read, ReadEnd, ReadFails
<1>6. CASE Accept \/ AcceptWithoutThread
  BY <1>6, <1>a, <1>b DEF Accept, AcceptWithoutThread
<1>7. ASSUME Die PROVE Listed' /\ [Store!StoreNext]_(Store!storeVars)
  BY <1>7, <1>a DEF Die
<1>8. ASSUME NEW c \in Conns, ReadOverrun(c) \/ OpenFileFails(c)
      PROVE  Listed' /\ [Store!StoreNext]_(Store!storeVars)
  BY <1>7, <1>8 DEF ReadOverrun, OpenFileFails
<1>9. CASE Crash \/ InitService \/ UNCHANGED vars
  BY <1>7, <1>9, <1>b DEF Crash, InitService, vars
<1> QED
  BY <1>1, <1>2, <1>3, <1>4, <1>5, <1>6, <1>8, <1>9 DEF Next, Client, Thread, Failure

(* The server (service, backup_log) implements the store that AsyncLogger   *)
(* assumes: a message that was sent appears once, in any order, when its    *)
(* last piece is written, and is lost only with the process, a thread or a  *)
(* flush; for any connections, lengths, reads and failures.                 *)
THEOREM ServerIsStore == Spec => ImplementsBackup
<1>1. Init => Store!StoreInit
  <2> SUFFICES ASSUME Init PROVE InFlight = {} /\ Completed = << >>
    BY DEF Store!StoreInit
  <2>1. InFlight = {}
    BY DEF Init, InFlight
  <2>2. IInv /\ Listed
    BY InitIInv, SentInit
  <2>3. Ends = {}
    BY DEF Init, Ends
  <2>4. Len(Completed) = 0 /\ Completed \in Seq(Conns)
    BY <2>2, <2>3, CompletedStored, FS_EmptySet DEF IInv
  <2> QED
    BY <2>1, <2>4
<1> QED
  BY <1>1, InitIInv, StepIInv, SentInit, SentStep, StoreStep, PTL
  DEF Spec, ImplementsBackup, Store!StoreSpec

-----------------------------------------------------------------------------
(* What becomes of a connection                                             *)

(* The bytes that were read to the end have been written.                   *)
LEMMA WholeAtEnd ==
  ASSUME IInv, NEW c \in Conns, stage[c] = "read", got[c] = Length[c]
  PROVE  Stored(c) \/ c \in holed
<1>1. Front(c) = Length[c] /\ Length[c] \in Nat \ {0}
  BY BackupConfig DEF Front
<1>2. \/ Front(c) = 0
      \/ \E i \in DOMAIN file : file[i].conn = c /\ file[i].to + 1 = Front(c)
      \/ c \in holed
  BY DEF IInv, FrontInv
<1>3. \A i \in DOMAIN file : file[i].conn = c /\ file[i].to + 1 = Length[c] => Stored(c)
  BY FileTyped, <1>1 DEF IInv, Stored, Last
<1> QED
  BY <1>1, <1>2, <1>3

LEMMA NotForgottenStep ==
  ASSUME IInv, NothingForgotten, [Next]_vars
  PROVE  NothingForgotten'
<1>t. BackupTypeOK
  BY DEF IInv
(* A connection keeps its place, or its message stays in the file.          *)
<1>k. ASSUME UNCHANGED queue,
             \A c \in Conns : client'[c] = "new" <=> client[c] = "new",
             \A i \in DOMAIN file : i \in DOMAIN file' /\ file'[i] = file[i],
             lost \subseteq lost', holed \subseteq holed',
             \A c \in Conns : stage[c] \in {"read", "write"} =>
               stage'[c] \in {"read", "write"} \/ Stored(c) \/ c \in lost' \cup holed'
      PROVE  NothingForgotten'
  <2>1. \A c \in Conns : Stored(c) => Stored(c)'
    BY <1>k DEF Stored, Last
  <2> QED
    BY <1>k, <2>1 DEF NothingForgotten
<1>f. UNCHANGED file => \A c \in Conns : Stored(c)' <=> Stored(c)
  BY DEF Stored, Last
<1>d. ASSUME Die PROVE NothingForgotten'
  <2>1. /\ UNCHANGED <<client, file, holed>>
        /\ lost' = lost \cup {c \in Conns : client[c] # "new" /\ stage[c] # "done"}
        /\ stage' = [c \in Conns |-> IF stage[c] = "done" THEN "done" ELSE "none"]
    BY <1>d DEF Die
  <2>2. ASSUME NEW c \in Conns, client'[c] # "new"
        PROVE  Stored(c)' \/ c \in lost' \cup holed'
    <3>1. CASE stage[c] # "done"
      BY <2>1, <2>2, <3>1
    <3>2. CASE stage[c] = "done"
      <4>1. \A i \in DOMAIN queue : queue[i] # c
        BY <3>2 DEF IInv, QueueInv, Fresh
      <4>2. Stored(c) \/ c \in lost \cup holed
        BY <2>1, <2>2, <3>2, <4>1 DEF NothingForgotten
      <4> QED
        BY <1>f, <2>1, <4>2
    <3> QED
      BY <3>1, <3>2
  <2> QED
    BY <2>2 DEF NothingForgotten
<1>1. ASSUME NEW c \in Conns, Connect(c) PROVE NothingForgotten'
  <2>1. /\ client' = [client EXCEPT ![c] = "connected"] /\ queue' = Append(queue, c)
        /\ UNCHANGED <<stage, file, holed, lost>>
    BY <1>1 DEF Connect
  <2>2. /\ DOMAIN queue' = DOMAIN queue \cup {Len(queue) + 1}
        /\ \A i \in DOMAIN queue : queue'[i] = queue[i]
        /\ queue'[Len(queue) + 1] = c
    BY <1>t, <2>1, Appended DEF BackupTypeOK
  <2>3. \A d \in Conns : d # c => client'[d] = client[d]
    BY <1>t, <2>1 DEF BackupTypeOK
  <2> QED
    BY <1>f, <2>1, <2>2, <2>3 DEF NothingForgotten
<1>2. ASSUME NEW c \in Conns, SendMessage(c) \/ Close(c) PROVE NothingForgotten'
  <2>1. /\ client[c] # "new" /\ \E x \in {"sent", "closed"} : client' = [client EXCEPT ![c] = x]
        /\ UNCHANGED <<queue, stage, file, holed, lost>>
    BY <1>2 DEF SendMessage, Close
  <2>2. \A d \in Conns : client'[d] = "new" <=> client[d] = "new"
    BY <1>t, <2>1 DEF BackupTypeOK
  <2> QED
    BY <1>k, <2>1, <2>2
<1>3. CASE Accept \/ AcceptWithoutThread
  <2> DEFINE h == Head(queue)
  <2>1. /\ queue # << >> /\ queue' = Tail(queue) /\ UNCHANGED <<client, file, holed>>
        /\ \/ stage' = [stage EXCEPT ![h] = "read"] /\ UNCHANGED lost
           \/ lost' = lost \cup {h} /\ UNCHANGED stage
    BY <1>3 DEF Accept, AcceptWithoutThread
  <2>2. /\ DOMAIN queue' = 1 .. Len(queue) - 1 /\ DOMAIN queue = 1 .. Len(queue)
        /\ \A i \in DOMAIN queue' : queue'[i] = queue[i + 1]
        /\ h = queue[1] /\ h \in Conns /\ Len(queue) \in Nat
    BY <1>t, <2>1, Shortened DEF BackupTypeOK
  <2>3. ASSUME NEW d \in Conns, NEW i \in DOMAIN queue, queue[i] = d, d # h
        PROVE  \E j \in DOMAIN queue' : queue'[j] = d
    <3>1. i # 1 /\ i \in Nat
      BY <2>2, <2>3
    <3>2. i - 1 \in DOMAIN queue' /\ queue'[i - 1] = queue[(i - 1) + 1] /\ (i - 1) + 1 = i
      BY <2>2, <3>1
    <3> QED
      BY <2>3, <3>2
  <2>4. /\ \A d \in Conns : stage[d] \in {"read", "write"} => stage'[d] \in {"read", "write"}
        /\ stage'[h] = "read" \/ h \in lost'
    BY <1>t, <2>1, <2>2 DEF BackupTypeOK
  <2>5. ASSUME NEW d \in Conns, client'[d] # "new"
        PROVE  \/ \E i \in DOMAIN queue' : queue'[i] = d
               \/ stage'[d] \in {"read", "write"}
               \/ Stored(d)' \/ d \in lost' \cup holed'
    <3>1. CASE d = h
      BY <2>4, <3>1
    <3>2. CASE d # h
      <4>1. \/ \E i \in DOMAIN queue : queue[i] = d
            \/ stage[d] \in {"read", "write"}
            \/ Stored(d) \/ d \in lost \cup holed
        BY <2>1, <2>5 DEF NothingForgotten
      <4> QED
        BY <1>f, <2>1, <2>3, <2>4, <3>2, <4>1
    <3> QED
      BY <3>1, <3>2
  <2> QED
    BY <2>5 DEF NothingForgotten
<1>4. ASSUME NEW c \in Conns, Read(c) \/ WriteFileFails(c) PROVE NothingForgotten'
  <2>1. /\ UNCHANGED <<queue, client, file, lost>> /\ holed \subseteq holed'
        /\ \E x \in {"read", "write"} : stage' = [stage EXCEPT ![c] = x]
    BY <1>4 DEF Read, WriteFileFails
  <2>2. \A d \in Conns : stage[d] \in {"read", "write"} => stage'[d] \in {"read", "write"}
    BY <1>t, <2>1 DEF BackupTypeOK
  <2> QED
    BY <1>k, <2>1, <2>2
<1>5. ASSUME NEW c \in Conns, WriteFile(c) PROVE NothingForgotten'
  <2>1. /\ stage[c] = "write" /\ stage' = [stage EXCEPT ![c] = "read"]
        /\ file' = Append(file, buf[c])
        /\ UNCHANGED <<queue, client, lost, holed>>
    BY <1>5 DEF WriteFile
  <2>2. buf[c] \in PieceSet
    BY <2>1 DEF IInv, BufferInv
  <2>3. \A i \in DOMAIN file : i \in DOMAIN file' /\ file'[i] = file[i]
    BY <1>t, <2>1, <2>2, Appended DEF BackupTypeOK
  <2>4. \A d \in Conns : stage[d] \in {"read", "write"} => stage'[d] \in {"read", "write"}
    BY <1>t, <2>1 DEF BackupTypeOK
  <2> QED
    BY <1>k, <2>1, <2>3, <2>4
<1>6. ASSUME NEW c \in Conns, ReadEnd(c) PROVE NothingForgotten'
  <2>1. /\ stage[c] = "read" /\ got[c] = Length[c] /\ stage' = [stage EXCEPT ![c] = "done"]
        /\ UNCHANGED <<queue, client, file, lost, holed>>
    BY <1>6 DEF ReadEnd
  <2>2. Stored(c) \/ c \in holed
    BY <2>1, WholeAtEnd
  <2>3. \A d \in Conns : d # c => stage'[d] = stage[d]
    BY <1>t, <2>1 DEF BackupTypeOK
  <2> QED
    BY <1>k, <2>1, <2>2, <2>3
<1>7. ASSUME NEW c \in Conns, ReadFails(c) PROVE NothingForgotten'
  <2>1. /\ stage' = [stage EXCEPT ![c] = "done"] /\ lost' = lost \cup {c}
        /\ UNCHANGED <<queue, client, file, holed>>
    BY <1>7 DEF ReadFails
  <2>2. \A d \in Conns : d # c => stage'[d] = stage[d]
    BY <1>t, <2>1 DEF BackupTypeOK
  <2> QED
    BY <1>k, <2>1, <2>2
<1>8. ASSUME NEW c \in Conns, ReadOverrun(c) \/ OpenFileFails(c) PROVE NothingForgotten'
  BY <1>8, <1>d DEF ReadOverrun, OpenFileFails
<1>9. CASE Crash
  BY <1>9, <1>d DEF Crash
<1>10. CASE InitService \/ UNCHANGED vars
  <2>1. UNCHANGED <<queue, client, stage, file, lost, holed>>
    BY <1>10 DEF InitService, vars
  <2> QED
    BY <1>k, <2>1
<1> QED
  BY <1>1, <1>2, <1>3, <1>4, <1>5, <1>6, <1>7, <1>8, <1>9, <1>10
  DEF Next, Client, Thread, Failure

(* A connection is never forgotten (start_service, service): until its      *)
(* message is in the file to the last byte it waits to be accepted or has a *)
(* thread, for any number of connections, lengths and reads, unless it was  *)
(* lost with the process, a thread or a flush.                              *)
THEOREM ConnectionsServed == Spec => []NothingForgotten
<1>1. Init => NothingForgotten
  BY DEF Init, NothingForgotten
<1>2. IInv /\ NothingForgotten /\ [Next]_vars => NothingForgotten'
  BY NotForgottenStep
<1> QED
  BY <1>1, <1>2, InitIInv, StepIInv, PTL DEF Spec
=============================================================================
