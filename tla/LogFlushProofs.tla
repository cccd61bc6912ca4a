---------------------------- MODULE LogFlushProofs -----------------------------
(***************************************************************************)
(* Theorems about LogFlush, for any instants, sizes of batches, limits and  *)
(* numbers of batches and runs.  LogRollProofs goes on with the sizes.      *)
(***************************************************************************)
EXTENDS LogFlush, SequenceTheorems, TLAPS

-----------------------------------------------------------------------------
(* Sequences of batches                                                     *)

LEMMA RangeOf ==
  ASSUME NEW s \in Seq(Batch)
  PROVE  /\ Len(s) \in Nat
         /\ \A i \in 1 .. Len(s) : s[i] \in Batch /\ s[i] \in Range(s)
         /\ \A b \in Range(s) : \E i \in 1 .. Len(s) : s[i] = b
<1>1. Len(s) \in Nat /\ DOMAIN s = 1 .. Len(s)
  BY LenProperties
<1>2. \A i \in 1 .. Len(s) : s[i] \in Batch
  BY ElementOfSeq
<1> QED
  BY <1>1, <1>2 DEF Range

LEMMA Joined ==
  ASSUME NEW s \in Seq(Batch), NEW t \in Seq(Batch)
  PROVE  /\ s \o t \in Seq(Batch)
         /\ Len(s) <= Len(s \o t)
         /\ \A i \in 1 .. Len(s) : (s \o t)[i] = s[i]
         /\ Range(s \o t) = Range(s) \cup Range(t)
<1>1. /\ s \o t \in Seq(Batch) /\ Len(s \o t) = Len(s) + Len(t)
      /\ \A i \in 1 .. Len(s) + Len(t) :
           (s \o t)[i] = IF i <= Len(s) THEN s[i] ELSE t[i - Len(s)]
  BY ConcatProperties
<1>2. Len(s) \in Nat /\ Len(t) \in Nat
  BY LenProperties
<1>3. \A i \in 1 .. Len(s) : (s \o t)[i] = s[i]
  BY <1>1, <1>2
<1>4. \A i \in 1 .. Len(t) : Len(s) + i \in 1 .. Len(s \o t) /\ (s \o t)[Len(s) + i] = t[i]
  BY <1>1, <1>2
<1>5. ASSUME NEW b \in Range(s \o t) PROVE b \in Range(s) \cup Range(t)
  <2>1. PICK i \in 1 .. Len(s) + Len(t) : (s \o t)[i] = b
    BY <1>1, RangeOf
  <2>2. CASE i \in 1 .. Len(s)
    BY <1>3, <2>1, <2>2, RangeOf
  <2>3. CASE i > Len(s)
    <3>1. i - Len(s) \in 1 .. Len(t) /\ t[i - Len(s)] = b
      BY <1>1, <1>2, <2>1, <2>3
    <3> QED
      BY <3>1, RangeOf
  <2> QED
    BY <1>2, <2>2, <2>3
<1>6. ASSUME NEW b \in Range(s) PROVE b \in Range(s \o t)
  <2>1. PICK i \in 1 .. Len(s) : s[i] = b
    BY RangeOf
  <2>2. i \in 1 .. Len(s \o t) /\ (s \o t)[i] = b
    BY <1>1, <1>2, <1>3, <2>1
  <2> QED
    BY <1>1, <2>2, RangeOf
<1>7. ASSUME NEW b \in Range(t) PROVE b \in Range(s \o t)
  <2>1. PICK i \in 1 .. Len(t) : t[i] = b
    BY RangeOf
  <2> QED
    BY <1>1, <1>4, <2>1, RangeOf
<1> QED
  BY <1>1, <1>2, <1>3, <1>5, <1>6, <1>7

(* A sequence cut in two.                                                   *)
LEMMA Cut ==
  ASSUME NEW u \in Seq(Batch), NEW n \in 0 .. Len(u)
  PROVE  LET front == SubSeq(u, 1, n)
             rest == SubSeq(u, n + 1, Len(u))
         IN  /\ front \in Seq(Batch) /\ Len(front) = n
             /\ \A i \in 1 .. n : front[i] = u[i]
             /\ rest \in Seq(Batch) /\ Len(rest) = Len(u) - n
             /\ \A i \in 1 .. Len(u) - n : rest[i] = u[n + i]
<1>1. Len(u) \in Nat /\ \A i \in 1 .. Len(u) : u[i] \in Batch
  BY RangeOf
<1>2. /\ SubSeq(u, 1, n) \in Seq(Batch)
      /\ Len(SubSeq(u, 1, n)) = IF 1 <= n THEN n - 1 + 1 ELSE 0
      /\ \A i \in 1 .. n - 1 + 1 : SubSeq(u, 1, n)[i] = u[1 + i - 1]
  BY <1>1, SubSeqProperties, n \in Int, \A i \in 1 .. n : u[i] \in Batch
<1>3. /\ SubSeq(u, n + 1, Len(u)) \in Seq(Batch)
      /\ Len(SubSeq(u, n + 1, Len(u))) =
           IF n + 1 <= Len(u) THEN Len(u) - (n + 1) + 1 ELSE 0
      /\ \A i \in 1 .. Len(u) - (n + 1) + 1 : SubSeq(u, n + 1, Len(u))[i] = u[n + 1 + i - 1]
  <2>1. n + 1 \in Int /\ Len(u) \in Int /\ \A i \in n + 1 .. Len(u) : u[i] \in Batch
    BY <1>1
  <2> QED
    BY <2>1, SubSeqProperties
<1> QED
  BY <1>1, <1>2, <1>3

(* Its elements are those of the two parts.                                 *)
LEMMA CutRange ==
  ASSUME NEW u \in Seq(Batch), NEW n \in 0 .. Len(u)
  PROVE  Range(u) = Range(SubSeq(u, 1, n)) \cup Range(SubSeq(u, n + 1, Len(u)))
<1> DEFINE front == SubSeq(u, 1, n)
           rest == SubSeq(u, n + 1, Len(u))
<1>1. /\ Len(u) \in Nat
      /\ front \in Seq(Batch) /\ Len(front) = n
      /\ \A i \in 1 .. n : front[i] = u[i]
      /\ rest \in Seq(Batch) /\ Len(rest) = Len(u) - n
      /\ \A i \in 1 .. Len(u) - n : rest[i] = u[n + i]
  BY Cut, RangeOf
<1> HIDE DEF front, rest
<1>2. ASSUME NEW b \in Range(u) PROVE b \in Range(front) \cup Range(rest)
  <2>1. PICK i \in 1 .. Len(u) : u[i] = b
    BY RangeOf
  <2>2. CASE i \in 1 .. n
    BY <1>1, <2>1, <2>2, RangeOf
  <2>3. CASE i > n
    <3>1. i - n \in 1 .. Len(rest) /\ n + (i - n) = i
      BY <1>1, <2>3
    <3>2. rest[i - n] = b
      BY <1>1, <2>1, <3>1
    <3> QED
      BY <1>1, <3>1, <3>2, RangeOf
  <2> QED
    BY <2>2, <2>3
<1>3. ASSUME NEW b \in Range(front) PROVE b \in Range(u)
  <2>1. PICK i \in 1 .. n : front[i] = b
    BY <1>1, RangeOf
  <2>2. i \in 1 .. Len(u) /\ u[i] = b
    BY <1>1, <2>1
  <2> QED
    BY <2>2, RangeOf
<1>4. ASSUME NEW b \in Range(rest) PROVE b \in Range(u)
  <2>1. PICK i \in 1 .. Len(u) - n : rest[i] = b
    BY <1>1, RangeOf
  <2>2. n + i \in 1 .. Len(u)
    BY <1>1
  <2> QED
    BY <1>1, <2>1, <2>2, RangeOf
<1> QED
  BY <1>2, <1>3, <1>4 DEF front, rest

(* One batch more.                                                          *)
LEMMA OneMoreBatch ==
  ASSUME NEW s \in Seq(Batch), NEW b \in Batch
  PROVE  /\ Append(s, b) \in Seq(Batch)
         /\ Len(Append(s, b)) = Len(s) + 1
         /\ \A i \in 1 .. Len(s) : Append(s, b)[i] = s[i]
         /\ Append(s, b)[Len(s) + 1] = b
         /\ Range(Append(s, b)) = Range(s) \cup {b}
<1>1. /\ Append(s, b) \in Seq(Batch)
      /\ Len(Append(s, b)) = Len(s) + 1
      /\ \A i \in 1 .. Len(s) : Append(s, b)[i] = s[i]
      /\ Append(s, b)[Len(s) + 1] = b
  BY AppendProperties
<1>2. Len(s) \in Nat /\ Len(s) + 1 \in 1 .. Len(Append(s, b))
  BY <1>1, LenProperties
<1>3. \A i \in 1 .. Len(Append(s, b)) : i \in 1 .. Len(s) \/ i = Len(s) + 1
  BY <1>1, <1>2
<1>4. ASSUME NEW x \in Range(Append(s, b)) PROVE x \in Range(s) \cup {b}
  <2>1. PICK i \in 1 .. Len(Append(s, b)) : Append(s, b)[i] = x
    BY <1>1, RangeOf
  <2> QED
    BY <1>1, <1>3, <2>1, RangeOf
<1>5. b \in Range(Append(s, b))
  BY <1>1, <1>2, RangeOf
<1>6. ASSUME NEW x \in Range(s) PROVE x \in Range(Append(s, b))
  <2>1. PICK i \in 1 .. Len(s) : s[i] = x
    BY RangeOf
  <2>2. i \in 1 .. Len(Append(s, b)) /\ Append(s, b)[i] = x
    BY <1>1, <1>2, <2>1
  <2> QED
    BY <1>1, <2>2, RangeOf
<1> QED
  BY <1>1, <1>4, <1>5, <1>6

-----------------------------------------------------------------------------
(* The course of a Flush                                                    *)

NoBatch == [num |-> 0, run |-> 0, size |-> 0]

Busy == {"roll", "write", "fflush", "fsync"}

(* The current batch has not come to the rolling sink's InitLogFile.        *)
BeforeRoll == pc = "roll" \/ (pc \in Busy /\ sink = "file")

(* What is being flushed belongs to the run of the process; a file is       *)
(* begun at most once a batch.                                              *)
ControlInv ==
  /\ flushLog \in 0 .. 2
  /\ now \in DOMAIN Times
  /\ run \in 0 .. MaxRuns
  /\ pc \in {"down", "idle"} \cup Busy
  /\ sink \in Sinks
  /\ batch \in Batch \cup {NoBatch}
  /\ cnt \in Nat \ {0} /\ curSize \in Nat
  /\ powerLost \in BOOLEAN
  /\ pc # "down" => run > 0
  /\ pc \in Busy => batch \in Batch /\ batch.run = run
  /\ pc = "roll" => sink = "roll"
  /\ cnt <= batch.num + 1
  /\ BeforeRoll => cnt <= batch.num

LEMMA BatchFields ==
  /\ \A b \in Batch : /\ b.num \in 1 .. MaxBatches /\ b.run \in 1 .. MaxRuns
                      /\ b.size \in Nat
  /\ NoBatch.num = 0 /\ NoBatch.run = 0
BY FlushConfig DEF Batch, NoBatch

(* A call of a Flush is followed by the next one, or the Flush returns.     *)
GoesOn == pc' \in {"fflush", "fsync"} /\ UNCHANGED <<sink, returned>>

LEMMA FlushGoesOn ==
  ASSUME AfterWrite \/ AfterFlush
  PROVE  GoesOn \/ FlushReturns
BY DEF AfterWrite, AfterFlush, GoesOn

LEMMA WhereFlushGoes ==
  ASSUME sink \in Sinks, GoesOn \/ FlushReturns
  PROVE  \/ pc' \in {"fflush", "fsync"} /\ sink' = sink
         \/ sink = "file" /\ pc' = "roll" /\ sink' = "roll"
         \/ sink = "roll" /\ pc' = "idle" /\ sink' = "roll"
BY DEF GoesOn, FlushReturns, Sinks

LEMMA ControlStep == ControlInv /\ [Next]_vars => ControlInv'
<1> SUFFICES ASSUME ControlInv, [Next]_vars PROVE ControlInv'
  OBVIOUS
<1> USE FlushConfig DEF ControlInv, Busy, BeforeRoll
<1>n. batch.num \in Nat /\ batch.num <= MaxBatches
  BY BatchFields
(* Steps that leave the course of the Flush alone.                          *)
<1>a. ASSUME UNCHANGED <<flushLog, now, run, sink, batch, cnt, curSize>>,
             powerLost' \in BOOLEAN, pc' = pc \/ pc' = "down"
      PROVE  ControlInv'
  BY <1>a
<1>b. ASSUME UNCHANGED <<flushLog, now, run, batch, cnt, powerLost>>,
             pc \in {"write", "fflush", "fsync"}, curSize' \in Nat, GoesOn \/ FlushReturns
      PROVE  ControlInv'
  <2>1. \/ pc' \in {"fflush", "fsync"} /\ sink' = sink
        \/ sink = "file" /\ pc' = "roll" /\ sink' = "roll"
        \/ sink = "roll" /\ pc' = "idle" /\ sink' = "roll"
    BY <1>b, WhereFlushGoes
  <2> QED
    BY <1>b, <2>1 DEF Sinks
<1>c. ASSUME pc = "write", Count PROVE curSize' \in Nat
  BY <1>c, BatchFields DEF Count
<1>1. CASE Start
  BY <1>1, <1>n DEF Start
<1>2. CASE RealFlush
  <2>1. PICK n \in Sizes : batch' = [num |-> batch.num + 1, run |-> run, size |-> n]
    BY <1>2 DEF RealFlush
  <2>2. /\ batch' \in Batch /\ batch'.run = run /\ batch'.num = batch.num + 1
    BY <1>2, <1>n, <2>1 DEF RealFlush, Batch
  <2>3. /\ pc' = "write" /\ sink' = "file"
        /\ UNCHANGED <<flushLog, now, run, cnt, curSize, powerLost>>
        /\ run > 0 /\ cnt <= batch.num + 1
    BY <1>2 DEF RealFlush
  <2> QED
    BY <2>2, <2>3, <1>n DEF Sinks
<1>3. CASE KeepFile
  BY <1>3 DEF KeepFile
<1>4. CASE NewFile
  BY <1>4, <1>n DEF NewFile
<1>5. CASE Write
  BY <1>5, <1>b, <1>c, FlushGoesOn DEF Write
<1>6. CASE WriteFails
  BY <1>6, <1>b, <1>c, FlushGoesOn DEF WriteFails
<1>7. CASE Fflush \/ FflushFails
  BY <1>7, <1>b, FlushGoesOn DEF Fflush, FflushFails
<1>8. CASE Fsync \/ FsyncFails
  BY <1>8, <1>b DEF Fsync, FsyncFails
<1>9. CASE Exit \/ Crash \/ PowerLoss
  BY <1>9, <1>a DEF Exit, Crash, PowerLoss, ProcessGone
<1>10. CASE WriteBack
  BY <1>10, <1>a DEF WriteBack
<1>11. CASE Tick
  <2>1. DOMAIN Times = 1 .. Len(Times)
    BY LenProperties
  <2>2. now' \in DOMAIN Times
    BY <1>11, <2>1 DEF Tick
  <2> QED
    BY <1>11, <2>2 DEF Tick
<1>12. CASE UNCHANGED vars
  BY <1>12, <1>a DEF vars
<1> QED
  BY <1>1, <1>2, <1>3, <1>4, <1>5, <1>6, <1>7, <1>8, <1>9, <1>10, <1>11, <1>12
  DEF Next, FlushStep

LEMMA ControlInit == Init => ControlInv
<1> SUFFICES ASSUME Init PROVE ControlInv
  OBVIOUS
<1>1. 1 \in DOMAIN Times
  BY FlushConfig, EmptySeq, LenProperties
<1>2. /\ flushLog \in 0 .. 2 /\ now = 1 /\ run = 0 /\ pc = "down" /\ sink = "file"
      /\ batch = NoBatch /\ cnt = 1 /\ curSize = 0 /\ powerLost = FALSE
  BY DEF Init, NoBatch
<1>3. NoBatch.num = 0 /\ "file" \in Sinks /\ 0 \in 0 .. MaxRuns
  BY FlushConfig DEF NoBatch, Sinks
<1>4. ~BeforeRoll /\ pc \notin Busy
  BY <1>2 DEF BeforeRoll, Busy
<1>5. cnt \in Nat \ {0} /\ curSize \in Nat /\ cnt <= batch.num + 1
  BY <1>2, <1>3
<1> QED
  BY <1>1, <1>2, <1>3, <1>4, <1>5 DEF ControlInv

-----------------------------------------------------------------------------
(* Files and streams                                                        *)

LEMMA FileNames ==
  /\ FixedFile \in Files /\ NoFile \notin Files
  /\ FilesOf("file") = {FixedFile} /\ FilesOf("roll") = Files \ {FixedFile}
  /\ \A s \in Sinks : FilesOf(s) \subseteq Files
  /\ \A r, s \in Sinks, f \in Files : f \in FilesOf(r) /\ f \in FilesOf(s) => r = s
<1>1. FixedFile \in Files /\ FixedFile.num = 0
  BY DEF Files, FixedFile
<1>2. NoFile.num = -1
  BY DEF NoFile
<1>3. \A f \in Files : f.num \in Nat
  BY FlushConfig DEF Files, FixedFile
<1>4. NoFile \notin Files
  BY <1>2, <1>3
<1> QED
  BY <1>1, <1>4 DEF FilesOf, Sinks

(* A new file of the rolling sink is never the other sink's.                *)
LEMMA RollFileName ==
  ASSUME ControlInv, pc = "roll"
  PROVE  CreateFilename(cnt) \in FilesOf("roll")
<1>1. cnt \in 1 .. MaxBatches
  BY BatchFields, FlushConfig DEF ControlInv, BeforeRoll
<1>2. Stamp(Times[now]) \in {Stamp(Times[i]) : i \in DOMAIN Times}
  BY DEF ControlInv
<1>3. CreateFilename(cnt) \in [stamp : {Stamp(Times[i]) : i \in DOMAIN Times},
                               num : 1 .. MaxBatches]
  BY <1>1, <1>2 DEF CreateFilename
<1>4. CreateFilename(cnt).num = cnt /\ FixedFile.num = 0
  BY DEF CreateFilename, FixedFile
<1> QED
  BY <1>1, <1>3, <1>4, FileNames DEF Files

(* A sink writes its own files; what is not open has nothing buffered; only *)
(* the present run's batches are buffered.                                  *)
StreamInv ==
  /\ stream \in [Sinks -> Files \cup {NoFile}]
  /\ ubuf \in [Sinks -> Seq(Batch)]
  /\ \A s \in Sinks : stream[s] # NoFile => stream[s] \in FilesOf(s)
  /\ \A s \in Sinks : stream[s] = NoFile => ubuf[s] = << >>
  /\ pc \in {"fflush", "fsync"} => stream[sink] # NoFile
  /\ pc = "down" => \A s \in Sinks : stream[s] = NoFile
  /\ \A s \in Sinks : \A b \in Range(ubuf[s]) : b.run = run

(* The disk holds the beginning of a file.                                  *)
FileInv ==
  /\ kern \in [Files -> Seq(Batch)]
  /\ disk \in [Files -> Nat]
  /\ \A f \in Files : disk[f] <= Len(kern[f])

(* What a Write does: the front of the buffer goes on to the file.          *)
LEMMA Written ==
  ASSUME ControlInv, StreamInv, FileInv, Write
  PROVE  /\ stream[sink] \in FilesOf(sink) /\ batch \in Batch /\ batch.run = run
         /\ Append(ubuf[sink], batch) \in Seq(Batch)
         /\ \E n \in 0 .. Len(Append(ubuf[sink], batch)) :
              LET u == Append(ubuf[sink], batch)
              IN  /\ kern' = [kern EXCEPT ![stream[sink]] = @ \o SubSeq(u, 1, n)]
                  /\ ubuf' = [ubuf EXCEPT ![sink] = SubSeq(u, n + 1, Len(u))]
<1>1. stream[sink] \in FilesOf(sink) /\ batch \in Batch /\ batch.run = run
  BY DEF ControlInv, StreamInv, Write, Busy
<1>2. ubuf[sink] \in Seq(Batch)
  BY DEF StreamInv, ControlInv
<1>3. Append(ubuf[sink], batch) \in Seq(Batch)
      /\ Len(Append(ubuf[sink], batch)) = Len(ubuf[sink]) + 1
  BY <1>1, <1>2, OneMoreBatch
<1> QED
  BY <1>1, <1>3 DEF Write

LEMMA StreamStep ==
  ControlInv /\ StreamInv /\ FileInv /\ [Next]_vars => StreamInv'
<1> SUFFICES ASSUME ControlInv, StreamInv, FileInv, [Next]_vars PROVE StreamInv'
  OBVIOUS
<1>t. /\ stream \in [Sinks -> Files \cup {NoFile}]
      /\ ubuf \in [Sinks -> Seq(Batch)]
      /\ sink \in Sinks /\ "file" \in Sinks /\ "roll" \in Sinks
      /\ << >> \in Seq(Batch) /\ Range(<< >>) = {}
  BY EmptySeq DEF StreamInv, ControlInv, Sinks, Range
<1>a. ASSUME UNCHANGED <<stream, ubuf, run>>,
             pc' \notin {"down", "fflush", "fsync"} \/ UNCHANGED <<pc, sink>>
      PROVE  StreamInv'
  BY <1>a DEF StreamInv
<1>b. ASSUME UNCHANGED <<stream, run>>, ubuf' \in [Sinks -> Seq(Batch)],
             pc # "down", stream[sink] # NoFile, sink' = sink \/ pc' = "roll",
             pc' \in {"roll", "idle", "fflush", "fsync"},
             \A s \in Sinks : s # sink => ubuf'[s] = ubuf[s],
             \A b \in Range(ubuf'[sink]) : b.run = run
      PROVE  StreamInv'
  <2>1. \A s \in Sinks : stream'[s] = NoFile => ubuf'[s] = << >>
    BY <1>b DEF StreamInv
  <2>2. \A s \in Sinks : \A b \in Range(ubuf'[s]) : b.run = run'
    BY <1>b DEF StreamInv
  <2>3. pc' \in {"fflush", "fsync"} => stream'[sink'] # NoFile
    BY <1>b
  <2>4. \A s \in Sinks : stream'[s] # NoFile => stream'[s] \in FilesOf(s)
    BY <1>b DEF StreamInv
  <2> QED
    BY <1>b, <1>t, <2>1, <2>2, <2>3, <2>4 DEF StreamInv
<1>c. ASSUME sink \in Sinks, GoesOn \/ FlushReturns
      PROVE  /\ sink' = sink \/ pc' = "roll"
             /\ pc' \in {"roll", "idle", "fflush", "fsync"}
  BY <1>c, WhereFlushGoes
<1>1. CASE Start
  <2>1. PICK f \in {FixedFile, NoFile} : stream' = [stream EXCEPT !["file"] = f]
    BY <1>1 DEF Start
  <2>2. /\ pc' = "idle" /\ ubuf' = ubuf
        /\ \A s \in Sinks : stream[s] = NoFile /\ ubuf[s] = << >>
    BY <1>1 DEF Start, StreamInv
  <2>3. stream' \in [Sinks -> Files \cup {NoFile}]
    BY <1>t, <2>1, FileNames
  <2>4. \A s \in Sinks : stream'[s] # NoFile => stream'[s] \in FilesOf(s)
    BY <1>t, <2>1, <2>2, FileNames
  <2>5. \A s \in Sinks : \A b \in Range(ubuf'[s]) : b.run = run'
    BY <1>t, <2>2
  <2> QED
    BY <1>t, <2>2, <2>3, <2>4, <2>5 DEF StreamInv
<1>2. CASE RealFlush \/ KeepFile
  BY <1>2, <1>a DEF RealFlush, KeepFile
<1>3. CASE NewFile
  <2>1. PICK f \in {CreateFilename(cnt), NoFile} : stream' = [stream EXCEPT !["roll"] = f]
    BY <1>3 DEF NewFile
  <2>2. /\ ubuf' = [ubuf EXCEPT !["roll"] = << >>] /\ pc = "roll" /\ pc' = "write"
        /\ UNCHANGED run
    BY <1>3 DEF NewFile
  <2>3. f = NoFile \/ f \in FilesOf("roll")
    BY <2>1, <2>2, RollFileName
  <2>4. /\ stream' \in [Sinks -> Files \cup {NoFile}]
        /\ ubuf' \in [Sinks -> Seq(Batch)]
    BY <1>t, <2>1, <2>2, <2>3, FileNames
  <2>5. \A s \in Sinks : stream'[s] # NoFile => stream'[s] \in FilesOf(s)
    BY <1>t, <2>1, <2>3 DEF StreamInv
  <2>6. \A s \in Sinks : stream'[s] = NoFile => ubuf'[s] = << >>
    BY <1>t, <2>1, <2>2 DEF StreamInv
  <2>7. \A s \in Sinks : \A b \in Range(ubuf'[s]) : b.run = run'
    BY <1>t, <2>2 DEF StreamInv
  <2> QED
    BY <2>2, <2>4, <2>5, <2>6, <2>7 DEF StreamInv
<1>4. CASE Write
  <2> DEFINE u == Append(ubuf[sink], batch)
  <2>1. batch \in Batch /\ batch.run = run /\ u \in Seq(Batch)
    BY <1>4, Written
  <2>2. PICK n \in 0 .. Len(u) : ubuf' = [ubuf EXCEPT ![sink] = SubSeq(u, n + 1, Len(u))]
    BY <1>4, Written
  <2>3. Range(u) = Range(ubuf[sink]) \cup {batch}
    BY <1>t, <2>1, OneMoreBatch
  <2> HIDE DEF u
  <2>4. SubSeq(u, n + 1, Len(u)) \in Seq(Batch)
    BY <2>1, Cut
  <2>5. Range(SubSeq(u, n + 1, Len(u))) \subseteq Range(u)
    BY <2>1, CutRange
  <2>6. \A b \in Range(u) : b.run = run
    BY <1>t, <2>1, <2>3 DEF StreamInv
  <2>7. /\ ubuf' \in [Sinks -> Seq(Batch)]
        /\ \A s \in Sinks : s # sink => ubuf'[s] = ubuf[s]
        /\ \A b \in Range(ubuf'[sink]) : b.run = run
    BY <1>t, <2>2, <2>4, <2>5, <2>6
  <2>8. /\ sink' = sink \/ pc' = "roll"
        /\ pc' \in {"roll", "idle", "fflush", "fsync"}
    BY <1>4, <1>c, <1>t, FlushGoesOn DEF Write
  <2> QED
    BY <1>4, <1>b, <2>7, <2>8 DEF Write
<1>5. CASE WriteFails \/ FflushFails
  <2>1. GoesOn \/ FlushReturns
    BY <1>5, FlushGoesOn DEF WriteFails, FflushFails
  <2>2. /\ UNCHANGED <<stream, ubuf, run>> /\ pc # "down" /\ stream[sink] # NoFile
    BY <1>5 DEF WriteFails, FflushFails, StreamInv
  <2>3. \A b \in Range(ubuf'[sink]) : b.run = run
    BY <1>t, <2>2 DEF StreamInv
  <2> QED
    BY <1>b, <1>c, <1>t, <2>1, <2>2, <2>3
<1>6. CASE Fflush
  <2>1. GoesOn \/ FlushReturns
    BY <1>6, FlushGoesOn DEF Fflush
  <2>2. /\ ubuf' = [ubuf EXCEPT ![sink] = << >>]
        /\ UNCHANGED <<stream, run>> /\ pc # "down" /\ stream[sink] # NoFile
    BY <1>6 DEF Fflush, StreamInv
  <2>3. /\ ubuf' \in [Sinks -> Seq(Batch)]
        /\ \A s \in Sinks : s # sink => ubuf'[s] = ubuf[s]
        /\ \A b \in Range(ubuf'[sink]) : b.run = run
    BY <1>t, <2>2
  <2> QED
    BY <1>b, <1>c, <1>t, <2>1, <2>2, <2>3
<1>7. CASE Fsync \/ FsyncFails
  <2>1. pc' \in {"idle", "roll"} /\ UNCHANGED <<stream, ubuf, run>>
    BY <1>7 DEF Fsync, FsyncFails, FlushReturns
  <2> QED
    BY <1>a, <2>1
<1>8. CASE Exit \/ Crash \/ PowerLoss
  <2>1. /\ stream' = [s \in Sinks |-> NoFile] /\ ubuf' = [s \in Sinks |-> << >>]
        /\ pc' = "down"
    BY <1>8 DEF Exit, Crash, PowerLoss, ProcessGone
  <2> QED
    BY <1>t, <2>1 DEF StreamInv
<1>9. CASE WriteBack \/ Tick
  BY <1>9, <1>a DEF WriteBack, Tick
<1>10. CASE UNCHANGED vars
  BY <1>10, <1>a DEF vars
<1> QED
  BY <1>1, <1>2, <1>3, <1>4, <1>5, <1>6, <1>7, <1>8, <1>9, <1>10 DEF Next, FlushStep

(* One sequence begins with another.                                        *)
Begins(s, t) == Len(s) <= Len(t) /\ \A i \in 1 .. Len(s) : t[i] = s[i]

LEMMA JoinedBegins ==
  ASSUME NEW s \in Seq(Batch), NEW t \in Seq(Batch)
  PROVE  s \o t \in Seq(Batch) /\ Begins(s, s \o t) /\ Begins(s, s)
BY Joined, RangeOf DEF Begins

LEMMA BeginsTransitive ==
  ASSUME NEW r \in Seq(Batch), NEW s \in Seq(Batch), NEW t \in Seq(Batch),
         Begins(r, s), Begins(s, t)
  PROVE  Begins(r, t)
<1>1. Len(r) \in Nat /\ Len(s) \in Nat /\ Len(t) \in Nat
  BY LenProperties
<1> QED
  BY <1>1 DEF Begins

(* Only a loss of power takes anything out of a file.                       *)
LEMMA FilesGrow ==
  ASSUME ControlInv, StreamInv, FileInv, [Next]_vars, ~PowerLoss
  PROVE  /\ kern' \in [Files -> Seq(Batch)]
         /\ \A f \in Files : Begins(kern[f], kern'[f])
<1>t. /\ kern \in [Files -> Seq(Batch)]
      /\ ubuf \in [Sinks -> Seq(Batch)]
      /\ sink \in Sinks /\ "file" \in Sinks /\ "roll" \in Sinks
      /\ << >> \in Seq(Batch)
  BY EmptySeq DEF StreamInv, FileInv, ControlInv, Sinks
<1>a. ASSUME UNCHANGED kern
      PROVE  kern' \in [Files -> Seq(Batch)] /\ \A f \in Files : Begins(kern[f], kern'[f])
  BY <1>a, <1>t, JoinedBegins
<1>b. ASSUME NEW g \in Files, NEW t \in Seq(Batch), kern' = [kern EXCEPT ![g] = @ \o t]
      PROVE  kern' \in [Files -> Seq(Batch)] /\ \A f \in Files : Begins(kern[f], kern'[f])
  <2>1. kern[g] \o t \in Seq(Batch) /\ Begins(kern[g], kern[g] \o t)
    BY <1>b, <1>t, JoinedBegins
  <2>2. \A f \in Files : Begins(kern[f], kern[f])
    BY <1>t, JoinedBegins
  <2> QED
    BY <1>b, <1>t, <2>1, <2>2
<1>1. CASE Write
  <2> DEFINE u == Append(ubuf[sink], batch)
  <2>1. stream[sink] \in Files /\ u \in Seq(Batch)
    BY <1>1, <1>t, Written, FileNames
  <2>2. PICK n \in 0 .. Len(u) : kern' = [kern EXCEPT ![stream[sink]] = @ \o SubSeq(u, 1, n)]
    BY <1>1, Written
  <2> HIDE DEF u
  <2>3. SubSeq(u, 1, n) \in Seq(Batch)
    BY <2>1, Cut
  <2> QED
    BY <1>b, <2>1, <2>2, <2>3
<1>2. CASE Fflush
  <2>1. stream[sink] \in Files
    BY <1>2, <1>t, FileNames DEF Fflush, StreamInv
  <2>2. kern' = [kern EXCEPT ![stream[sink]] = @ \o ubuf[sink]] /\ ubuf[sink] \in Seq(Batch)
    BY <1>2, <1>t DEF Fflush
  <2> QED
    BY <1>b, <2>1, <2>2
<1>3. CASE NewFile
  <2>1. \/ UNCHANGED kern
        \/ kern' = [f \in Files |->
                     IF f = stream["roll"] THEN kern[f] \o ubuf["roll"] ELSE kern[f]]
    BY <1>3 DEF NewFile
  <2>2. \A f \in Files : /\ kern[f] \o ubuf["roll"] \in Seq(Batch)
                         /\ Begins(kern[f], kern[f] \o ubuf["roll"])
                         /\ Begins(kern[f], kern[f])
    BY <1>t, JoinedBegins
  <2> QED
    BY <1>a, <1>t, <2>1, <2>2
<1>4. CASE Exit
  <2> DEFINE a(f) == IF f = stream["file"] THEN ubuf["file"] ELSE << >>
             b(f) == IF f = stream["roll"] THEN ubuf["roll"] ELSE << >>
  <2>1. kern' = [f \in Files |-> (kern[f] \o a(f)) \o b(f)]
    BY <1>4 DEF Exit
  <2>2. \A f \in Files : a(f) \in Seq(Batch) /\ b(f) \in Seq(Batch)
    BY <1>t
  <2> HIDE DEF a, b
  <2>3. \A f \in Files : kern[f] \o a(f) \in Seq(Batch) /\ Begins(kern[f], kern[f] \o a(f))
    BY <1>t, <2>2, JoinedBegins
  <2>4. \A f \in Files : /\ (kern[f] \o a(f)) \o b(f) \in Seq(Batch)
                         /\ Begins(kern[f] \o a(f), (kern[f] \o a(f)) \o b(f))
    BY <2>2, <2>3, JoinedBegins
  <2>5. \A f \in Files : Begins(kern[f], (kern[f] \o a(f)) \o b(f))
    BY <1>t, <2>3, <2>4, BeginsTransitive
  <2> QED
    BY <2>1, <2>4, <2>5
<1>5. CASE Start \/ RealFlush \/ KeepFile \/ WriteFails \/ FflushFails
  BY <1>5, <1>a DEF Start, RealFlush, KeepFile, WriteFails, FflushFails
<1>6. CASE Fsync \/ FsyncFails \/ Crash \/ WriteBack \/ Tick
  BY <1>6, <1>a DEF Fsync, FsyncFails, Crash, WriteBack, Tick
<1>7. CASE UNCHANGED vars
  BY <1>7, <1>a DEF vars
<1> QED
  BY <1>1, <1>2, <1>3, <1>4, <1>5, <1>6, <1>7 DEF Next, FlushStep

(* A loss of power leaves what the disk holds.                              *)
LEMMA FilesCut ==
  ASSUME FileInv, PowerLoss
  PROVE  /\ kern' \in [Files -> Seq(Batch)]
         /\ UNCHANGED disk
         /\ \A f \in Files : /\ Len(kern'[f]) = disk[f]
                             /\ \A i \in 1 .. disk[f] : kern'[f][i] = kern[f][i]
<1>1. /\ kern' = [f \in Files |-> SubSeq(kern[f], 1, disk[f])] /\ UNCHANGED disk
  BY DEF PowerLoss
<1>2. \A f \in Files : kern[f] \in Seq(Batch) /\ disk[f] \in 0 .. Len(kern[f])
  BY RangeOf DEF FileInv
<1>3. \A f \in Files : /\ SubSeq(kern[f], 1, disk[f]) \in Seq(Batch)
                       /\ Len(SubSeq(kern[f], 1, disk[f])) = disk[f]
                       /\ \A i \in 1 .. disk[f] : SubSeq(kern[f], 1, disk[f])[i] = kern[f][i]
  BY <1>2, Cut
<1> QED
  BY <1>1, <1>3

(* The disk's part of a file does not shrink, nor is it written again.      *)
LEMMA DiskKept ==
  ASSUME ControlInv, StreamInv, FileInv, [Next]_vars
  PROVE  /\ disk' \in [Files -> Nat]
         /\ \A f \in Files : /\ disk[f] <= disk'[f] /\ disk'[f] <= Len(kern'[f])
                             /\ \A i \in 1 .. disk[f] : kern'[f][i] = kern[f][i]
<1>t. /\ kern \in [Files -> Seq(Batch)] /\ disk \in [Files -> Nat]
      /\ \A f \in Files : Len(kern[f]) \in Nat /\ disk[f] \in Nat /\ disk[f] <= Len(kern[f])
  BY RangeOf DEF FileInv
<1>1. CASE PowerLoss
  <2>1. \A f \in Files : disk'[f] = disk[f] /\ disk[f] <= disk[f]
    BY <1>1, <1>t, FilesCut
  <2> QED
    BY <1>1, <1>t, <2>1, FilesCut
<1>2. CASE ~PowerLoss
  <2>1. /\ kern' \in [Files -> Seq(Batch)]
        /\ \A f \in Files : /\ Len(kern[f]) <= Len(kern'[f])
                            /\ \A i \in 1 .. Len(kern[f]) : kern'[f][i] = kern[f][i]
    BY <1>2, FilesGrow DEF Begins
  <2>2. \A f \in Files : Len(kern'[f]) \in Nat
    BY <2>1, RangeOf
  <2>3. \A f \in Files : \A i \in 1 .. disk[f] : kern'[f][i] = kern[f][i]
    BY <1>t, <2>1
  <2>4. CASE UNCHANGED disk
    <3>1. \A f \in Files : disk[f] <= disk'[f] /\ disk'[f] <= Len(kern'[f])
      BY <1>t, <2>1, <2>2, <2>4
    <3> QED
      BY <1>t, <2>3, <2>4, <3>1
  <2>5. ASSUME NEW g \in Files, disk' = [disk EXCEPT ![g] = Len(kern[g])], UNCHANGED kern
        PROVE  /\ disk' \in [Files -> Nat]
               /\ \A f \in Files : disk[f] <= disk'[f] /\ disk'[f] <= Len(kern'[f])
    BY <1>t, <2>5
  <2>6. CASE Fsync
    <3>1. stream[sink] \in Files
      BY <2>6, FileNames DEF Fsync, StreamInv, ControlInv
    <3>2. disk' = [disk EXCEPT ![stream[sink]] = Len(kern[stream[sink]])] /\ UNCHANGED kern
      BY <2>6 DEF Fsync
    <3> QED
      BY <2>3, <2>5, <3>1, <3>2
  <2>7. CASE WriteBack
    <3>1. PICK f \in Files : disk' = [disk EXCEPT ![f] = Len(kern[f])]
      BY <2>7 DEF WriteBack
    <3> QED
      BY <2>3, <2>5, <2>7, <3>1 DEF WriteBack
  <2>8. CASE Start \/ RealFlush \/ KeepFile \/ NewFile \/ Write \/ WriteFails
    BY <2>4, <2>8 DEF Start, RealFlush, KeepFile, NewFile, Write, WriteFails
  <2>9. CASE Fflush \/ FflushFails \/ FsyncFails \/ Exit \/ Crash \/ Tick
    BY <2>4, <2>9 DEF Fflush, FflushFails, FsyncFails, Exit, Crash, Tick
  <2>10. CASE UNCHANGED vars
    BY <2>4, <2>10 DEF vars
  <2> QED
    BY <1>2, <2>6, <2>7, <2>8, <2>9, <2>10 DEF Next, FlushStep
<1> QED
  BY <1>1, <1>2

LEMMA FileStep ==
  ControlInv /\ StreamInv /\ FileInv /\ [Next]_vars => FileInv'
<1> SUFFICES ASSUME ControlInv, StreamInv, FileInv, [Next]_vars PROVE FileInv'
  OBVIOUS
<1>1. kern' \in [Files -> Seq(Batch)]
  BY FilesGrow, FilesCut
<1> QED
  BY <1>1, DiskKept DEF FileInv

-----------------------------------------------------------------------------
(* What has returned                                                        *)

(* Failures, returns and crashes are of batches and runs there have been;   *)
(* the present run has not crashed.                                         *)
HistoryInv ==
  /\ returned \subseteq Sinks \X Batch
  /\ failed \subseteq Sinks \X Batch
  /\ crashed \subseteq 1 .. run
  /\ pc # "down" => run \notin crashed
  /\ \A x \in returned : x[2].run <= run /\ x[2].num <= batch.num

LEMMA Pairs ==
  ASSUME NEW s \in Sinks, NEW b \in Batch
  PROVE  <<s, b>> \in Sinks \X Batch /\ <<s, b>>[1] = s /\ <<s, b>>[2] = b
OBVIOUS

(* A Flush that returns adds itself, any other step nothing.                *)
LEMMA Returns ==
  ASSUME ControlInv, [Next]_vars
  PROVE  \/ UNCHANGED returned
         \/ /\ pc \in {"write", "fflush", "fsync"} /\ FlushReturns
            /\ UNCHANGED <<run, batch>>
<1>1. CASE Write \/ WriteFails
  BY <1>1, FlushGoesOn DEF Write, WriteFails, GoesOn
<1>2. CASE Fflush \/ FflushFails
  BY <1>2, FlushGoesOn DEF Fflush, FflushFails, GoesOn
<1>3. CASE Fsync \/ FsyncFails
  BY <1>3 DEF Fsync, FsyncFails
<1>4. CASE Start \/ RealFlush \/ KeepFile \/ NewFile
  BY <1>4 DEF Start, RealFlush, KeepFile, NewFile
<1>5. CASE Exit \/ Crash \/ PowerLoss \/ WriteBack \/ Tick
  BY <1>5 DEF Exit, Crash, PowerLoss, WriteBack, Tick
<1>6. CASE UNCHANGED vars
  BY <1>6 DEF vars
<1> QED
  BY <1>1, <1>2, <1>3, <1>4, <1>5, <1>6 DEF Next, FlushStep

LEMMA Failures ==
  ASSUME ControlInv, StreamInv, FileInv, failed \subseteq Sinks \X Batch, [Next]_vars
  PROVE  failed \subseteq failed' /\ failed' \subseteq Sinks \X Batch
<1>t. /\ \A s \in Sinks : Range(ubuf[s]) \subseteq Batch
      /\ sink \in Sinks /\ "roll" \in Sinks
  <2>1. \A s \in Sinks : ubuf[s] \in Seq(Batch)
    BY DEF StreamInv
  <2> QED
    BY <2>1, RangeOf DEF ControlInv, Sinks
<1>1. CASE NewFile
  <2>1. \/ UNCHANGED failed
        \/ failed' = failed \cup {<<"roll", b>> : b \in Range(ubuf["roll"])}
    BY <1>1 DEF NewFile
  <2> QED
    BY <1>t, <2>1
<1>2. CASE WriteFails
  <2>1. failed' = failed \cup {<<sink, batch>>} /\ batch \in Batch
    BY <1>2 DEF WriteFails, ControlInv, Busy
  <2> QED
    BY <1>t, <2>1
<1>3. CASE FflushFails
  BY <1>3, <1>t DEF FflushFails
<1>4. CASE FsyncFails
  <2> DEFINE k == kern[stream[sink]]
  <2>1. /\ failed' = failed \cup {<<sink, k[i]>> : i \in disk[stream[sink]] + 1 .. Len(k)}
        /\ pc = "fsync"
    BY <1>4 DEF FsyncFails
  <2>2. stream[sink] \in Files
    BY <1>t, <2>1, FileNames DEF StreamInv
  <2>3. k \in Seq(Batch) /\ disk[stream[sink]] \in Nat
    BY <2>2 DEF FileInv
  <2> HIDE DEF k
  <2>4. \A i \in disk[stream[sink]] + 1 .. Len(k) : k[i] \in Batch
    BY <2>3, RangeOf
  <2> QED
    BY <1>t, <2>1, <2>4
<1>5. CASE Start \/ RealFlush \/ KeepFile \/ Write \/ Fflush \/ Fsync
  BY <1>5 DEF Start, RealFlush, KeepFile, Write, Fflush, Fsync
<1>6. CASE Exit \/ Crash \/ PowerLoss \/ WriteBack \/ Tick
  BY <1>6 DEF Exit, Crash, PowerLoss, WriteBack, Tick
<1>7. CASE UNCHANGED vars
  BY <1>7 DEF vars
<1> QED
  BY <1>1, <1>2, <1>3, <1>4, <1>5, <1>6, <1>7 DEF Next, FlushStep

(* How run, batch and the end of the process change.                        *)
LEMMA Runs ==
  ASSUME ControlInv, [Next]_vars
  PROVE  \/ /\ UNCHANGED <<run, crashed>> /\ pc # "down" /\ RealFlush
            /\ batch'.num = batch.num + 1
         \/ /\ pc = "down" /\ pc' = "idle" /\ run' = run + 1
            /\ UNCHANGED <<crashed, batch, returned>>
         \/ /\ UNCHANGED <<run, batch>> /\ pc' = "down"
            /\ UNCHANGED returned
            /\ Exit \/ Crash \/ PowerLoss
         \/ UNCHANGED <<run, batch, crashed>> /\ (pc' = "down" <=> pc = "down")
<1>1. CASE Start
  BY <1>1 DEF Start
<1>2. CASE RealFlush
  <2>1. batch'.num = batch.num + 1
    BY <1>2 DEF RealFlush
  <2> QED
    BY <1>2, <2>1 DEF RealFlush
<1>3. CASE Exit \/ Crash \/ PowerLoss
  BY <1>3 DEF Exit, Crash, PowerLoss, ProcessGone
<1>4. CASE KeepFile \/ NewFile
  BY <1>4 DEF KeepFile, NewFile
<1>5. CASE Write \/ WriteFails \/ Fflush \/ FflushFails
  <2>1. GoesOn \/ FlushReturns
    BY <1>5, FlushGoesOn DEF Write, WriteFails, Fflush, FflushFails
  <2>2. pc' # "down" /\ pc # "down"
    BY <1>5, <2>1, WhereFlushGoes DEF Write, WriteFails, Fflush, FflushFails, ControlInv
  <2> QED
    BY <1>5, <2>2 DEF Write, WriteFails, Fflush, FflushFails
<1>6. CASE Fsync \/ FsyncFails
  BY <1>6 DEF Fsync, FsyncFails, FlushReturns
<1>7. CASE WriteBack \/ Tick
  BY <1>7 DEF WriteBack, Tick
<1>8. CASE UNCHANGED vars
  BY <1>8 DEF vars
<1> QED
  BY <1>1, <1>2, <1>3, <1>4, <1>5, <1>6, <1>7, <1>8 DEF Next, FlushStep

LEMMA HistoryStep ==
  ControlInv /\ StreamInv /\ FileInv /\ HistoryInv /\ [Next]_vars => HistoryInv'
<1> SUFFICES ASSUME ControlInv, StreamInv, FileInv, HistoryInv, [Next]_vars
             PROVE  HistoryInv'
  OBVIOUS
<1>t. run \in Nat /\ batch.num \in Nat /\ sink \in Sinks
  BY BatchFields, FlushConfig DEF ControlInv
<1>x. \A x \in returned : x[2].run \in Nat /\ x[2].num \in Nat
  BY BatchFields DEF HistoryInv
<1>1. failed' \subseteq Sinks \X Batch
  BY Failures DEF HistoryInv
<1>2. returned' \subseteq Sinks \X Batch
  <2>1. CASE FlushReturns /\ pc \in {"write", "fflush", "fsync"}
    <3>1. returned' = returned \cup {<<sink, batch>>} /\ batch \in Batch
      BY <2>1 DEF FlushReturns, ControlInv, Busy
    <3> QED
      BY <1>t, <3>1 DEF HistoryInv
  <2> QED
    BY <2>1, Returns DEF HistoryInv
<1>3. \A x \in returned' : x[2].run <= run' /\ x[2].num <= batch'.num
  <2>1. CASE FlushReturns /\ pc \in {"write", "fflush", "fsync"} /\ UNCHANGED <<run, batch>>
    <3>1. returned' = returned \cup {<<sink, batch>>} /\ batch.run = run
      BY <2>1 DEF FlushReturns, ControlInv, Busy
    <3> QED
      BY <1>t, <2>1, <3>1 DEF HistoryInv
  <2>2. CASE UNCHANGED returned
    <3>1. /\ run' = run \/ run' = run + 1
          /\ batch' = batch \/ batch'.num = batch.num + 1
      BY Runs
    <3> QED
      BY <1>t, <1>x, <2>2, <3>1 DEF HistoryInv
  <2> QED
    BY <2>1, <2>2, Returns
<1>4. crashed' \subseteq 1 .. run' /\ (pc' # "down" => run' \notin crashed')
  <2>1. CASE Exit \/ Crash \/ PowerLoss
    <3>1. pc' = "down" /\ UNCHANGED run
      BY <2>1 DEF Exit, Crash, PowerLoss, ProcessGone
    <3>2. pc # "down" => run \in 1 .. run
      BY <1>t DEF ControlInv
    <3>3. crashed' = crashed \/ (pc # "down" /\ crashed' = crashed \cup {run})
      BY <2>1 DEF Exit, Crash, PowerLoss
    <3> QED
      BY <3>1, <3>2, <3>3 DEF HistoryInv
  <2>2. CASE UNCHANGED <<run, crashed>> /\ (pc' # "down" => pc # "down")
    BY <2>2 DEF HistoryInv
  <2>3. CASE run' = run + 1 /\ UNCHANGED crashed
    BY <1>t, <2>3 DEF HistoryInv
  <2> QED
    BY <2>1, <2>2, <2>3, Runs
<1> QED
  BY <1>1, <1>2, <1>3, <1>4 DEF HistoryInv

(* A batch of the present run is with both sinks, or is still being         *)
(* flushed.                                                                 *)
AgreeInv ==
  /\ \A x \in returned :
       x[2].run = run /\ pc # "down" =>
         <<"roll", x[2]>> \in returned \/ (x[2] = batch /\ pc # "idle")
  /\ SinksAgree

LEMMA AgreeStep ==
  ControlInv /\ StreamInv /\ FileInv /\ HistoryInv /\ AgreeInv /\ [Next]_vars => AgreeInv'
<1> SUFFICES ASSUME ControlInv, StreamInv, FileInv, HistoryInv, AgreeInv, [Next]_vars
             PROVE  AgreeInv'
  OBVIOUS
<1>t. run \in Nat /\ batch.num \in Nat /\ sink \in Sinks
  BY BatchFields, FlushConfig DEF ControlInv
<1>x. \A x \in returned : /\ x[2].run \in Nat /\ x[2].num \in Nat
                          /\ x[2].run <= run /\ x[2].num <= batch.num
  BY BatchFields DEF HistoryInv
<1>s. \A x \in returned :
        <<"roll", x[2]>> \notin returned =>
          \/ x[2] = batch /\ pc # "idle"
          \/ \A y \in returned : y[2].run = x[2].run => y[2].num <= x[2].num
  BY DEF AgreeInv, SinksAgree
<1>g. ASSUME \A x \in returned' :
               <<"roll", x[2]>> \notin returned' =>
                 \/ x[2] = batch' /\ pc' # "idle"
                 \/ \A y \in returned' : y[2].run = x[2].run => y[2].num <= x[2].num
      PROVE  SinksAgree'
  BY <1>g DEF SinksAgree
<1>1. CASE /\ pc \in {"write", "fflush", "fsync"} /\ FlushReturns
           /\ UNCHANGED <<run, batch>>
  <2>1. /\ returned' = returned \cup {<<sink, batch>>} /\ batch.run = run /\ pc # "idle"
        /\ pc # "down" /\ batch \in Batch
    BY <1>1 DEF FlushReturns, ControlInv, Busy
  <2>2. (sink = "roll" /\ pc' = "idle") \/ pc' = "roll"
    BY <1>1, <1>t DEF FlushReturns, Sinks
  <2>3. ASSUME NEW x \in returned', x[2].run = run
        PROVE  <<"roll", x[2]>> \in returned' \/ (x[2] = batch /\ pc' # "idle")
    <3>1. CASE x \in returned
      <4>1. <<"roll", x[2]>> \in returned \/ x[2] = batch
        BY <2>1, <2>3, <3>1 DEF AgreeInv
      <4> QED
        BY <2>1, <2>2, <4>1
    <3>2. CASE x = <<sink, batch>>
      <4>1. x[2] = batch
        BY <3>2
      <4> QED
        BY <2>1, <2>2, <4>1
    <3> QED
      BY <2>1, <3>1, <3>2
  <2>4. ASSUME NEW x \in returned', <<"roll", x[2]>> \notin returned'
        PROVE  \/ x[2] = batch /\ pc' # "idle"
               \/ \A y \in returned' : y[2].run = x[2].run => y[2].num <= x[2].num
    <3>1. CASE x[2].run = run
      BY <2>3, <2>4, <3>1
    <3>2. CASE x[2].run # run
      <4>1. x \in returned /\ <<"roll", x[2]>> \notin returned /\ x[2] # batch
        BY <2>1, <2>4, <3>2
      <4>2. \A y \in returned : y[2].run = x[2].run => y[2].num <= x[2].num
        BY <1>s, <4>1
      <4>3. \A y \in returned' : y[2].run = x[2].run => y \in returned
        BY <2>1, <3>2
      <4> QED
        BY <4>2, <4>3
    <3> QED
      BY <3>1, <3>2
  <2> QED
    BY <1>1, <1>g, <2>3, <2>4 DEF AgreeInv
<1>2. CASE UNCHANGED <<returned, run, batch>> /\ (pc' = "idle" => pc = "idle")
           /\ (pc' # "down" => pc # "down")
  <2>1. \A x \in returned :
          x[2].run = run /\ pc' # "down" =>
            <<"roll", x[2]>> \in returned \/ (x[2] = batch /\ pc' # "idle")
    BY <1>2 DEF AgreeInv
  <2> QED
    BY <1>2, <1>g, <1>s, <2>1 DEF AgreeInv
<1>3. CASE Start
  <2>1. /\ run' = run + 1 /\ pc' = "idle" /\ pc = "down" /\ UNCHANGED <<returned, batch>>
    BY <1>3 DEF Start
  <2>2. \A x \in returned' : x[2].run # run'
    BY <1>t, <1>x, <2>1
  <2>3. ASSUME NEW x \in returned, <<"roll", x[2]>> \notin returned
        PROVE  \A y \in returned : y[2].run = x[2].run => y[2].num <= x[2].num
    BY <1>s, <1>x, <2>3
  <2> QED
    BY <1>g, <2>1, <2>2, <2>3 DEF AgreeInv
<1>4. CASE RealFlush
  <2>1. /\ UNCHANGED <<run, returned>> /\ pc = "idle" /\ pc' = "write"
    BY <1>4 DEF RealFlush
  <2>2. \A x \in returned : x[2].run = run => <<"roll", x[2]>> \in returned
    BY <2>1 DEF AgreeInv
  <2>3. ASSUME NEW x \in returned, <<"roll", x[2]>> \notin returned
        PROVE  \A y \in returned : y[2].run = x[2].run => y[2].num <= x[2].num
    BY <1>s, <2>1, <2>3
  <2> QED
    BY <1>g, <2>1, <2>2, <2>3 DEF AgreeInv
<1>5. CASE KeepFile \/ NewFile \/ Exit \/ Crash \/ PowerLoss \/ WriteBack \/ Tick
  BY <1>2, <1>5 DEF KeepFile, NewFile, Exit, Crash, PowerLoss, ProcessGone, WriteBack, Tick
<1>6. CASE Write \/ WriteFails \/ Fflush \/ FflushFails
  <2>1. GoesOn \/ FlushReturns
    BY <1>6, FlushGoesOn DEF Write, WriteFails, Fflush, FflushFails
  <2> QED
    BY <1>1, <1>2, <1>6, <2>1 DEF GoesOn, Write, WriteFails, Fflush, FflushFails
<1>7. CASE Fsync \/ FsyncFails
  BY <1>1, <1>7 DEF Fsync, FsyncFails
<1>8. CASE UNCHANGED vars
  BY <1>2, <1>8 DEF vars
<1> QED
  BY <1>3, <1>4, <1>5, <1>6, <1>7, <1>8 DEF Next, FlushStep

-----------------------------------------------------------------------------
(* The shape of every reachable state                                       *)

FlushInv == ControlInv /\ StreamInv /\ FileInv /\ HistoryInv

LEMMA FlushInit == Init => FlushInv /\ AgreeInv
<1> SUFFICES ASSUME Init PROVE FlushInv /\ AgreeInv
  OBVIOUS
<1>1. << >> \in Seq(Batch) /\ Range(<< >>) = {} /\ Len(<< >>) = 0
  BY EmptySeq DEF Range
<1>2. ControlInv /\ "file" \in Sinks
  BY ControlInit DEF Sinks
<1>3. /\ pc = "down" /\ run = 0 /\ returned = {} /\ failed = {} /\ crashed = {}
      /\ stream = [s \in Sinks |-> NoFile] /\ ubuf = [s \in Sinks |-> << >>]
      /\ kern = [f \in Files |-> << >>] /\ disk = [f \in Files |-> 0]
  BY DEF Init
<1>4. StreamInv
  BY <1>1, <1>3 DEF StreamInv
<1>5. FileInv
  BY <1>1, <1>3 DEF FileInv
<1>6. HistoryInv
  BY <1>3 DEF HistoryInv
<1>7. AgreeInv
  BY <1>3 DEF AgreeInv, SinksAgree
<1> QED
  BY <1>2, <1>4, <1>5, <1>6, <1>7 DEF FlushInv

LEMMA FlushInvariant == Spec => [](FlushInv /\ AgreeInv)
<1>1. FlushInv /\ AgreeInv /\ [Next]_vars => (FlushInv /\ AgreeInv)'
  BY ControlStep, StreamStep, FileStep, HistoryStep, AgreeStep DEF FlushInv
<1> QED
  BY FlushInit, <1>1, PTL DEF Spec

(* The sinks get the same batches (RealFlush, AsyncLogger.hpp:154-162): one *)
(* that a sink has and the next has not is the one a crash came upon.       *)
THEOREM SinksGetTheSame == Spec => []SinksAgree
<1>1. AgreeInv => SinksAgree
  BY DEF AgreeInv
<1> QED
  BY FlushInvariant, <1>1, PTL

(* The type invariant but for the bytes of the user buffer.                 *)
FlushShapes ==
  /\ flushLog \in 0 .. 2
  /\ now \in DOMAIN Times
  /\ run \in 0 .. MaxRuns
  /\ pc \in {"down", "idle", "roll", "write", "fflush", "fsync"}
  /\ sink \in Sinks
  /\ batch \in Batch \cup {[num |-> 0, run |-> 0, size |-> 0]}
  /\ stream \in [Sinks -> Files \cup {NoFile}]
  /\ ubuf \in [Sinks -> Seq(Batch)]
  /\ cnt \in 1 .. MaxBatches + 1
  /\ curSize \in Nat
  /\ kern \in [Files -> Seq(Batch)]
  /\ disk \in [Files -> Nat]
  /\ \A f \in Files : disk[f] <= Len(kern[f])
  /\ returned \subseteq Sinks \X Batch
  /\ failed \subseteq Sinks \X Batch
  /\ crashed \subseteq 1 .. MaxRuns
  /\ powerLost \in BOOLEAN

(* The variables have these shapes.                                         *)
LEMMA ShapesKept == Spec => []FlushShapes
<1>1. ASSUME FlushInv PROVE FlushShapes
  <2>1. cnt \in 1 .. MaxBatches + 1
    BY <1>1, BatchFields, FlushConfig DEF FlushInv, ControlInv
  <2>2. crashed \subseteq 1 .. MaxRuns
    BY <1>1, FlushConfig DEF FlushInv, ControlInv, HistoryInv
  <2>3. batch \in Batch \cup {[num |-> 0, run |-> 0, size |-> 0]}
    BY <1>1 DEF FlushInv, ControlInv, NoBatch
  <2> QED
    BY <1>1, <2>1, <2>2, <2>3
    DEF FlushInv, ControlInv, StreamInv, FileInv, HistoryInv, FlushShapes, Busy
<1> QED
  BY FlushInvariant, <1>1, PTL

-----------------------------------------------------------------------------
(* How batches pass from a buffer to a file                                 *)

(* What a step may do to a sink's buffer and files: nothing, hand the       *)
(* buffer over, empty it without doing so, or take the current batch and    *)
(* hand over the front of the buffer.                                       *)
Quiet(s) ==
  /\ ubuf'[s] = ubuf[s]
  /\ \A b \in Batch : InKernel(s, b)' <=> InKernel(s, b)

Passes(s) ==
  /\ ubuf'[s] = << >>
  /\ \A b \in Batch : InKernel(s, b)' <=> InKernel(s, b) \/ b \in Range(ubuf[s])

Drops(s) ==
  /\ ubuf'[s] = << >>
  /\ \A b \in Batch : InKernel(s, b)' <=> InKernel(s, b)

Takes(s) ==
  LET u == Append(ubuf[s], batch)
  IN  \E n \in 0 .. Len(u) :
        /\ ubuf'[s] = SubSeq(u, n + 1, Len(u))
        /\ \A b \in Batch :
             InKernel(s, b)' <=> InKernel(s, b) \/ b \in Range(SubSeq(u, 1, n))

(* A file of a sink that grows.                                             *)
LEMMA KernelGrows ==
  ASSUME StreamInv, FileInv, NEW s \in Sinks, NEW g \in FilesOf(s), NEW t \in Seq(Batch),
         \A f \in FilesOf(s) : kern'[f] = IF f = g THEN kern[f] \o t ELSE kern[f],
         NEW b \in Batch
  PROVE  InKernel(s, b)' <=> InKernel(s, b) \/ b \in Range(t)
<1>1. kern[g] \in Seq(Batch)
  BY FileNames DEF FileInv
<1>2. Range(kern'[g]) = Range(kern[g]) \cup Range(t)
  BY <1>1, Joined
<1>3. \A f \in FilesOf(s) : f # g => kern'[f] = kern[f]
  OBVIOUS
<1> QED
  BY <1>2, <1>3 DEF InKernel

LEMMA KernelSame ==
  ASSUME NEW s \in Sinks, \A f \in FilesOf(s) : kern'[f] = kern[f], NEW b \in Batch
  PROVE  InKernel(s, b)' <=> InKernel(s, b)
BY DEF InKernel

LEMMA WriteEffect ==
  ASSUME ControlInv, StreamInv, FileInv, Write, NEW s \in Sinks
  PROVE  IF s = sink THEN Takes(s) ELSE Quiet(s)
<1> DEFINE u == Append(ubuf[sink], batch)
           g == stream[sink]
<1>1. /\ kern \in [Files -> Seq(Batch)] /\ ubuf \in [Sinks -> Seq(Batch)]
      /\ sink \in Sinks
  BY DEF FileInv, StreamInv, ControlInv
<1>2. u \in Seq(Batch) /\ g \in FilesOf(sink) /\ g \in Files
  BY <1>1, Written, FileNames
<1>3. PICK n \in 0 .. Len(u) : /\ kern' = [kern EXCEPT ![g] = @ \o SubSeq(u, 1, n)]
                               /\ ubuf' = [ubuf EXCEPT ![sink] = SubSeq(u, n + 1, Len(u))]
  BY Written
<1>4. CASE s = sink
  <2> HIDE DEF g, u
  <2>1. SubSeq(u, 1, n) \in Seq(Batch)
    BY <1>2, Cut
  <2>2. \A f \in FilesOf(s) :
          kern'[f] = IF f = g THEN kern[f] \o SubSeq(u, 1, n) ELSE kern[f]
    BY <1>1, <1>2, <1>3, FileNames
  <2>3. \A b \in Batch : InKernel(s, b)' <=> InKernel(s, b) \/ b \in Range(SubSeq(u, 1, n))
    BY <1>2, <1>4, <2>1, <2>2, KernelGrows
  <2>4. ubuf'[s] = SubSeq(u, n + 1, Len(u))
    BY <1>1, <1>3, <1>4
  <2> QED
    BY <1>4, <2>3, <2>4 DEF Takes, u
<1>5. CASE s # sink
  <2>1. \A f \in FilesOf(s) : kern'[f] = kern[f]
    BY <1>1, <1>2, <1>3, <1>5, FileNames
  <2>2. ubuf'[s] = ubuf[s]
    BY <1>1, <1>3, <1>5
  <2> QED
    BY <1>5, <2>1, <2>2, KernelSame DEF Quiet
<1> QED
  BY <1>4, <1>5

LEMMA FflushEffect ==
  ASSUME ControlInv, StreamInv, FileInv, Fflush, NEW s \in Sinks
  PROVE  IF s = sink THEN Passes(s) ELSE Quiet(s)
<1>1. /\ kern \in [Files -> Seq(Batch)] /\ ubuf \in [Sinks -> Seq(Batch)]
      /\ sink \in Sinks
  BY DEF FileInv, StreamInv, ControlInv
<1>2. stream[sink] \in FilesOf(sink) /\ stream[sink] \in Files /\ ubuf[sink] \in Seq(Batch)
  BY <1>1, FileNames DEF Fflush, StreamInv
<1>3. /\ kern' = [kern EXCEPT ![stream[sink]] = @ \o ubuf[sink]]
      /\ ubuf' = [ubuf EXCEPT ![sink] = << >>]
  BY DEF Fflush
<1>4. CASE s = sink
  <2>1. \A f \in FilesOf(s) :
          kern'[f] = IF f = stream[sink] THEN kern[f] \o ubuf[sink] ELSE kern[f]
    BY <1>1, <1>2, <1>3, FileNames
  <2>2. \A b \in Batch : InKernel(s, b)' <=> InKernel(s, b) \/ b \in Range(ubuf[sink])
    BY <1>2, <1>4, <2>1, KernelGrows
  <2> QED
    BY <1>1, <1>3, <1>4, <2>2 DEF Passes
<1>5. CASE s # sink
  <2>1. \A f \in FilesOf(s) : kern'[f] = kern[f]
    BY <1>1, <1>2, <1>3, <1>5, FileNames
  <2>2. ubuf'[s] = ubuf[s]
    BY <1>1, <1>3, <1>5
  <2> QED
    BY <1>5, <2>1, <2>2, KernelSame DEF Quiet
<1> QED
  BY <1>4, <1>5

(* A buffer without a file is empty, so that there is nothing to hand over. *)
LEMMA Closing ==
  ASSUME StreamInv, FileInv, NEW s \in Sinks, ubuf'[s] = << >>,
         \A f \in FilesOf(s) :
           kern'[f] = IF f = stream[s] THEN kern[f] \o ubuf[s] ELSE kern[f]
  PROVE  Passes(s)
<1>1. ubuf[s] \in Seq(Batch)
  BY DEF StreamInv
<1>2. CASE stream[s] = NoFile
  <2>1. Range(ubuf[s]) = {}
    BY <1>2 DEF StreamInv, Range
  <2>2. \A f \in FilesOf(s) : kern'[f] = kern[f]
    BY <1>2, FileNames
  <2> QED
    BY <2>1, <2>2, KernelSame DEF Passes
<1>3. CASE stream[s] # NoFile
  <2>1. stream[s] \in FilesOf(s)
    BY <1>3 DEF StreamInv
  <2>2. \A b \in Batch : InKernel(s, b)' <=> InKernel(s, b) \/ b \in Range(ubuf[s])
    BY <1>1, <2>1, KernelGrows
  <2> QED
    BY <2>2 DEF Passes
<1> QED
  BY <1>2, <1>3

LEMMA NewFileEffect ==
  ASSUME ControlInv, StreamInv, FileInv, NewFile, NEW s \in Sinks
  PROVE  \/ s = "file" /\ Quiet(s)
         \/ s = "roll" /\ Passes(s)
         \/ s = "roll" /\ Drops(s) /\ \A b \in Range(ubuf[s]) : <<s, b>> \in failed'
<1>1. /\ kern \in [Files -> Seq(Batch)] /\ ubuf \in [Sinks -> Seq(Batch)]
      /\ "roll" \in Sinks /\ "file" \in Sinks /\ (s = "file" \/ s = "roll")
  BY DEF FileInv, StreamInv, Sinks
<1>2. /\ \/ kern' = [f \in Files |->
                      IF f = stream["roll"] THEN kern[f] \o ubuf["roll"] ELSE kern[f]]
         \/ /\ failed' = failed \cup {<<"roll", b>> : b \in Range(ubuf["roll"])}
            /\ UNCHANGED kern
      /\ ubuf' = [ubuf EXCEPT !["roll"] = << >>]
  BY DEF NewFile
<1>3. CASE s = "file"
  <2>1. \A f \in FilesOf(s) : f # stream["roll"]
    BY <1>1, <1>3, FileNames DEF StreamInv
  <2>2. \A f \in FilesOf(s) : kern'[f] = kern[f]
    BY <1>1, <1>2, <1>3, <2>1, FileNames
  <2> QED
    BY <1>1, <1>2, <1>3, <2>2, KernelSame DEF Quiet
<1>4. CASE s = "roll" /\ UNCHANGED kern
            /\ failed' = failed \cup {<<"roll", b>> : b \in Range(ubuf["roll"])}
  <2>1. \A b \in Range(ubuf[s]) : <<s, b>> \in failed'
    BY <1>4
  <2>2. ubuf'[s] = << >> /\ \A f \in FilesOf(s) : kern'[f] = kern[f]
    BY <1>1, <1>2, <1>4
  <2> QED
    BY <1>4, <2>1, <2>2, KernelSame DEF Drops
<1>5. CASE /\ s = "roll"
           /\ kern' = [f \in Files |->
                        IF f = stream["roll"] THEN kern[f] \o ubuf["roll"] ELSE kern[f]]
  <2>1. \A f \in FilesOf(s) :
          kern'[f] = IF f = stream[s] THEN kern[f] \o ubuf[s] ELSE kern[f]
    BY <1>5, FileNames
  <2>2. ubuf'[s] = << >>
    BY <1>1, <1>2, <1>5
  <2> QED
    BY <1>5, <2>1, <2>2, Closing
<1> QED
  BY <1>1, <1>2, <1>3, <1>4, <1>5

LEMMA ExitEffect ==
  ASSUME StreamInv, FileInv, Exit, NEW s \in Sinks
  PROVE  Passes(s)
<1> DEFINE a(f) == IF f = stream["file"] THEN ubuf["file"] ELSE << >>
           b(f) == IF f = stream["roll"] THEN ubuf["roll"] ELSE << >>
<1>1. /\ ubuf \in [Sinks -> Seq(Batch)] /\ kern \in [Files -> Seq(Batch)]
      /\ "roll" \in Sinks /\ "file" \in Sinks /\ (s = "file" \/ s = "roll")
      /\ << >> \in Seq(Batch)
  BY EmptySeq DEF FileInv, StreamInv, Sinks
<1>2. kern' = [f \in Files |-> (kern[f] \o a(f)) \o b(f)] /\ ubuf' = [r \in Sinks |-> << >>]
  BY DEF Exit, ProcessGone
<1>3. \A f \in FilesOf("file") : b(f) = << >>
  BY <1>1, FileNames DEF StreamInv
<1>4. \A f \in FilesOf("roll") : a(f) = << >>
  BY <1>1, FileNames DEF StreamInv
<1>5. \A q \in Seq(Batch) : q \o << >> = q
  BY ConcatEmptySeq
<1>6. \A f \in Files : kern[f] \o a(f) \in Seq(Batch)
  BY <1>1, Joined
<1>7. ASSUME NEW f \in FilesOf(s)
      PROVE  kern'[f] = IF f = stream[s] THEN kern[f] \o ubuf[s] ELSE kern[f]
  <2>1. f \in Files /\ kern[f] \in Seq(Batch)
    BY <1>1, FileNames
  <2>2. CASE s = "file"
    <3>1. kern'[f] = kern[f] \o a(f)
      BY <1>2, <1>3, <1>5, <1>6, <2>1, <2>2
    <3> QED
      BY <1>5, <2>1, <2>2, <3>1
  <2>3. CASE s = "roll"
    <3>1. kern'[f] = kern[f] \o b(f)
      BY <1>2, <1>4, <1>5, <2>1, <2>3
    <3> QED
      BY <1>5, <2>1, <2>3, <3>1
  <2> QED
    BY <1>1, <2>2, <2>3
<1> QED
  BY <1>1, <1>2, <1>7, Closing

(* What a step does to the buffer and the files of a sink, unless it is a   *)
(* loss of power.                                                           *)
LEMMA Effects ==
  ASSUME ControlInv, StreamInv, FileInv, [Next]_vars, ~PowerLoss, NEW s \in Sinks
  PROVE  \/ Quiet(s)
         \/ /\ Drops(s)
            /\ Crash \/ (NewFile /\ \A b \in Range(ubuf[s]) : <<s, b>> \in failed')
         \/ Passes(s) /\ UNCHANGED <<run, batch>> /\ (Exit \/ (pc # "down" /\ pc' # "down"))
         \/ Takes(s) /\ Write /\ s = sink
<1>a. ASSUME UNCHANGED <<kern, ubuf>> PROVE Quiet(s)
  BY <1>a, KernelSame DEF Quiet
<1>1. CASE Start \/ RealFlush \/ KeepFile \/ WriteFails \/ FflushFails
  BY <1>1, <1>a DEF Start, RealFlush, KeepFile, WriteFails, FflushFails
<1>2. CASE Fsync \/ FsyncFails \/ WriteBack \/ Tick
  BY <1>2, <1>a DEF Fsync, FsyncFails, WriteBack, Tick
<1>3. CASE NewFile
  <2>1. UNCHANGED <<run, batch>> /\ pc # "down" /\ pc' # "down"
    BY <1>3 DEF NewFile
  <2> QED
    BY <1>3, <2>1, NewFileEffect
<1>4. CASE Write
  BY <1>4, WriteEffect
<1>5. CASE Fflush
  <2>1. GoesOn \/ FlushReturns
    BY <1>5, FlushGoesOn DEF Fflush
  <2>2. UNCHANGED <<run, batch>> /\ pc # "down" /\ pc' # "down"
    BY <1>5, <2>1 DEF Fflush, GoesOn, FlushReturns
  <2> QED
    BY <1>5, <2>2, FflushEffect
<1>6. CASE Exit
  <2>1. UNCHANGED <<run, batch>>
    BY <1>6 DEF Exit
  <2> QED
    BY <1>6, <2>1, ExitEffect
<1>7. CASE Crash
  <2>1. ubuf'[s] = << >> /\ \A f \in FilesOf(s) : kern'[f] = kern[f]
    BY <1>7 DEF Crash, ProcessGone
  <2> QED
    BY <1>7, <2>1, KernelSame DEF Drops
<1>8. CASE UNCHANGED vars
  BY <1>8, <1>a DEF vars
<1> QED
  BY <1>1, <1>2, <1>3, <1>4, <1>5, <1>6, <1>7, <1>8 DEF Next, FlushStep

(* After a loss of power there is less in the kernel and nothing in a       *)
(* buffer.                                                                  *)
LEMMA PowerEffect ==
  ASSUME FileInv, PowerLoss, NEW s \in Sinks
  PROVE  /\ ubuf'[s] = << >>
         /\ \A b \in Batch : InKernel(s, b)' => InKernel(s, b)
<1>1. ubuf'[s] = << >>
  BY DEF PowerLoss, ProcessGone
<1>2. ASSUME NEW f \in FilesOf(s), NEW b \in Range(kern'[f]) PROVE b \in Range(kern[f])
  <2>1. /\ f \in Files /\ kern'[f] \in Seq(Batch) /\ kern[f] \in Seq(Batch)
        /\ Len(kern'[f]) = disk[f] /\ disk[f] \in Nat /\ disk[f] <= Len(kern[f])
        /\ \A i \in 1 .. disk[f] : kern'[f][i] = kern[f][i]
    BY FileNames, FilesCut DEF FileInv
  <2>2. PICK i \in 1 .. Len(kern'[f]) : kern'[f][i] = b
    BY <2>1, RangeOf
  <2>3. i \in 1 .. Len(kern[f]) /\ kern[f][i] = b
    BY <2>1, <2>2, RangeOf
  <2> QED
    BY <2>1, <2>3, RangeOf
<1> QED
  BY <1>1, <1>2 DEF InKernel

(* The current batch is yet to be handed to the sink.                       *)
ToWrite(s) ==
  \/ pc \in {"write", "roll"} /\ sink = s
  \/ pc \in Busy /\ sink = "file" /\ s = "roll"

LEMMA ToWriteShrinks ==
  ASSUME ControlInv, [Next]_vars, ~RealFlush, NEW s \in Sinks
  PROVE  /\ ToWrite(s)' => ToWrite(s)
         /\ Write /\ s = sink => ToWrite(s) /\ ~ToWrite(s)'
<1>t. /\ pc = "roll" => sink = "roll"
      /\ sink \in Sinks /\ pc \in {"down", "idle"} \cup Busy
  BY DEF ControlInv
<1>a. ASSUME UNCHANGED <<pc, sink>>, ~Write
      PROVE  /\ ToWrite(s)' => ToWrite(s)
             /\ Write /\ s = sink => ToWrite(s) /\ ~ToWrite(s)'
  BY <1>a DEF ToWrite
<1>1. CASE pc' \in {"down", "idle"} /\ ~Write
  BY <1>1 DEF ToWrite, Busy
<1>2. CASE Write \/ WriteFails \/ Fflush \/ FflushFails \/ Fsync \/ FsyncFails
  <2>1. GoesOn \/ FlushReturns
    BY <1>2, FlushGoesOn DEF Write, WriteFails, Fflush, FflushFails, Fsync, FsyncFails
  <2>2. \/ pc' \in {"fflush", "fsync"} /\ sink' = sink
        \/ sink = "file" /\ pc' = "roll" /\ sink' = "roll"
        \/ sink = "roll" /\ pc' = "idle" /\ sink' = "roll"
    BY <1>t, <2>1, WhereFlushGoes
  <2>3. pc \in {"write", "fflush", "fsync"} /\ (Write => pc = "write")
    BY <1>2 DEF Write, WriteFails, Fflush, FflushFails, Fsync, FsyncFails
  <2> QED
    BY <1>t, <2>2, <2>3 DEF ToWrite, Busy, Sinks
<1>3. CASE KeepFile \/ NewFile
  <2>1. pc = "roll" /\ pc' = "write" /\ sink' = sink
    BY <1>3 DEF KeepFile, NewFile
  <2>2. ~Write
    BY <2>1 DEF Write
  <2> QED
    BY <1>t, <2>1, <2>2 DEF ToWrite
<1>4. CASE Start \/ Exit \/ Crash \/ PowerLoss
  <2>1. pc' \in {"down", "idle"}
    BY <1>4 DEF Start, Exit, Crash, PowerLoss, ProcessGone
  <2>2. CASE Write
    BY <1>2, <2>2
  <2> QED
    BY <1>1, <2>1, <2>2
<1>5. CASE WriteBack \/ Tick \/ UNCHANGED vars
  <2>1. UNCHANGED <<pc, sink>>
    BY <1>5 DEF WriteBack, Tick, vars
  <2>2. CASE Write
    BY <1>2, <2>2
  <2> QED
    BY <1>a, <2>1, <2>2
<1> QED
  BY <1>2, <1>3, <1>4, <1>5 DEF Next, FlushStep

-----------------------------------------------------------------------------
(* The order of the batches of a run                                        *)

(* What is buffered is younger than what the kernel has of the same run,    *)
(* lies in order, and is older than what is yet to be written.              *)
Ordered(s) ==
  /\ \A b \in Range(ubuf[s]) :
       \A d \in Batch : InKernel(s, d) /\ d.run = run => d.num < b.num
  /\ \A i, j \in 1 .. Len(ubuf[s]) : i < j => ubuf[s][i].num < ubuf[s][j].num
  /\ \A d \in Batch :
       d \in Range(ubuf[s]) \/ (InKernel(s, d) /\ d.run = run) =>
         d.num <= batch.num /\ (ToWrite(s) => d.num < batch.num)
  /\ \A d \in Batch : InKernel(s, d) => d.run <= run

OrderInv == \A s \in Sinks : Ordered(s)

LEMMA OrderInit == Init => OrderInv
<1> SUFFICES ASSUME Init, NEW s \in Sinks PROVE Ordered(s)
  BY DEF OrderInv
<1>1. /\ ubuf[s] = << >> /\ Len(<< >>) = 0 /\ Range(<< >>) = {}
      /\ \A f \in Files : kern[f] = << >>
  BY EmptySeq DEF Init, Range
<1>2. \A d \in Batch : ~InKernel(s, d)
  BY <1>1, FileNames DEF InKernel
<1> QED
  BY <1>1, <1>2 DEF Ordered

(* An emptied buffer is in order.                                           *)
LEMMA EmptyOrdered ==
  ASSUME ControlInv, StreamInv, NEW s \in Sinks, Ordered(s), ubuf'[s] = << >>,
         UNCHANGED <<run, batch>>, ToWrite(s)' => ToWrite(s),
         \A d \in Batch : InKernel(s, d)' => InKernel(s, d) \/ d \in Range(ubuf[s])
  PROVE  Ordered(s)'
<1>1. Len(<< >>) = 0 /\ Range(<< >>) = {} /\ run \in Nat
  BY EmptySeq, FlushConfig DEF Range, ControlInv
<1>2. ASSUME NEW d \in Batch, InKernel(s, d)', d.run = run
      PROVE  d.num <= batch.num /\ (ToWrite(s)' => d.num < batch.num)
  BY <1>2 DEF Ordered
<1>3. ASSUME NEW d \in Batch, InKernel(s, d)' PROVE d.run <= run
  <2>1. CASE InKernel(s, d)
    BY <2>1 DEF Ordered
  <2>2. CASE d \in Range(ubuf[s])
    BY <1>1, <2>2 DEF StreamInv
  <2> QED
    BY <1>3, <2>1, <2>2
<1> QED
  BY <1>1, <1>2, <1>3 DEF Ordered

(* The current batch follows what is buffered.                              *)
LEMMA TakesOrdered ==
  ASSUME ControlInv, StreamInv, NEW s \in Sinks, Ordered(s), Takes(s),
         batch \in Batch, batch.run = run, UNCHANGED <<run, batch>>,
         ToWrite(s), ~ToWrite(s)'
  PROVE  Ordered(s)'
<1> DEFINE v == ubuf[s]
           u == Append(v, batch)
<1>1. v \in Seq(Batch) /\ run \in Nat /\ batch.num \in Nat
  BY BatchFields, FlushConfig DEF StreamInv, ControlInv
<1>2. /\ u \in Seq(Batch) /\ Len(u) = Len(v) + 1 /\ Len(v) \in Nat
      /\ \A i \in 1 .. Len(v) : u[i] = v[i] /\ v[i] \in Batch /\ v[i] \in Range(v)
      /\ u[Len(v) + 1] = batch
      /\ Range(u) = Range(v) \cup {batch}
  BY <1>1, OneMoreBatch, RangeOf
<1>3. PICK n \in 0 .. Len(u) :
        /\ ubuf'[s] = SubSeq(u, n + 1, Len(u))
        /\ \A b \in Batch : InKernel(s, b)' <=> InKernel(s, b) \/ b \in Range(SubSeq(u, 1, n))
  BY DEF Takes
<1>4. /\ \A b \in Range(v) : b \in Batch /\ b.num < batch.num /\ b.run = run
      /\ \A d \in Batch : InKernel(s, d) /\ d.run = run =>
           d.num < batch.num /\ \A b \in Range(v) : d.num < b.num
      /\ \A i, j \in 1 .. Len(v) : i < j => v[i].num < v[j].num
      /\ \A d \in Batch : InKernel(s, d) => d.run <= run
  <2>1. \A b \in Range(v) : b \in Batch
    BY <1>1, RangeOf
  <2> QED
    BY <2>1 DEF Ordered, StreamInv
<1> DEFINE front == SubSeq(u, 1, n)
           rest == SubSeq(u, n + 1, Len(u))
<1> HIDE DEF u, v
<1>5. /\ front \in Seq(Batch) /\ Len(front) = n
      /\ \A i \in 1 .. n : front[i] = u[i]
      /\ rest \in Seq(Batch) /\ Len(rest) = Len(u) - n
      /\ \A i \in 1 .. Len(u) - n : rest[i] = u[n + i]
      /\ Range(u) = Range(front) \cup Range(rest)
  BY <1>2, Cut, CutRange
<1>6. ubuf'[s] = rest /\ \A b \in Batch : InKernel(s, b)' <=> InKernel(s, b) \/ b \in Range(front)
  BY <1>3
<1> HIDE DEF front, rest
<1>7. ASSUME NEW i \in 1 .. Len(u), NEW j \in 1 .. Len(u), i < j
      PROVE  u[i].num < u[j].num
  <2>1. i \in 1 .. Len(v) /\ (j \in 1 .. Len(v) \/ j = Len(v) + 1)
    BY <1>2, <1>7
  <2>2. CASE j \in 1 .. Len(v)
    BY <1>2, <1>4, <1>7, <2>1, <2>2
  <2>3. CASE j = Len(v) + 1
    BY <1>2, <1>4, <2>1, <2>3
  <2> QED
    BY <2>1, <2>2, <2>3
<1>8. ASSUME NEW i \in 1 .. Len(rest), NEW j \in 1 .. Len(rest), i < j
      PROVE  rest[i].num < rest[j].num
  <2>1. /\ n + i \in 1 .. Len(u) /\ n + j \in 1 .. Len(u) /\ n + i < n + j
        /\ rest[i] = u[n + i] /\ rest[j] = u[n + j]
    BY <1>2, <1>5, <1>8
  <2> QED
    BY <1>7, <2>1
<1>9. ASSUME NEW b \in Range(rest), NEW d \in Range(front) PROVE d.num < b.num
  <2>1. PICK j \in 1 .. Len(rest) : rest[j] = b
    BY <1>5, RangeOf
  <2>2. PICK i \in 1 .. n : front[i] = d
    BY <1>5, RangeOf
  <2>3. n + j \in 1 .. Len(u) /\ i \in 1 .. Len(u) /\ i < n + j
    BY <1>2, <1>5, <2>1, <2>2
  <2> QED
    BY <1>5, <1>7, <2>1, <2>2, <2>3
<1>10. \A b \in Range(u) : b \in Batch /\ b.num <= batch.num /\ b.run = run
  BY <1>1, <1>2, <1>4, BatchFields
<1>11. ASSUME NEW b \in Range(rest), NEW d \in Batch, InKernel(s, d)', d.run = run
       PROVE  d.num < b.num
  <2>1. b \in Range(v) \/ b = batch
    BY <1>2, <1>5
  <2> QED
    BY <1>4, <1>6, <1>9, <1>11, <2>1
<1>12. ASSUME NEW d \in Batch, d \in Range(rest) \/ (InKernel(s, d)' /\ d.run = run)
       PROVE  d.num <= batch.num
  <2>1. CASE d \in Range(u)
    BY <1>10, <2>1
  <2>2. CASE InKernel(s, d) /\ d.run = run
    BY <1>1, <1>4, <2>2, BatchFields
  <2> QED
    BY <1>5, <1>6, <1>12, <2>1, <2>2
<1>13. ASSUME NEW d \in Batch, InKernel(s, d)' PROVE d.run <= run
  BY <1>1, <1>4, <1>5, <1>6, <1>10, <1>13
<1> QED
  BY <1>6, <1>8, <1>11, <1>12, <1>13 DEF Ordered

LEMMA OrderStep == FlushInv /\ OrderInv /\ [Next]_vars => OrderInv'
<1> SUFFICES ASSUME FlushInv, OrderInv, [Next]_vars, NEW s \in Sinks PROVE Ordered(s)'
  BY DEF OrderInv
<1> USE DEF FlushInv
<1>t. /\ run \in Nat /\ batch.num \in Nat /\ Ordered(s)
      /\ \A b \in Range(ubuf[s]) : b \in Batch
  <2>1. ubuf[s] \in Seq(Batch)
    BY DEF StreamInv
  <2>2. \A b \in Range(ubuf[s]) : b \in Batch
    BY <2>1, RangeOf
  <2>3. run \in Nat /\ batch.num \in Nat
    BY BatchFields, FlushConfig DEF ControlInv
  <2> QED
    BY <2>2, <2>3 DEF OrderInv
<1>1. CASE Quiet(s)
  <2>0. /\ ubuf'[s] = ubuf[s] /\ \A d \in Batch : InKernel(s, d)' <=> InKernel(s, d)
    BY <1>1 DEF Quiet
  <2>1. CASE run' = run + 1 /\ pc = "down" /\ pc' = "idle" /\ UNCHANGED batch
    <3>1. ubuf[s] = << >> /\ Len(<< >>) = 0 /\ Range(<< >>) = {}
      BY <2>1, EmptySeq DEF StreamInv, Range
    <3>2. \A d \in Batch : InKernel(s, d)' => d.run \in Nat /\ d.run <= run
      BY <1>t, <2>0, BatchFields DEF Ordered
    <3>3. \A d \in Batch : InKernel(s, d)' => d.run <= run' /\ d.run # run'
      BY <1>t, <2>1, <3>2
    <3> QED
      BY <2>0, <3>1, <3>3 DEF Ordered
  <2>2. CASE RealFlush /\ UNCHANGED run /\ batch'.num = batch.num + 1
    <3>1. ASSUME NEW d \in Batch, d \in Range(ubuf[s]) \/ (InKernel(s, d) /\ d.run = run)
          PROVE  d.num < batch'.num /\ d.num <= batch'.num
      <4>1. d.num <= batch.num /\ d.num \in Nat
        BY <1>t, <3>1, BatchFields DEF Ordered
      <4> QED
        BY <1>t, <2>2, <4>1
    <3> QED
      BY <1>t, <2>0, <2>2, <3>1 DEF Ordered
  <2>3. CASE UNCHANGED <<run, batch>> /\ ~RealFlush
    <3>1. ToWrite(s)' => ToWrite(s)
      BY <2>3, ToWriteShrinks
    <3> QED
      BY <1>t, <2>0, <2>3, <3>1 DEF Ordered
  <2>4. RealFlush => batch'.num = batch.num + 1 /\ UNCHANGED run
    BY DEF RealFlush
  <2> QED
    BY <2>1, <2>2, <2>3, <2>4, Runs
<1>2. CASE Takes(s) /\ Write /\ s = sink
  <2>1. batch \in Batch /\ batch.run = run /\ UNCHANGED <<run, batch>> /\ pc = "write"
    BY <1>2, Written DEF Write
  <2>2. ~RealFlush
    BY <2>1 DEF RealFlush
  <2>3. ToWrite(s) /\ ~ToWrite(s)'
    BY <1>2, <2>2, ToWriteShrinks
  <2> QED
    BY <1>2, <1>t, <2>1, <2>3, TakesOrdered
<1>3. ASSUME UNCHANGED <<run, batch>>, ubuf'[s] = << >>,
             \A d \in Batch : InKernel(s, d)' => InKernel(s, d) \/ d \in Range(ubuf[s])
      PROVE  Ordered(s)'
  <2>1. ~RealFlush
    BY <1>3, <1>t DEF RealFlush
  <2>2. ToWrite(s)' => ToWrite(s)
    BY <2>1, ToWriteShrinks
  <2> QED
    BY <1>3, <1>t, <2>2, EmptyOrdered
<1>4. CASE PowerLoss
  <2>1. UNCHANGED <<run, batch>>
    BY <1>4 DEF PowerLoss
  <2> QED
    BY <1>3, <1>4, <2>1, PowerEffect
<1>5. CASE Drops(s) /\ (Crash \/ NewFile)
  <2>1. UNCHANGED <<run, batch>>
    BY <1>5 DEF Crash, NewFile
  <2> QED
    BY <1>3, <1>5, <2>1 DEF Drops
<1>6. CASE Passes(s) /\ UNCHANGED <<run, batch>>
  BY <1>3, <1>6 DEF Passes
<1> QED
  BY <1>1, <1>2, <1>4, <1>5, <1>6, Effects

-----------------------------------------------------------------------------
(* What has returned without an error is kept                               *)

(* The kernel forgets only for want of power.                               *)
LEMMA KernelKept ==
  ASSUME ControlInv, StreamInv, FileInv, [Next]_vars, ~PowerLoss,
         NEW s \in Sinks, NEW b \in Batch, InKernel(s, b)
  PROVE  InKernel(s, b)'
<1>1. PICK f \in FilesOf(s) : b \in Range(kern[f])
  BY DEF InKernel
<1>2. f \in Files /\ kern[f] \in Seq(Batch)
  BY FileNames DEF FileInv
<1>3. kern'[f] \in Seq(Batch) /\ Begins(kern[f], kern'[f])
  BY <1>2, FilesGrow
<1>4. PICK i \in 1 .. Len(kern[f]) : kern[f][i] = b
  BY <1>1, <1>2, RangeOf
<1>5. i \in 1 .. Len(kern'[f]) /\ kern'[f][i] = b
  BY <1>2, <1>3, <1>4, RangeOf DEF Begins
<1>6. b \in Range(kern'[f])
  BY <1>3, <1>5, RangeOf
<1> QED
  BY <1>6 DEF InKernel

(* The disk forgets nothing.                                                *)
LEMMA DiskKeeps ==
  ASSUME ControlInv, StreamInv, FileInv, [Next]_vars,
         NEW s \in Sinks, NEW b \in Batch, OnDisk(s, b)
  PROVE  OnDisk(s, b)'
<1>1. PICK f \in FilesOf(s) : \E i \in 1 .. disk[f] : kern[f][i] = b
  BY DEF OnDisk
<1>2. PICK i \in 1 .. disk[f] : kern[f][i] = b
  BY <1>1
<1>3. f \in Files /\ disk[f] \in Nat
  BY FileNames DEF FileInv
<1>4. disk'[f] \in Nat /\ disk[f] <= disk'[f] /\ kern'[f][i] = b
  BY <1>2, <1>3, DiskKept
<1>5. i \in 1 .. disk'[f]
  BY <1>2, <1>3, <1>4
<1> QED
  BY <1>4, <1>5 DEF OnDisk

(* A batch is with the kernel or still in the buffer of its sink.           *)
Held(s, b) == InKernel(s, b) \/ (b.run = run /\ b \in Range(ubuf[s]))

(* The batch of a Flush that goes on has got as far as it must, or an error *)
(* has been met; what returned without one is kept as flush_log says.       *)
KeptInv ==
  /\ pc \in {"fflush", "fsync"} =>
       \/ <<sink, batch>> \in failed
       \/ batch \in Range(kern[stream[sink]])
       \/ pc = "fflush" /\ batch \in Range(ubuf[sink])
  /\ Durable

LEMMA KeptInit == Init => KeptInv
BY DEF Init, KeptInv, Durable

(* What fwrite has done.                                                    *)
LEMMA WriteArrives ==
  ASSUME ControlInv, StreamInv, FileInv, Write
  PROVE  batch \in Range(kern'[stream[sink]]) \/ batch \in Range(ubuf'[sink])
<1> DEFINE u == Append(ubuf[sink], batch)
<1>1. /\ stream[sink] \in Files /\ sink \in Sinks /\ u \in Seq(Batch)
      /\ ubuf[sink] \in Seq(Batch) /\ batch \in Batch
  BY Written, FileNames DEF ControlInv, StreamInv
<1>2. PICK n \in 0 .. Len(u) :
        /\ kern' = [kern EXCEPT ![stream[sink]] = @ \o SubSeq(u, 1, n)]
        /\ ubuf' = [ubuf EXCEPT ![sink] = SubSeq(u, n + 1, Len(u))]
  BY Written
<1>3. batch \in Range(u)
  BY <1>1, OneMoreBatch
<1> HIDE DEF u
<1>4. batch \in Range(SubSeq(u, 1, n)) \/ batch \in Range(SubSeq(u, n + 1, Len(u)))
  BY <1>1, <1>3, CutRange
<1>5. kern[stream[sink]] \in Seq(Batch) /\ SubSeq(u, 1, n) \in Seq(Batch)
  BY <1>1, Cut DEF FileInv
<1>6. /\ kern'[stream[sink]] = kern[stream[sink]] \o SubSeq(u, 1, n)
      /\ ubuf'[sink] = SubSeq(u, n + 1, Len(u))
  BY <1>1, <1>2 DEF FileInv, StreamInv
<1>7. Range(kern'[stream[sink]]) = Range(kern[stream[sink]]) \cup Range(SubSeq(u, 1, n))
  BY <1>5, <1>6, Joined
<1> QED
  BY <1>4, <1>6, <1>7

(* What fflush has done, if it did not fail.                                *)
LEMMA FflushArrives ==
  ASSUME FlushInv, KeptInv, Fflush \/ FflushFails
  PROVE  <<sink, batch>> \in failed' \/ batch \in Range(kern'[stream[sink]])
<1> USE DEF FlushInv
<1>1. /\ sink \in Sinks /\ stream[sink] \in Files /\ ubuf[sink] \in Seq(Batch)
      /\ kern[stream[sink]] \in Seq(Batch) /\ kern \in [Files -> Seq(Batch)]
  BY FileNames DEF Fflush, FflushFails, StreamInv, FileInv, ControlInv
<1>2. \/ <<sink, batch>> \in failed
      \/ batch \in Range(kern[stream[sink]])
      \/ batch \in Range(ubuf[sink])
  BY DEF KeptInv, Fflush, FflushFails
<1>3. CASE Fflush
  <2>1. kern'[stream[sink]] = kern[stream[sink]] \o ubuf[sink] /\ UNCHANGED failed
    BY <1>1, <1>3 DEF Fflush
  <2>2. Range(kern'[stream[sink]]) = Range(kern[stream[sink]]) \cup Range(ubuf[sink])
    BY <1>1, <2>1, Joined
  <2> QED
    BY <1>2, <2>1, <2>2
<1>4. CASE FflushFails
  <2>1. failed' = failed \cup {<<sink, b>> : b \in Range(ubuf[sink])} /\ UNCHANGED kern
    BY <1>4 DEF FflushFails
  <2> QED
    BY <1>2, <2>1
<1> QED
  BY <1>3, <1>4

(* What fsync has done, if it did not fail.                                 *)
LEMMA FsyncArrives ==
  ASSUME FlushInv, KeptInv, Fsync \/ FsyncFails,
         NEW s \in Sinks, NEW b \in Batch, s = sink, b = batch
  PROVE  <<s, b>> \in failed' \/ (OnDisk(s, b)' /\ InKernel(s, b)')
<1> USE DEF FlushInv
<1>0. PICK g \in Files : g = stream[s] /\ g \in FilesOf(s)
  BY FileNames DEF Fsync, FsyncFails, StreamInv
<1>1. kern[g] \in Seq(Batch) /\ disk \in [Files -> Nat] /\ Len(kern[g]) \in Nat
  BY RangeOf DEF FileInv
<1>2. <<s, b>> \in failed \/ b \in Range(kern[g])
  BY <1>0 DEF KeptInv, Fsync, FsyncFails
<1>3. UNCHANGED kern /\ failed \subseteq failed'
  BY DEF Fsync, FsyncFails
<1>4. b \in Range(kern[g]) => InKernel(s, b)'
  BY <1>0, <1>3 DEF InKernel
<1>5. ASSUME b \in Range(kern[g]) PROVE <<s, b>> \in failed' \/ OnDisk(s, b)'
  <2>1. PICK i \in 1 .. Len(kern[g]) : kern[g][i] = b
    BY <1>1, <1>5, RangeOf
  <2>2. CASE Fsync
    <3>1. disk'[g] = Len(kern[g])
      BY <1>0, <1>1, <2>2 DEF Fsync
    <3> QED
      BY <1>0, <1>3, <2>1, <3>1 DEF OnDisk
  <2>3. CASE FsyncFails
    <3>1. /\ failed' = failed \cup {<<s, kern[g][j]>> : j \in disk[g] + 1 .. Len(kern[g])}
          /\ UNCHANGED disk
      BY <1>0, <2>3 DEF FsyncFails
    <3>2. CASE i \in disk[g] + 1 .. Len(kern[g])
      BY <2>1, <3>1, <3>2
    <3>3. CASE i \in 1 .. disk[g]
      BY <1>0, <1>3, <2>1, <3>1, <3>3 DEF OnDisk
    <3> QED
      BY <1>0, <1>1, <3>2, <3>3
  <2> QED
    BY <2>2, <2>3
<1> QED
  BY <1>2, <1>3, <1>4, <1>5

(* The batch of a Flush that goes on.                                       *)
LEMMA PendingStep ==
  ASSUME FlushInv, KeptInv, [Next]_vars
  PROVE  pc' \in {"fflush", "fsync"} =>
           \/ <<sink', batch'>> \in failed'
           \/ batch' \in Range(kern'[stream'[sink']])
           \/ pc' = "fflush" /\ batch' \in Range(ubuf'[sink'])
<1> SUFFICES ASSUME pc' \in {"fflush", "fsync"}
             PROVE  \/ <<sink', batch'>> \in failed'
                    \/ batch' \in Range(kern'[stream'[sink']])
                    \/ pc' = "fflush" /\ batch' \in Range(ubuf'[sink'])
  OBVIOUS
<1>1. CASE Start \/ RealFlush \/ KeepFile \/ NewFile \/ Fsync \/ FsyncFails
  BY <1>1 DEF Start, RealFlush, KeepFile, NewFile, Fsync, FsyncFails, FlushReturns
<1>2. CASE Exit \/ Crash \/ PowerLoss
  BY <1>2 DEF Exit, Crash, PowerLoss, ProcessGone
<1>3. CASE WriteBack \/ Tick \/ UNCHANGED vars
  BY <1>3 DEF WriteBack, Tick, vars, KeptInv
<1>4. CASE Write
  <2>1. pc' = "fflush" /\ UNCHANGED <<sink, batch, stream>>
    BY <1>4 DEF Write, AfterWrite, FlushReturns
  <2> QED
    BY <1>4, <2>1, WriteArrives DEF FlushInv
<1>5. CASE WriteFails
  <2>1. pc' = "fflush" /\ UNCHANGED <<sink, batch>>
    BY <1>5 DEF WriteFails, AfterWrite, FlushReturns
  <2> QED
    BY <1>5, <2>1 DEF WriteFails
<1>6. CASE Fflush \/ FflushFails
  <2>1. UNCHANGED <<sink, batch, stream>>
    BY <1>6 DEF Fflush, FflushFails, AfterFlush, FlushReturns
  <2> QED
    BY <1>6, <2>1, FflushArrives
<1> QED
  BY <1>1, <1>2, <1>3, <1>4, <1>5, <1>6 DEF Next, FlushStep

(* A batch that was kept is kept.                                           *)
LEMMA HeldStep ==
  ASSUME FlushInv, [Next]_vars, ~PowerLoss, NEW s \in Sinks, NEW b \in Batch,
         Held(s, b), <<s, b>> \notin failed', b.run \notin crashed'
  PROVE  Held(s, b)'
<1> USE DEF FlushInv
<1>1. CASE InKernel(s, b)
  BY <1>1, KernelKept DEF Held
<1>2. CASE b.run = run /\ b \in Range(ubuf[s])
  <2>0. /\ ubuf[s] \in Seq(Batch) /\ run \in Nat
        /\ pc # "down"
    <3>1. ubuf[s] # << >>
      BY <1>2 DEF Range
    <3> QED
      BY <3>1, FlushConfig DEF StreamInv, ControlInv
  <2>1. CASE Quiet(s)
    <3>1. UNCHANGED run
      BY <2>0, Runs
    <3> QED
      BY <1>2, <2>1, <3>1 DEF Quiet, Held
  <2>2. CASE Drops(s) /\ Crash
    BY <1>2, <2>2 DEF Crash
  <2>3. CASE NewFile /\ \A d \in Range(ubuf[s]) : <<s, d>> \in failed'
    BY <1>2, <2>3
  <2>4. CASE Passes(s)
    BY <1>2, <2>4 DEF Passes, Held
  <2>5. CASE Takes(s) /\ Write /\ s = sink
    <3> DEFINE u == Append(ubuf[s], batch)
    <3>0. batch \in Batch /\ UNCHANGED run
      BY <2>5, Written DEF Write
    <3>1. u \in Seq(Batch) /\ b \in Range(u)
      BY <1>2, <2>0, <3>0, OneMoreBatch
    <3>2. PICK n \in 0 .. Len(u) :
            /\ ubuf'[s] = SubSeq(u, n + 1, Len(u))
            /\ InKernel(s, b)' <=> InKernel(s, b) \/ b \in Range(SubSeq(u, 1, n))
      BY <2>5 DEF Takes
    <3> HIDE DEF u
    <3>3. b \in Range(SubSeq(u, 1, n)) \/ b \in Range(SubSeq(u, n + 1, Len(u)))
      BY <3>1, CutRange
    <3> QED
      BY <1>2, <3>0, <3>2, <3>3 DEF Held
  <2> QED
    BY <2>1, <2>2, <2>3, <2>4, <2>5, Effects
<1> QED
  BY <1>1, <1>2 DEF Held

(* What a Flush that returns leaves.                                        *)
LEMMA ReturnsKept ==
  ASSUME FlushInv, KeptInv, [Next]_vars, FlushReturns, pc \in {"write", "fflush", "fsync"},
         NEW s \in Sinks, NEW b \in Batch, s = sink, b = batch, <<s, b>> \notin failed'
  PROVE  /\ flushLog' = 2 => OnDisk(s, b)'
         /\ flushLog' = 1 => InKernel(s, b)'
         /\ Held(s, b)'
<1> USE DEF FlushInv
<1>1. b.run = run /\ UNCHANGED <<flushLog, run>> /\ pc' \in {"idle", "roll"}
  <2>1. CASE Start \/ RealFlush \/ KeepFile \/ NewFile \/ Exit
    BY <2>1 DEF Start, RealFlush, KeepFile, NewFile, Exit
  <2>2. CASE Write \/ WriteFails \/ Fflush \/ FflushFails \/ Fsync \/ FsyncFails
    BY <2>2 DEF Write, WriteFails, Fflush, FflushFails, Fsync, FsyncFails, ControlInv, Busy,
                FlushReturns
  <2>3. CASE Crash \/ PowerLoss
    BY <2>3 DEF Crash, PowerLoss, ProcessGone, FlushReturns
  <2>4. CASE WriteBack \/ Tick \/ UNCHANGED vars
    BY <2>4 DEF WriteBack, Tick, vars, FlushReturns
  <2> QED
    BY <2>1, <2>2, <2>3, <2>4 DEF Next, FlushStep
<1>2. CASE Write
  <2>1. flushLog = 0
    BY <1>2, <1>1 DEF Write, AfterWrite
  <2>2. stream[sink] \in FilesOf(sink)
    BY <1>2, Written
  <2>3. b \in Range(kern'[stream[s]]) \/ b \in Range(ubuf'[s])
    BY <1>2, WriteArrives
  <2> QED
    BY <1>1, <2>1, <2>2, <2>3 DEF Held, InKernel
<1>3. CASE WriteFails
  BY <1>3 DEF WriteFails
<1>4. CASE Fflush \/ FflushFails
  <2>1. flushLog # 2
    BY <1>1, <1>4 DEF Fflush, FflushFails, AfterFlush
  <2>2. stream[s] \in FilesOf(s)
    BY <1>4 DEF Fflush, FflushFails, StreamInv
  <2>3. b \in Range(kern'[stream[s]])
    BY <1>4, FflushArrives
  <2> QED
    BY <1>1, <2>1, <2>2, <2>3 DEF Held, InKernel
<1>5. CASE Fsync \/ FsyncFails
  BY <1>5, FsyncArrives DEF Held
<1>6. CASE Start \/ RealFlush \/ KeepFile \/ NewFile \/ Exit
  BY <1>6 DEF Start, RealFlush, KeepFile, NewFile, Exit
<1>7. CASE Crash \/ PowerLoss
  BY <1>1, <1>7 DEF Crash, PowerLoss, ProcessGone
<1>8. CASE WriteBack \/ Tick \/ UNCHANGED vars
  BY <1>8 DEF WriteBack, Tick, vars, FlushReturns
<1> QED
  BY <1>2, <1>3, <1>4, <1>5, <1>6, <1>7, <1>8 DEF Next, FlushStep

(* Durable, batch by batch.                                                 *)
DurableOne(s, b) ==
  /\ flushLog = 2 => OnDisk(s, b)
  /\ flushLog = 1 /\ ~powerLost => InKernel(s, b)
  /\ b.run \notin crashed /\ ~powerLost => Held(s, b)

LEMMA DurableEach ==
  ASSUME returned \subseteq Sinks \X Batch
  PROVE  Durable <=> \A s \in Sinks, b \in Batch :
                       <<s, b>> \in returned \ failed => DurableOne(s, b)
<1>1. \A x \in returned : x[1] \in Sinks /\ x[2] \in Batch /\ x = <<x[1], x[2]>>
  OBVIOUS
<1>2. ASSUME NEW s \in Sinks, NEW b \in Batch
      PROVE  <<s, b>>[1] = s /\ <<s, b>>[2] = b
  OBVIOUS
<1> QED
  BY <1>1, <1>2 DEF Durable, DurableOne, Held

(* The level is fixed, a loss of power is not forgotten.                    *)
LEMMA FlagKept ==
  ASSUME [Next]_vars
  PROVE  /\ UNCHANGED flushLog /\ crashed \subseteq crashed'
         /\ UNCHANGED powerLost \/ powerLost' = TRUE
<1>1. CASE KeepFile \/ NewFile \/ Write \/ WriteFails \/ Fflush \/ FflushFails
  BY <1>1 DEF KeepFile, NewFile, Write, WriteFails, Fflush, FflushFails
<1>2. CASE Fsync \/ FsyncFails \/ Start \/ RealFlush \/ Exit \/ WriteBack \/ Tick
  BY <1>2 DEF Fsync, FsyncFails, Start, RealFlush, Exit, WriteBack, Tick
<1>3. CASE Crash
  BY <1>3 DEF Crash
<1>4. CASE PowerLoss
  BY <1>4 DEF PowerLoss
<1>5. CASE UNCHANGED vars
  BY <1>5 DEF vars
<1> QED
  BY <1>1, <1>2, <1>3, <1>4, <1>5 DEF Next, FlushStep

LEMMA KeptStep == FlushInv /\ KeptInv /\ [Next]_vars => KeptInv'
<1> SUFFICES ASSUME FlushInv, KeptInv, [Next]_vars PROVE KeptInv'
  OBVIOUS
<1>1. /\ ControlInv /\ StreamInv /\ FileInv /\ HistoryInv
      /\ returned \subseteq Sinks \X Batch /\ failed \subseteq failed'
  BY Failures DEF FlushInv, HistoryInv
<1>2. returned' \subseteq Sinks \X Batch
  BY <1>1, HistoryStep DEF HistoryInv
<1>3. /\ UNCHANGED flushLog /\ crashed \subseteq crashed'
      /\ (UNCHANGED powerLost \/ powerLost' = TRUE)
  BY FlagKept
<1>p. ~powerLost' => ~powerLost /\ ~PowerLoss
  BY <1>3 DEF PowerLoss
<1>4. ASSUME NEW s \in Sinks, NEW b \in Batch, <<s, b>> \in returned' \ failed'
      PROVE  DurableOne(s, b)'
  <2>1. CASE <<s, b>> \in returned
    <3>1. DurableOne(s, b)
      BY <1>1, <1>4, <2>1, DurableEach DEF KeptInv
    <3>2. flushLog' = 2 => OnDisk(s, b)'
      BY <1>1, <1>3, <3>1, DiskKeeps DEF DurableOne
    <3>3. flushLog' = 1 /\ ~powerLost' => InKernel(s, b)'
      BY <1>1, <1>3, <1>p, <3>1, KernelKept DEF DurableOne
    <3>4. b.run \notin crashed' /\ ~powerLost' => Held(s, b)'
      BY <1>3, <1>4, <1>p, <3>1, HeldStep DEF DurableOne
    <3> QED
      BY <3>2, <3>3, <3>4 DEF DurableOne
  <2>2. CASE <<s, b>> \notin returned
    <3>1. /\ pc \in {"write", "fflush", "fsync"} /\ FlushReturns
          /\ returned' = returned \cup {<<sink, batch>>}
      BY <1>1, <1>4, <2>2, Returns DEF FlushReturns
    <3>2. s = sink /\ b = batch
      BY <1>4, <2>2, <3>1
    <3> QED
      BY <1>4, <3>1, <3>2, ReturnsKept DEF DurableOne
  <2> QED
    BY <2>1, <2>2
<1>5. ASSUME NEW x \in returned' \ failed' PROVE DurableOne(x[1], x[2])'
  <2>1. x[1] \in Sinks /\ x[2] \in Batch /\ x = <<x[1], x[2]>>
    BY <1>2, <1>5
  <2> QED
    BY <1>4, <1>5, <2>1
<1>6. Durable'
  BY <1>5 DEF Durable, DurableOne, Held
<1> QED
  BY <1>6, PendingStep DEF KeptInv

(* What flush_log promises of a batch whose Flush returned and met no error *)
(* (comment at LogFlush.hpp:31-33): at 2 it is on disk, at 1 it survives a  *)
(* crash of the process, at 0 it survives an exit.                          *)
THEOREM FlushedIsDurable == Spec => []Durable
<1>1. Init => KeptInv
  BY KeptInit
<1>2. FlushInv /\ KeptInv /\ [Next]_vars => KeptInv'
  BY KeptStep
<1>3. KeptInv => Durable
  BY DEF KeptInv
<1> QED
  BY FlushInvariant, <1>1, <1>2, <1>3, PTL DEF Spec

-----------------------------------------------------------------------------
(* A log that loses its end only                                            *)

(* In a process that runs, a batch that has not come to the kernel lies in  *)
(* the buffer, and what lies behind it there has not come either.           *)
NoHoleNow ==
  ~powerLost /\ pc # "down" =>
    \A s \in Sinks, b, d \in Batch :
      /\ <<s, b>> \in returned \ failed
      /\ b.run = run /\ d.run = run /\ b.num < d.num
      /\ InKernel(s, d)
      => InKernel(s, b)

LEMMA NoHoleYet == HistoryInv /\ OrderInv /\ KeptInv => NoHoleNow
<1> SUFFICES ASSUME HistoryInv, OrderInv, KeptInv, ~powerLost, pc # "down",
                    NEW s \in Sinks, NEW b \in Batch, NEW d \in Batch,
                    <<s, b>> \in returned \ failed, b.run = run, d.run = run,
                    b.num < d.num, InKernel(s, d)
             PROVE  InKernel(s, b)
  BY DEF NoHoleNow
<1>1. Held(s, b)
  <2>1. DurableOne(s, b)
    BY DurableEach DEF HistoryInv, KeptInv
  <2> QED
    BY <2>1 DEF DurableOne, HistoryInv
<1>2. \A c \in Range(ubuf[s]) : d.num < c.num
  BY DEF OrderInv, Ordered
<1>3. b.num \in Nat /\ d.num \in Nat
  BY BatchFields
<1> QED
  BY <1>1, <1>2, <1>3 DEF Held

(* Only batches of the present run come to the kernel.                      *)
LEMMA OthersStay ==
  ASSUME FlushInv, [Next]_vars, ~PowerLoss, NEW s \in Sinks, NEW b \in Batch,
         InKernel(s, b)'
  PROVE  \/ InKernel(s, b)
         \/ b.run = run /\ UNCHANGED run /\ (Exit \/ (pc # "down" /\ pc' # "down"))
<1> USE DEF FlushInv
<1>1. CASE Passes(s) /\ UNCHANGED run /\ (Exit \/ (pc # "down" /\ pc' # "down"))
  BY <1>1 DEF Passes, StreamInv
<1>2. CASE Takes(s) /\ Write /\ s = sink
  <2> DEFINE u == Append(ubuf[s], batch)
  <2>1. ubuf[s] \in Seq(Batch) /\ batch \in Batch /\ batch.run = run
    BY <1>2, Written DEF StreamInv
  <2>2. u \in Seq(Batch) /\ Range(u) = Range(ubuf[s]) \cup {batch}
    BY <2>1, OneMoreBatch
  <2>3. PICK n \in 0 .. Len(u) : InKernel(s, b) \/ b \in Range(SubSeq(u, 1, n))
    BY <1>2 DEF Takes
  <2> HIDE DEF u
  <2>4. b \in Range(SubSeq(u, 1, n)) => b \in Range(ubuf[s]) \/ b = batch
    BY <2>2, CutRange
  <2>5. InKernel(s, b) \/ b.run = run
    BY <2>1, <2>3, <2>4 DEF StreamInv
  <2>6. GoesOn \/ FlushReturns
    BY <1>2, FlushGoesOn DEF Write
  <2>7. pc # "down" /\ pc' # "down" /\ UNCHANGED run
    BY <1>2, <2>6 DEF Write, GoesOn, FlushReturns
  <2> QED
    BY <2>5, <2>7
<1>3. CASE Quiet(s) \/ Drops(s)
  BY <1>3 DEF Quiet, Drops
<1> QED
  BY <1>1, <1>2, <1>3, Effects

(* NoHoles, pair by pair.                                                   *)
HolesEach ==
  ~powerLost =>
    \A s \in Sinks, b, d \in Batch :
      /\ <<s, b>> \in returned \ failed
      /\ <<s, d>> \in returned \ failed
      /\ b.run = d.run /\ b.num < d.num
      /\ InKernel(s, d)
      => InKernel(s, b)

LEMMA HolesStep ==
  FlushInv /\ KeptInv /\ HolesEach /\ NoHoleNow' /\ [Next]_vars => HolesEach'
<1> SUFFICES ASSUME FlushInv, KeptInv, HolesEach, NoHoleNow', [Next]_vars, ~powerLost',
                    NEW s \in Sinks, NEW b \in Batch, NEW d \in Batch,
                    <<s, b>> \in returned' \ failed', <<s, d>> \in returned' \ failed',
                    b.run = d.run, b.num < d.num, InKernel(s, d)'
             PROVE  InKernel(s, b)'
  BY DEF HolesEach
<1>1. /\ ControlInv /\ StreamInv /\ FileInv /\ HistoryInv
      /\ returned \subseteq Sinks \X Batch /\ failed \subseteq failed'
  BY Failures DEF FlushInv, HistoryInv
<1>f. UNCHANGED powerLost \/ powerLost' = TRUE
  BY FlagKept
<1>p. ~powerLost' => ~powerLost /\ ~PowerLoss
  BY <1>f DEF PowerLoss
<1>2. ~PowerLoss /\ ~powerLost
  BY <1>p
<1>3. CASE pc' # "down" /\ b.run = run'
  BY <1>3 DEF NoHoleNow
<1>4. CASE Exit /\ b.run = run
  <2>1. pc # "down" /\ <<s, b>> \in returned
    BY <1>4 DEF Exit
  <2>2. DurableOne(s, b)
    BY <1>1, <2>1, DurableEach DEF KeptInv
  <2>3. Held(s, b)
    BY <1>1, <1>2, <1>4, <2>1, <2>2 DEF DurableOne, HistoryInv
  <2>4. Passes(s)
    BY <1>1, <1>4, ExitEffect
  <2> QED
    BY <2>3, <2>4 DEF Held, Passes
<1>5. CASE ~(pc' # "down" /\ b.run = run') /\ ~(Exit /\ b.run = run)
  <2>1. <<s, b>> \in returned /\ <<s, d>> \in returned
    <3>1. CASE UNCHANGED returned
      BY <3>1
    <3>2. CASE /\ pc \in {"write", "fflush", "fsync"} /\ FlushReturns
               /\ UNCHANGED <<run, batch>>
      <4>1. /\ returned' = returned \cup {<<sink, batch>>} /\ pc' # "down"
            /\ batch.run = run'
        BY <1>1, <3>2 DEF FlushReturns, ControlInv, Busy
      <4>2. b # batch /\ d # batch
        BY <1>5, <4>1
      <4> QED
        BY <4>1, <4>2
    <3> QED
      BY <1>1, <3>1, <3>2, Returns
  <2>2. InKernel(s, d)
    BY <1>2, <1>5, OthersStay
  <2>3. InKernel(s, b)
    BY <1>1, <1>2, <2>1, <2>2 DEF HolesEach
  <2> QED
    BY <1>1, <1>2, <2>3, KernelKept
<1> QED
  BY <1>3, <1>4, <1>5

(* A process that crashes loses the end of a log, never its middle: rolling *)
(* hands the old file to the kernel before the new one is begun             *)
(* (InitLogFile, LogFlush.hpp:110-129).                                     *)
THEOREM NoHoleInALog == Spec => []NoHoles
<1>1. Init => OrderInv /\ KeptInv /\ HolesEach
  <2>1. Init => HolesEach
    BY DEF Init, HolesEach
  <2> QED
    BY <2>1, OrderInit, KeptInit
<1>2. FlushInv /\ OrderInv /\ [Next]_vars => OrderInv'
  BY OrderStep
<1>3. FlushInv /\ KeptInv /\ [Next]_vars => KeptInv'
  BY KeptStep
<1>4. FlushInv /\ OrderInv /\ KeptInv => NoHoleNow
  BY NoHoleYet DEF FlushInv
<1>5. FlushInv /\ KeptInv /\ HolesEach /\ NoHoleNow' /\ [Next]_vars => HolesEach'
  BY HolesStep
<1>6. ASSUME FlushInv, HolesEach PROVE NoHoles
  <2> SUFFICES ASSUME ~powerLost, NEW x \in returned \ failed, NEW y \in returned \ failed,
                      x[1] = y[1], x[2].run = y[2].run, x[2].num < y[2].num,
                      InKernel(y[1], y[2])
               PROVE  InKernel(x[1], x[2])
    BY DEF NoHoles
  <2>1. /\ x[1] \in Sinks /\ x[2] \in Batch /\ y[2] \in Batch
        /\ x = <<x[1], x[2]>> /\ y = <<x[1], y[2]>>
    BY <1>6 DEF FlushInv, HistoryInv
  <2> QED
    BY <1>6, <2>1 DEF HolesEach
<1> QED
  BY FlushInvariant, <1>1, <1>2, <1>3, <1>4, <1>5, <1>6, PTL DEF Spec
=============================================================================
