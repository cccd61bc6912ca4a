------------------------------- MODULE LogFlush -------------------------------
(***************************************************************************)
(* The file sinks of a logger (LogFlush.hpp): FileFlush appends every batch *)
(* to one file, RollFileFlush to a file that is replaced when full.  A      *)
(* batch passes through the user buffer of a FILE, the kernel and the disk; *)
(* flush_log says how far each Flush takes it.  The process may crash, the  *)
(* machine may lose power, and calls of the C library may fail.             *)
(*                                                                          *)
(* A batch is what the worker hands to the callback at once; it stays in    *)
(* one piece here.  A directory entry is taken to be as durable as its file.*)
(***************************************************************************)
EXTENDS Integers, SequencesExt

CONSTANTS
  Times,       \* the instants at which files may be named, as sequences of
               \* the calendar fields that differ, in order
  Sizes,       \* sizes of batches
  MaxSize,     \* _m_max_size of RollFileFlush
  MaxBatches,  \* bound: batches in a behaviour
  MaxRuns      \* bound: runs of the process in a behaviour

ASSUME FlushConfig ==
  /\ Times \in Seq(Seq(0 .. 99)) /\ Times # << >>
  /\ Sizes \subseteq Nat \ {0}
  /\ MaxSize \in Nat \ {0}
  /\ MaxBatches \in Nat
  /\ MaxRuns \in Nat

VARIABLES
  flushLog,    \* g_conf_data->flush_log
  now,         \* index of the present instant in Times
  run,         \* runs of the process so far, this one included
  pc,          \* "down", "idle", or the next call of the current Flush
  sink,        \* the sink whose Flush is running
  batch,       \* the batch being flushed, or the last one
  stream,      \* _m_fs of each sink: the file it writes, or NoFile
  ubuf,        \* the user buffer of each sink's stream, oldest first
  cnt,         \* _m_cnt of RollFileFlush
  curSize,     \* _m_cur_size of RollFileFlush
  kern,        \* contents of each file as other processes see it
  disk,        \* how many batches of it the disk holds
  returned,    \* history: <<sink, batch>> whose Flush returned
  failed,      \* history: <<sink, batch>> touched by a call that failed
  crashed,     \* history: runs that ended otherwise than by exit
  powerLost    \* history: the machine lost power

vars == <<flushLog, now, run, pc, sink, batch, stream, ubuf, cnt, curSize, kern,
          disk, returned, failed, crashed, powerLost>>

Sinks == {"file", "roll"}

Batch == [num : 1 .. MaxBatches, run : 1 .. MaxRuns, size : Sizes]

(***************************************************************************)
(* std::to_string of a calendar field: no leading zeros.                    *)
(***************************************************************************)
Digits(n) == IF n < 10 THEN <<n>> ELSE <<n \div 10, n % 10>>

Stamp(time) == FlattenSeq([i \in DOMAIN time |-> Digits(time[i])])

CreateFilename(n) == [stamp |-> Stamp(Times[now]), num |-> n]

FixedFile == [stamp |-> << >>, num |-> 0]

NoFile == [stamp |-> << >>, num |-> -1]

Files == {FixedFile} \cup [stamp : {Stamp(Times[i]) : i \in DOMAIN Times},
                           num : 1 .. MaxBatches]

Init ==
  /\ flushLog \in 0 .. 2
  /\ now = 1
  /\ run = 0
  /\ pc = "down"
  /\ sink = "file"
  /\ batch = [num |-> 0, run |-> 0, size |-> 0]
  /\ stream = [s \in Sinks |-> NoFile]
  /\ ubuf = [s \in Sinks |-> << >>]
  /\ cnt = 1
  /\ curSize = 0
  /\ kern = [f \in Files |-> << >>]
  /\ disk = [f \in Files |-> 0]
  /\ returned = {}
  /\ failed = {}
  /\ crashed = {}
  /\ powerLost = FALSE

-----------------------------------------------------------------------------
(* The process starts: FileFlush opens its file, RollFileFlush waits.       *)

Start ==
  /\ pc = "down" /\ run < MaxRuns
  /\ run' = run + 1
  /\ pc' = "idle"
  /\ \E f \in {FixedFile, NoFile} : stream' = [stream EXCEPT !["file"] = f]
  /\ cnt' = 1
  /\ curSize' = 0
  /\ UNCHANGED <<flushLog, now, sink, batch, ubuf, kern, disk, returned, failed,
                 crashed, powerLost>>

(***************************************************************************)
(* RealFlush hands a batch to the sinks in turn.                            *)
(***************************************************************************)
RealFlush ==
  /\ pc = "idle" /\ batch.num < MaxBatches
  /\ \E n \in Sizes : batch' = [num |-> batch.num + 1, run |-> run, size |-> n]
  /\ sink' = "file"
  /\ pc' = "write"
  /\ UNCHANGED <<flushLog, now, run, stream, ubuf, cnt, curSize, kern, disk,
                 returned, failed, crashed, powerLost>>

-----------------------------------------------------------------------------
(* RollFileFlush::InitLogFile                                               *)

(* Faulty variant: a file that is exactly full is kept. *)
FullTooLate == stream["roll"] = NoFile \/ curSize > MaxSize

Full == stream["roll"] = NoFile \/ curSize >= MaxSize

KeepFile ==
  /\ pc = "roll" /\ ~Full
  /\ pc' = "write"
  /\ UNCHANGED <<flushLog, now, run, sink, batch, stream, ubuf, cnt, curSize,
                 kern, disk, returned, failed, crashed, powerLost>>

(* Faulty variant: the old stream is dropped instead of closed. *)
DropFile ==
  /\ pc = "roll" /\ Full
  /\ ubuf' = [ubuf EXCEPT !["roll"] = << >>]
  /\ \E f \in {CreateFilename(cnt), NoFile} : stream' = [stream EXCEPT !["roll"] = f]
  /\ cnt' = cnt + 1
  /\ curSize' = 0
  /\ pc' = "write"
  /\ UNCHANGED <<flushLog, now, run, sink, batch, kern, disk, returned, failed,
                 crashed, powerLost>>

(***************************************************************************)
(* fclose hands the old user buffer to the kernel, or fails and nobody      *)
(* looks; fopen may fail, and the size is reset all the same.               *)
(***************************************************************************)
NewFile ==
  /\ pc = "roll" /\ Full
  /\ \/ /\ kern' = [f \in Files |->
                      IF f = stream["roll"] THEN kern[f] \o ubuf["roll"] ELSE kern[f]]
        /\ UNCHANGED failed
     \/ /\ ubuf["roll"] # << >>
        /\ failed' = failed \cup {<<"roll", b>> : b \in Range(ubuf["roll"])}
        /\ UNCHANGED kern
  /\ ubuf' = [ubuf EXCEPT !["roll"] = << >>]
  /\ \E f \in {CreateFilename(cnt), NoFile} : stream' = [stream EXCEPT !["roll"] = f]
  /\ cnt' = cnt + 1
  /\ curSize' = 0
  /\ pc' = "write"
  /\ UNCHANGED <<flushLog, now, run, sink, batch, disk, returned, crashed, powerLost>>

-----------------------------------------------------------------------------
(* Flush of either sink: fwrite, then what flush_log asks for               *)

(* Faulty variant: the loop ends with the first sink. *)
LeaveEarly ==
  /\ returned' = returned \cup {<<sink, batch>>}
  /\ pc' = "idle"
  /\ UNCHANGED sink

(***************************************************************************)
(* The end of a Flush: RealFlush goes on to the next sink.                  *)
(***************************************************************************)
FlushReturns ==
  /\ returned' = returned \cup {<<sink, batch>>}
  /\ IF sink = "file"
     THEN sink' = "roll" /\ pc' = "roll"
     ELSE pc' = "idle" /\ UNCHANGED sink

AfterWrite ==
  IF flushLog = 0
  THEN FlushReturns
  ELSE pc' = "fflush" /\ UNCHANGED <<sink, returned>>

(* Faulty variant: the size is not counted. *)
CountNothing == UNCHANGED curSize

Count == curSize' = IF sink = "roll" THEN curSize + batch.size ELSE curSize

(***************************************************************************)
(* The library may pass on the front of a user buffer that fills up.        *)
(***************************************************************************)
Write ==
  /\ pc = "write" /\ stream[sink] # NoFile
  /\ \E n \in 0 .. Len(ubuf[sink]) + 1 :
       LET u == Append(ubuf[sink], batch)
       IN  /\ kern' = [kern EXCEPT ![stream[sink]] = @ \o SubSeq(u, 1, n)]
           /\ ubuf' = [ubuf EXCEPT ![sink] = SubSeq(u, n + 1, Len(u))]
  /\ Count
  /\ AfterWrite
  /\ UNCHANGED <<flushLog, now, run, batch, stream, cnt, disk, failed, crashed,
                 powerLost>>

(***************************************************************************)
(* fwrite fails: the error is printed, the size is counted all the same.    *)
(***************************************************************************)
WriteFails ==
  /\ pc = "write" /\ stream[sink] # NoFile
  /\ failed' = failed \cup {<<sink, batch>>}
  /\ Count
  /\ AfterWrite
  /\ UNCHANGED <<flushLog, now, run, batch, stream, ubuf, cnt, kern, disk, crashed,
                 powerLost>>

AfterFlush ==
  IF flushLog = 2
  THEN pc' = "fsync" /\ UNCHANGED <<sink, returned>>
  ELSE FlushReturns

Fflush ==
  /\ pc = "fflush"
  /\ kern' = [kern EXCEPT ![stream[sink]] = @ \o ubuf[sink]]
  /\ ubuf' = [ubuf EXCEPT ![sink] = << >>]
  /\ AfterFlush
  /\ UNCHANGED <<flushLog, now, run, batch, stream, cnt, curSize, disk, failed,
                 crashed, powerLost>>

(***************************************************************************)
(* fflush fails, at level 2 without a word: the user buffer stays.          *)
(***************************************************************************)
FflushFails ==
  /\ pc = "fflush" /\ ubuf[sink] # << >>
  /\ failed' = failed \cup {<<sink, b>> : b \in Range(ubuf[sink])}
  /\ AfterFlush
  /\ UNCHANGED <<flushLog, now, run, batch, stream, ubuf, cnt, curSize, kern, disk,
                 crashed, powerLost>>

(* Faulty variant: nothing reaches the disk. *)
FsyncForgotten ==
  /\ pc = "fsync"
  /\ FlushReturns
  /\ UNCHANGED <<flushLog, now, run, batch, stream, ubuf, cnt, curSize, kern, disk,
                 failed, crashed, powerLost>>

Fsync ==
  /\ pc = "fsync"
  /\ disk' = [disk EXCEPT ![stream[sink]] = Len(kern[stream[sink]])]
  /\ FlushReturns
  /\ UNCHANGED <<flushLog, now, run, batch, stream, ubuf, cnt, curSize, kern,
                 failed, crashed, powerLost>>

(***************************************************************************)
(* fsync fails; nobody looks at its result.                                 *)
(***************************************************************************)
FsyncFails ==
  /\ pc = "fsync" /\ disk[stream[sink]] < Len(kern[stream[sink]])
  /\ failed' = failed \cup {<<sink, kern[stream[sink]][i]>> :
                             i \in disk[stream[sink]] + 1 .. Len(kern[stream[sink]])}
  /\ FlushReturns
  /\ UNCHANGED <<flushLog, now, run, batch, stream, ubuf, cnt, curSize, kern, disk,
                 crashed, powerLost>>

-----------------------------------------------------------------------------
(* Ends of the process                                                      *)

ProcessGone ==
  /\ pc' = "down"
  /\ stream' = [s \in Sinks |-> NoFile]
  /\ ubuf' = [s \in Sinks |-> << >>]

(***************************************************************************)
(* exit closes the streams; the worker has been drained before.             *)
(***************************************************************************)
Exit ==
  /\ pc = "idle"
  /\ kern' = [f \in Files |->
               kern[f] \o (IF f = stream["file"] THEN ubuf["file"] ELSE << >>)
                       \o (IF f = stream["roll"] THEN ubuf["roll"] ELSE << >>)]
  /\ ProcessGone
  /\ UNCHANGED <<flushLog, now, run, sink, batch, cnt, curSize, disk, returned,
                 failed, crashed, powerLost>>

(***************************************************************************)
(* A crash for any reason, fwrite on a stream that could not be opened      *)
(* included.                                                                *)
(***************************************************************************)
Crash ==
  /\ pc # "down"
  /\ crashed' = crashed \cup {run}
  /\ ProcessGone
  /\ UNCHANGED <<flushLog, now, run, sink, batch, cnt, curSize, kern, disk,
                 returned, failed, powerLost>>

PowerLoss ==
  /\ ~powerLost
  /\ powerLost' = TRUE
  /\ crashed' = IF pc = "down" THEN crashed ELSE crashed \cup {run}
  /\ kern' = [f \in Files |-> SubSeq(kern[f], 1, disk[f])]
  /\ ProcessGone
  /\ UNCHANGED <<flushLog, now, run, sink, batch, cnt, curSize, disk, returned,
                 failed>>

(***************************************************************************)
(* The kernel writes a file back when it likes.                             *)
(***************************************************************************)
WriteBack ==
  /\ \E f \in Files : /\ disk[f] < Len(kern[f])
                      /\ disk' = [disk EXCEPT ![f] = Len(kern[f])]
  /\ UNCHANGED <<flushLog, now, run, pc, sink, batch, stream, ubuf, cnt, curSize,
                 kern, returned, failed, crashed, powerLost>>

Tick ==
  /\ now < Len(Times)
  /\ now' = now + 1
  /\ UNCHANGED <<flushLog, run, pc, sink, batch, stream, ubuf, cnt, curSize, kern,
                 disk, returned, failed, crashed, powerLost>>

-----------------------------------------------------------------------------
FlushStep ==
  KeepFile \/ NewFile \/ Write \/ WriteFails \/ Fflush \/ FflushFails \/ Fsync
    \/ FsyncFails

Next ==
  Start \/ RealFlush \/ FlushStep \/ Exit \/ Crash \/ PowerLoss \/ WriteBack \/ Tick

Spec == Init /\ [][Next]_vars

-----------------------------------------------------------------------------
(* For each place in s, how many bytes the given runs have written up to it. *)
BytesUpTo(s, runs) ==
  LET sum[i \in 0 .. Len(s)] ==
        IF i = 0 THEN 0
        ELSE sum[i - 1] + (IF s[i].run \in runs THEN s[i].size ELSE 0)
  IN  sum

Bytes(s, runs) == BytesUpTo(s, runs)[Len(s)]

(* Type invariant: the variables have the shapes the code gives them, a     *)
(* file has no more on disk than in the kernel, and the size counted covers *)
(* what is still in the user buffer.                                        *)
FlushTypeOK ==
  /\ flushLog \in 0 .. 2
  /\ now \in DOMAIN Times
  /\ run \in 0 .. MaxRuns
  /\ pc \in {"down", "idle", "roll", "write", "fflush", "fsync"}
  /\ sink \in Sinks
  /\ batch \in Batch \cup {[num |-> 0, run |-> 0, size |-> 0]}
  /\ stream \in [Sinks -> Files \cup {NoFile}]
  /\ ubuf \in [Sinks -> Seq(Batch)]
  /\ cnt \in 1 .. MaxBatches + 1
  /\ curSize \in Nat /\ Bytes(ubuf["roll"], 1 .. MaxRuns) <= curSize
  /\ kern \in [Files -> Seq(Batch)]
  /\ disk \in [Files -> Nat]
  /\ \A f \in Files : disk[f] <= Len(kern[f])
  /\ returned \subseteq Sinks \X Batch
  /\ failed \subseteq Sinks \X Batch
  /\ crashed \subseteq 1 .. MaxRuns
  /\ powerLost \in BOOLEAN

FilesOf(s) == IF s = "file" THEN {FixedFile} ELSE Files \ {FixedFile}

InKernel(s, b) == \E f \in FilesOf(s) : b \in Range(kern[f])

OnDisk(s, b) == \E f \in FilesOf(s) : \E i \in 1 .. disk[f] : kern[f][i] = b

(* What flush_log promises of a batch whose Flush returned and met no       *)
(* error: at 2 it is on disk, at 1 it survives a crash of the process, at 0 *)
(* it survives an exit (comment at LogFlush.hpp:31-33).                     *)
Durable ==
  \A x \in returned \ failed :
    LET s == x[1]
        b == x[2]
    IN  /\ flushLog = 2 => OnDisk(s, b)
        /\ flushLog = 1 /\ ~powerLost => InKernel(s, b)
        /\ b.run \notin crashed /\ ~powerLost =>
             InKernel(s, b) \/ (b.run = run /\ b \in Range(ubuf[s]))

(* A process that crashes loses the end of a log, never its middle: rolling *)
(* hands the old file to the kernel before the new one is begun.            *)
NoHoles ==
  ~powerLost =>
    \A x, y \in returned \ failed :
      x[1] = y[1] /\ x[2].run = y[2].run /\ x[2].num < y[2].num /\ InKernel(y[1], y[2])
        => InKernel(x[1], x[2])

(* The sinks get the same batches: one that a sink has and the next has not *)
(* is the one a crash came upon (RealFlush, AsyncLogger.hpp:154-162).       *)
SinksAgree ==
  \A b \in {x[2] : x \in returned} :
    <<"roll", b>> \notin returned =>
      \/ b = batch /\ pc # "idle"
      \/ \A y \in returned : y[2].run = b.run => y[2].num <= b.num

(* A file as it would be if its user buffer were flushed. *)
Contents(f) == kern[f] \o (IF f = stream["roll"] THEN ubuf["roll"] ELSE << >>)

(* A file is over its limit by less than a batch, as far as one process is  *)
(* concerned: without its last batch it is below _m_max_size.               *)
RolledInTime ==
  \A f \in FilesOf("roll"), r \in 1 .. run :
    \A i \in 1 .. Len(Contents(f)) :
      Contents(f)[i].run = r => BytesUpTo(Contents(f), {r})[i - 1] < MaxSize

(* The same limit for the file itself, whoever wrote it: what the comment   *)
(* at line 78 says of rolling.                                              *)
FileBounded ==
  \A f \in FilesOf("roll") :
    \A i \in 1 .. Len(kern[f]) : BytesUpTo(kern[f], 1 .. MaxRuns)[i - 1] < MaxSize
=============================================================================
