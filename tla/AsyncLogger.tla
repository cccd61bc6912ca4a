----------------------------- MODULE AsyncLogger ------------------------------
(***************************************************************************)
(* Chronicle::AsyncLogger (AsyncLogger.hpp) with the parts it drives: the   *)
(* thread pool (ThreadPool) whose tasks are start_backup (Client.hpp), the  *)
(* backup server at the other end of the socket, and the local log, reduced *)
(* to what its AsyncWorker promises (LogChannel, which AsyncWorker is shown *)
(* to implement).                                                           *)
(*                                                                          *)
(* ERROR and FATAL messages are sent to the backup server by a pool thread  *)
(* and the caller waits for it; then, like the messages of the other levels *)
(* without waiting, they are pushed into the local log.                     *)
(***************************************************************************)
EXTENDS ThreadPool

CONSTANTS
  Retries,     \* cnt in start_backup: 5
  MaxLogs,     \* bound: log calls of all callers together
  MaxFaults    \* bound: calls of socket() and write() that fail

ASSUME LoggerConfig == Retries \in Nat /\ MaxLogs \in Nat /\ MaxFaults \in Nat

VARIABLES
  pcL,         \* where each caller stands in serialize
  msg,         \* the message each caller logs, or logged last
  logged,      \* the local log: messages pushed into the worker, in order
  written,     \* the local log: messages handed to the sinks, in order
  closed,      \* the local log's worker has shut down
  pcB,         \* where each pool thread stands in start_backup
  cnt,         \* its reconnections left
  seconds,     \* how long it has slept for the current message
  sock,        \* its socket: "none" also when socket() returned -1
  serverUp,    \* the backup server accepts connections
  inflight,    \* messages sent, not yet in the backup file
  remote,      \* the backup file
  faults,      \* history: calls that have failed
  hindered     \* history: tasks whose socket() or write() failed, or for
               \* which the server was down or went down

localVars == <<logged, written, closed>>
backupVars == <<pcB, cnt, seconds, sock>>
serverVars == <<serverUp, inflight, remote>>
failVars == <<faults, hindered>>
vars == <<poolVars, pcL, msg, localVars, backupVars, serverVars, failVars>>

(***************************************************************************)
(* num counts the caller's log calls; task is the number of the pool task   *)
(* that backs the message up, 0 when its level is DEBUG, INFO or WARN.      *)
(***************************************************************************)
Message == [from : Callers, num : 1 .. MaxLogs, task : 0 .. MaxCalls]

BackupOf(m) == [from |-> m.from, num |-> m.task]

Local == INSTANCE LogChannel
           WITH Lines <- Message, accepted <- logged, flushed <- written

Init ==
  /\ PoolInit
  /\ pcL = [c \in Callers |-> "idle"]
  /\ msg = [c \in Callers |-> [from |-> c, num |-> 0, task |-> 0]]
  /\ Local!ChanInit
  /\ pcB = [w \in Workers |-> "none"]
  /\ cnt = [w \in Workers |-> 0]
  /\ seconds = [w \in Workers |-> 0]
  /\ sock = [w \in Workers |-> "none"]
  /\ serverUp \in BOOLEAN
  /\ inflight = {}
  /\ remote = << >>
  /\ faults = 0
  /\ hindered = {}

-----------------------------------------------------------------------------
(* Callers: Debug, Info, Warn, Error, Fatal and serialize                   *)

NewMessage(c, n) ==
  /\ pcL[c] = "idle"
  /\ Len(logged) + Cardinality({k \in Callers : pcL[k] # "idle"}) < MaxLogs
  /\ msg' = [msg EXCEPT ![c] = [from |-> c, num |-> @.num + 1, task |-> n]]

(***************************************************************************)
(* Debug, Info, Warn.                                                       *)
(***************************************************************************)
LogLocal(c) ==
  /\ ~closed
  /\ NewMessage(c, 0)
  /\ pcL' = [pcL EXCEPT ![c] = "push"]
  /\ UNCHANGED <<poolVars, localVars, backupVars, serverVars, failVars>>

(* Faulty variant: the message is pushed without waiting for the future. *)
LogRemoteNoWait(c) ==
  /\ ~closed
  /\ Enqueue(c)
  /\ NewMessage(c, calls'[c])
  /\ pcL' = [pcL EXCEPT ![c] = "push"]
  /\ UNCHANGED <<localVars, backupVars, serverVars, failVars>>

(***************************************************************************)
(* Error, Fatal: the backup is queued.                                      *)
(***************************************************************************)
LogRemote(c) ==
  /\ ~closed
  /\ Enqueue(c)
  /\ NewMessage(c, calls'[c])
  /\ pcL' = [pcL EXCEPT ![c] = "backup"]
  /\ UNCHANGED <<localVars, backupVars, serverVars, failVars>>

(* Faulty variant: the exception leaves serialize, nothing is pushed. *)
LogRemoteAbandon(c) ==
  /\ ~closed
  /\ EnqueueThrows(c)
  /\ NewMessage(c, calls'[c])
  /\ UNCHANGED <<pcL, localVars, backupVars, serverVars, failVars>>

(***************************************************************************)
(* Error, Fatal on a pool that is stopping: the exception is caught and the *)
(* message goes to the local log alone.                                     *)
(***************************************************************************)
LogRemoteRefused(c) ==
  /\ ~closed
  /\ EnqueueThrows(c)
  /\ NewMessage(c, calls'[c])
  /\ pcL' = [pcL EXCEPT ![c] = "push"]
  /\ UNCHANGED <<localVars, backupVars, serverVars, failVars>>

NotifyPool(c) ==
  /\ EnqueueNotify(c)
  /\ UNCHANGED <<pcL, msg, localVars, backupVars, serverVars, failVars>>

(***************************************************************************)
(* ret_future.get() returns.                                                *)
(***************************************************************************)
BackupEnded(c) ==
  /\ Get(c)
  /\ pcL' = [pcL EXCEPT ![c] = "push"]
  /\ UNCHANGED <<msg, localVars, backupVars, serverVars, failVars>>

PushToBuffer(c) ==
  /\ pcL[c] = "push"
  /\ Local!Accept(msg[c])
  /\ pcL' = [pcL EXCEPT ![c] = "idle"]
  /\ UNCHANGED <<poolVars, msg, backupVars, serverVars, failVars>>

-----------------------------------------------------------------------------
(* The local log.  The logger's worker is stopped by a destructor: nobody   *)
(* is logging any more (loggers are shared_ptrs, the last one is released   *)
(* by a static destructor, after main deleted the pool).                    *)

RealFlush ==
  /\ Local!Flush
  /\ UNCHANGED <<poolVars, pcL, msg, backupVars, serverVars, failVars>>

CloseLogger ==
  /\ owner = "deleted"
  /\ \A c \in Callers : pcL[c] = "idle"
  /\ Local!Close
  /\ UNCHANGED <<poolVars, pcL, msg, backupVars, serverVars, failVars>>

-----------------------------------------------------------------------------
(* Pool threads: the task is start_backup                                   *)

Fault == faults < MaxFaults /\ faults' = faults + 1

(***************************************************************************)
(* socket() succeeds, or fails and is only reported: the -1 is used as a    *)
(* descriptor all the same.                                                 *)
(***************************************************************************)
StartBackup(w) ==
  /\ WorkerTake(w)
  /\ pcB' = [pcB EXCEPT ![w] = "connect"]
  /\ cnt' = [cnt EXCEPT ![w] = Retries]
  /\ seconds' = [seconds EXCEPT ![w] = 0]
  /\ \/ /\ sock' = [sock EXCEPT ![w] = "open"]
        /\ hindered' = IF serverUp THEN hindered ELSE hindered \cup {Head(tasks)}
        /\ UNCHANGED faults
     \/ /\ Fault
        /\ hindered' = hindered \cup {Head(tasks)}
        /\ UNCHANGED sock
  /\ UNCHANGED <<pcL, msg, localVars, serverVars>>

Connect(w) ==
  /\ pcB[w] = "connect"
  /\ serverUp /\ sock[w] = "open"
  /\ pcB' = [pcB EXCEPT ![w] = "write"]
  /\ sock' = [sock EXCEPT ![w] = "connected"]
  /\ UNCHANGED <<poolVars, pcL, msg, localVars, cnt, seconds, serverVars, failVars>>

(***************************************************************************)
(* connect returns -1: nobody listens, or the descriptor is not one.        *)
(***************************************************************************)
ConnectFails(w) == pcB[w] = "connect" /\ (~serverUp \/ sock[w] = "none")

(* Faulty variant: the test of cnt comes too late by one. *)
ReconnectOnceMore(w) ==
  /\ ConnectFails(w)
  /\ cnt[w] >= 0
  /\ seconds' = [seconds EXCEPT ![w] = @ + 2 ^ (Retries - cnt[w])]
  /\ cnt' = [cnt EXCEPT ![w] = @ - 1]
  /\ UNCHANGED <<poolVars, pcL, msg, localVars, pcB, sock, serverVars, failVars>>

(* Faulty variant: the attempts are not counted. *)
ReconnectForever(w) ==
  /\ ConnectFails(w)
  /\ cnt[w] > 0
  /\ seconds' = [seconds EXCEPT ![w] = 2 ^ (Retries - cnt[w])]
  /\ UNCHANGED <<poolVars, pcL, msg, localVars, pcB, cnt, sock, serverVars, failVars>>

(***************************************************************************)
(* sleep(1 << (5 - cnt)), one attempt less.                                 *)
(***************************************************************************)
Reconnect(w) ==
  /\ ConnectFails(w)
  /\ cnt[w] > 0
  /\ seconds' = [seconds EXCEPT ![w] = @ + 2 ^ (Retries - cnt[w])]
  /\ cnt' = [cnt EXCEPT ![w] = @ - 1]
  /\ UNCHANGED <<poolVars, pcL, msg, localVars, pcB, sock, serverVars, failVars>>

(***************************************************************************)
(* The socket is closed and the function returns: its local variables are   *)
(* gone, the task is run.                                                   *)
(***************************************************************************)
BackupReturns(w) ==
  /\ WorkerRun(w)
  /\ pcB' = [pcB EXCEPT ![w] = "none"]
  /\ cnt' = [cnt EXCEPT ![w] = 0]
  /\ seconds' = [seconds EXCEPT ![w] = 0]
  /\ sock' = [sock EXCEPT ![w] = "none"]

(* Faulty variant: gives up at the first failure. *)
GiveUpAtOnce(w) ==
  /\ ConnectFails(w)
  /\ BackupReturns(w)
  /\ UNCHANGED <<pcL, msg, localVars, serverVars, failVars>>

(***************************************************************************)
(* No attempt is left.                                                      *)
(***************************************************************************)
GiveUp(w) ==
  /\ ConnectFails(w)
  /\ cnt[w] <= 0
  /\ BackupReturns(w)
  /\ UNCHANGED <<pcL, msg, localVars, serverVars, failVars>>

(***************************************************************************)
(* What is written reaches the server the socket was connected to, if that  *)
(* server still runs.                                                       *)
(***************************************************************************)
Transmit(w) ==
  inflight' = IF sock[w] = "connected" THEN inflight \cup {task[w]} ELSE inflight

(* Faulty variant: the loop is not left after a write. *)
SendBackupAgain(w) ==
  /\ pcB[w] = "write"
  /\ Transmit(w)
  /\ pcB' = [pcB EXCEPT ![w] = "connect"]
  /\ sock' = [sock EXCEPT ![w] = "open"]
  /\ UNCHANGED <<poolVars, pcL, msg, localVars, cnt, seconds, serverUp, remote,
                 failVars>>

(* Faulty variant: the socket is closed before the write. *)
SendNothing(w) ==
  /\ pcB[w] = "write"
  /\ BackupReturns(w)
  /\ UNCHANGED <<pcL, msg, localVars, serverVars, failVars>>

SendBackup(w) ==
  /\ pcB[w] = "write"
  /\ Transmit(w)
  /\ BackupReturns(w)
  /\ UNCHANGED <<pcL, msg, localVars, serverUp, remote, failVars>>

(***************************************************************************)
(* write returns -1: the failure is printed, and that is all.               *)
(***************************************************************************)
SendFails(w) ==
  /\ pcB[w] = "write"
  /\ Fault
  /\ hindered' = hindered \cup {task[w]}
  /\ BackupReturns(w)
  /\ UNCHANGED <<pcL, msg, localVars, serverVars>>

(***************************************************************************)
(* The steps of the pool that run no task.                                  *)
(***************************************************************************)
PoolThread(w) ==
  /\ WorkerSleep(w) \/ WorkerExit(w)
  /\ UNCHANGED <<pcL, msg, localVars, backupVars, serverVars, failVars>>

PoolSpurious(w) ==
  /\ Spurious(w)
  /\ UNCHANGED <<pcL, msg, localVars, backupVars, serverVars, failVars>>

DeletePool ==
  /\ DtorStop
  /\ UNCHANGED <<pcL, msg, localVars, backupVars, serverVars, failVars>>

DeletePoolStep ==
  /\ DtorStep
  /\ UNCHANGED <<pcL, msg, localVars, backupVars, serverVars, failVars>>

-----------------------------------------------------------------------------
(* The backup server, a thread per connection: messages in flight reach the *)
(* file in any order.  A crash loses those in flight, not the file, and     *)
(* resets the connections.                                                  *)

ServerAppend ==
  /\ serverUp
  /\ \E t \in inflight :
       /\ inflight' = inflight \ {t}
       /\ remote' = Append(remote, t)
  /\ UNCHANGED <<poolVars, pcL, msg, localVars, backupVars, serverUp, failVars>>

BeingBackedUp == {task[w] : w \in {v \in Workers : pcW[v] = "run"}}

ServerCrash ==
  /\ serverUp
  /\ serverUp' = FALSE
  /\ inflight' = {}
  /\ sock' = [w \in Workers |-> IF sock[w] = "connected" THEN "reset" ELSE sock[w]]
  /\ hindered' = hindered \cup inflight \cup BeingBackedUp
  /\ UNCHANGED <<poolVars, pcL, msg, localVars, pcB, cnt, seconds, remote, faults>>

ServerStart ==
  /\ ~serverUp
  /\ serverUp' = TRUE
  /\ UNCHANGED <<poolVars, pcL, msg, localVars, backupVars, inflight, remote, failVars>>

-----------------------------------------------------------------------------
LogCall(c) == LogLocal(c) \/ LogRemote(c) \/ LogRemoteRefused(c)

LogStep(c) == NotifyPool(c) \/ BackupEnded(c) \/ PushToBuffer(c)

BackupStep(w) ==
  \/ StartBackup(w) \/ Connect(w) \/ Reconnect(w) \/ GiveUp(w)
  \/ SendBackup(w) \/ SendFails(w)
  \/ PoolThread(w)

Next ==
  \/ \E c \in Callers : LogCall(c) \/ LogStep(c)
  \/ \E w \in Workers : BackupStep(w) \/ PoolSpurious(w)
  \/ DeletePool \/ DeletePoolStep
  \/ RealFlush \/ CloseLogger
  \/ ServerAppend \/ ServerCrash \/ ServerStart

Spec == Init /\ [][Next]_vars

(***************************************************************************)
(* Threads run.  The server may stay down for ever, or come and go.         *)
(***************************************************************************)
Fairness ==
  /\ \A c \in Callers : WF_vars(LogStep(c))
  /\ \A w \in Workers : WF_vars(BackupStep(w))
  /\ WF_vars(DeletePoolStep)
  /\ WF_vars(RealFlush)

FairSpec == Spec /\ Fairness

-----------------------------------------------------------------------------
(* Type invariant: the variables have the shapes the code gives them.       *)
LoggerTypeOK ==
  /\ PoolTypeOK
  /\ pcL \in [Callers -> {"idle", "backup", "push"}]
  /\ msg \in [Callers -> [from : Callers, num : 0 .. MaxLogs, task : 0 .. MaxCalls]]
  /\ Local!ChanTypeOK
  /\ pcB \in [Workers -> {"none", "connect", "write"}]
  /\ cnt \in [Workers -> 0 .. Retries]
  /\ seconds \in [Workers -> Nat]
  /\ serverUp \in BOOLEAN
  /\ inflight \subseteq Task
  /\ remote \in Seq(Task)
  /\ sock \in [Workers -> {"none", "open", "connected", "reset"}]
  /\ faults \in 0 .. MaxFaults
  /\ hindered \subseteq Task

(* Each caller's log calls are all in the local log, once each and in the   *)
(* order of the calls, whatever became of their backups: pool stopped,      *)
(* server down (serialize, lines 130-144).                                  *)
LocalLogComplete ==
  \A c \in Callers :
    LET mine == {i \in 1 .. Len(logged) : logged[i].from = c}
        n == IF pcL[c] = "idle" THEN msg[c].num ELSE msg[c].num - 1
    IN  /\ \A i \in mine : logged[i].num \in 1 .. n
        /\ \A k \in 1 .. n : \E i \in mine : logged[i].num = k
        /\ \A i, j \in mine : i < j => logged[i].num < logged[j].num

(* An ERROR or FATAL message enters the local log only when its backup is   *)
(* over, or the pool refused it (future::get, lines 132-133).               *)
BackupBeforeLocal ==
  \A i \in 1 .. Len(logged) :
    logged[i].task # 0 =>
      \/ BackupOf(logged[i]) \in finished
      \/ \A j \in 1 .. Len(accepted) : accepted[j] # BackupOf(logged[i])

(* A backup that ended is at the server, or on its way, unless something    *)
(* hindered that very message: its socket() or write() failed, the server   *)
(* was down while start_backup ran, or died before it read the message.     *)
(* Another message's failure, or one that is over, costs it nothing         *)
(* (start_backup, lines 15-54).                                             *)
BackedUpUnlessHindered ==
  \A t \in finished :
    t \in hindered \/ t \in inflight \/ \E i \in 1 .. Len(remote) : remote[i] = t

(* No message is backed up twice: reconnecting never repeats a write.       *)
BackedUpOnce ==
  /\ \A i, j \in 1 .. Len(remote) : remote[i] = remote[j] => i = j
  /\ \A i \in 1 .. Len(remote) : remote[i] \notin inflight

(* A backup is given up only after all its reconnections, that is after     *)
(* 1 + 2 + 4 + 8 + 16 seconds when cnt starts at 5 (Client.hpp:31-42).      *)
GivesUpPatiently ==
  [][\A w \in Workers :
       pcB[w] = "connect" /\ pcB'[w] = "none" => seconds[w] = 2 ^ Retries - 1]_vars

(* Every message logged reaches the sinks of the local log, even if the     *)
(* backup server never answers or the pool is being destroyed.              *)
LoggedIsWritten ==
  \A c \in Callers, n \in 1 .. MaxLogs :
    msg[c].num = n ~>
      \E i \in 1 .. Len(written) : written[i].from = c /\ written[i].num = n

(* The pool behaves in the logger as ThreadPool says, and start_backup is   *)
(* a task that always returns.                                              *)
ImplementsPool == FairPoolSpec
=============================================================================
