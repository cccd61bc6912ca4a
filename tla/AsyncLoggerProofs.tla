-------------------------- MODULE AsyncLoggerProofs ---------------------------
(***************************************************************************)
(* Theorems about AsyncLogger: it uses the thread pool, the local log and   *)
(* the server only through steps that these allow, so that what is proved   *)
(* of the pool holds of the logger's; backups come before the local log,    *)
(* are sent once, and get through unless something befell them; the local   *)
(* log has every call in order; a backup is given up only after all its     *)
(* attempts.                                                                *)
(***************************************************************************)
EXTENDS AsyncLogger, ThreadPoolProofs, FunctionTheorems

LEMMA PoolStep == [Next]_vars => [PoolNext]_poolVars
<1> SUFFICES ASSUME [Next]_vars PROVE PoolNext \/ UNCHANGED poolVars
  OBVIOUS
<1>1. ASSUME NEW c \in Callers, LogCall(c) \/ LogStep(c)
      PROVE  PoolNext \/ UNCHANGED poolVars
  BY <1>1 DEF LogCall, LogLocal, LogRemote, LogRemoteRefused, LogStep, NotifyPool,
              BackupEnded, PushToBuffer, PoolNext, CallerStep
<1>2. ASSUME NEW w \in Workers, BackupStep(w) \/ PoolSpurious(w)
      PROVE  PoolNext \/ UNCHANGED poolVars
  BY <1>2 DEF BackupStep, StartBackup, Connect, Reconnect, GiveUp, SendBackup,
              SendFails, BackupReturns, PoolThread, PoolSpurious, PoolNext, WorkerStep
<1>3. CASE DeletePool \/ DeletePoolStep
  BY <1>3 DEF DeletePool, DeletePoolStep, PoolNext
<1>4. CASE RealFlush \/ CloseLogger \/ ServerAppend \/ ServerCrash \/ ServerStart
  BY <1>4 DEF RealFlush, CloseLogger, ServerAppend, ServerCrash, ServerStart
<1>5. CASE UNCHANGED vars
  BY <1>5 DEF vars
<1> QED
  BY <1>1, <1>2, <1>3, <1>4, <1>5 DEF Next

(* The logger and start_backup drive the pool as ThreadPool allows.         *)
THEOREM LoggerUsesPool == Spec => PoolSpec
<1>1. Init => PoolInit
  BY DEF Init
<1> QED
  BY <1>1, PoolStep, PTL DEF Spec, PoolSpec

-----------------------------------------------------------------------------
(* Backups                                                                  *)

(* Types, without the bounds on the number of log calls.                    *)
LogRecord == [from : Callers, num : Nat, task : Nat]

LogTypes ==
  /\ pcL \in [Callers -> {"idle", "backup", "push"}]
  /\ msg \in [Callers -> LogRecord]
  /\ logged \in Seq(LogRecord)

LEMMA LogTypesStep == PoolTypeOK /\ LogTypes /\ [Next]_vars => LogTypes'
<1> SUFFICES ASSUME PoolTypeOK, LogTypes, [Next]_vars PROVE LogTypes'
  OBVIOUS
<1> USE DEF LogTypes
<1>a. ASSUME UNCHANGED <<pcL, msg, logged>> PROVE LogTypes'
  BY <1>a
<1>b. ASSUME NEW c \in Callers, NEW n \in Nat, NewMessage(c, n)
      PROVE  msg' \in [Callers -> LogRecord]
  <2>1. [from |-> c, num |-> msg[c].num + 1, task |-> n] \in LogRecord
    BY <1>b DEF LogRecord
  <2> QED
    BY <1>b, <2>1 DEF NewMessage
<1>1. ASSUME NEW c \in Callers, LogLocal(c) PROVE LogTypes'
  BY <1>1, <1>b DEF LogLocal, localVars
<1>2. ASSUME NEW c \in Callers, LogRemote(c) PROVE LogTypes'
  <2>1. calls'[c] \in Nat
    BY <1>2, PoolConfig DEF LogRemote, Enqueue, PoolTypeOK
  <2> QED
    BY <1>2, <2>1, <1>b DEF LogRemote, localVars
<1>3. ASSUME NEW c \in Callers, LogRemoteRefused(c) PROVE LogTypes'
  <2>1. calls'[c] \in Nat
    BY <1>3, PoolConfig DEF LogRemoteRefused, EnqueueThrows, PoolTypeOK
  <2> QED
    BY <1>3, <2>1, <1>b DEF LogRemoteRefused, localVars
<1>4. ASSUME NEW c \in Callers, NotifyPool(c) PROVE LogTypes'
  BY <1>4, <1>a DEF NotifyPool, localVars
<1>5. ASSUME NEW c \in Callers, BackupEnded(c) PROVE LogTypes'
  BY <1>5 DEF BackupEnded, localVars
<1>6. ASSUME NEW c \in Callers, PushToBuffer(c) PROVE LogTypes'
  <2>1. logged' = Append(logged, msg[c]) /\ msg[c] \in LogRecord
    BY <1>6 DEF PushToBuffer, Local!Accept
  <2>2. logged' \in Seq(LogRecord)
    BY <2>1, AppendProperties
  <2> QED
    BY <1>6, <2>2 DEF PushToBuffer
<1>7. ASSUME NEW w \in Workers, BackupStep(w) \/ PoolSpurious(w) PROVE LogTypes'
  BY <1>7, <1>a DEF BackupStep, StartBackup, Connect, Reconnect, GiveUp, SendBackup,
                    SendFails, PoolThread, PoolSpurious, localVars
<1>8. CASE DeletePool \/ DeletePoolStep
  BY <1>8, <1>a DEF DeletePool, DeletePoolStep, localVars
<1>9. CASE RealFlush \/ CloseLogger
  BY <1>9, <1>a DEF RealFlush, CloseLogger, Local!Flush, Local!Close
<1>10. CASE ServerAppend \/ ServerCrash \/ ServerStart
  BY <1>10, <1>a DEF ServerAppend, ServerCrash, ServerStart, localVars
<1>11. CASE UNCHANGED vars
  BY <1>11, <1>a DEF vars, localVars
<1> QED
  BY <1>1, <1>2, <1>3, <1>4, <1>5, <1>6, <1>7, <1>8, <1>9, <1>10, <1>11
  DEF Next, LogCall, LogStep

(* A message may enter the local log: it has no backup, or its backup has   *)
(* been run, or its caller's call was refused and the pool never heard of   *)
(* it.                                                                      *)
Ready(m) ==
  m.task # 0 =>
    \/ BackupOf(m) \in finished
    \/ /\ m.task <= calls[m.from]
       /\ \A j \in 1 .. Len(accepted) : accepted[j] # BackupOf(m)

(* A caller waits for the backup of the message it logs; what it has begun  *)
(* to push, and what is in the log, is ready.                               *)
BackupInv ==
  /\ \A c \in Callers :
       /\ pcL[c] = "backup" <=> pcK[c] # "idle"
       /\ pcL[c] = "backup" => BackupOf(msg[c]) = CurrentTask(c)
       /\ pcL[c] = "push" => Ready(msg[c])
  /\ \A i \in 1 .. Len(logged) : Ready(logged[i])

(* Once ready a message stays so.                                           *)
LEMMA ReadyStable ==
  ASSUME PoolTypeOK, [PoolNext]_poolVars, NEW m \in LogRecord, Ready(m)
  PROVE  Ready(m)'
<1>a. /\ accepted \in Seq(Task) /\ calls \in [Callers -> 0 .. MaxCalls]
      /\ m.from \in Callers /\ m.task \in Nat /\ BackupOf(m).num = m.task
      /\ BackupOf(m).from = m.from
  BY DEF PoolTypeOK, LogRecord, BackupOf
<1>1. ASSUME NEW c \in Callers, Enqueue(c) PROVE Ready(m)'
  <2> DEFINE t == CurrentTask(c)'
  <2>1. /\ calls'[c] = calls[c] + 1 /\ calls'[c] \in 1 .. MaxCalls
        /\ \A d \in Callers : d # c => calls'[d] = calls[d]
        /\ \A d \in Callers : calls[d] \in Nat
        /\ UNCHANGED finished
    BY <1>1, <1>a, PoolConfig DEF Enqueue
  <2>2. t \in Task /\ t.from = c /\ t.num = calls[c] + 1 /\ accepted' = Append(accepted, t)
    BY <1>1, <2>1 DEF CurrentTask, Task, Enqueue
  <2> HIDE DEF t
  <2>3. /\ Len(accepted') = Len(accepted) + 1
        /\ \A i \in 1 .. Len(accepted) : accepted'[i] = accepted[i]
        /\ accepted'[Len(accepted) + 1] = t
        /\ Len(accepted) \in Nat
    BY <1>a, <2>2, AppendTask, LenProperties
  <2>4. m.task <= calls[m.from] => t # BackupOf(m) /\ m.task <= calls'[m.from]
    BY <1>a, <2>1, <2>2
  <2> QED
    BY <1>a, <2>1, <2>3, <2>4 DEF Ready, BackupOf
<1>2. ASSUME NEW c \in Callers, EnqueueThrows(c) PROVE Ready(m)'
  <2>1. \A d \in Callers : calls[d] \in Nat /\ calls'[d] \in Nat /\ calls[d] <= calls'[d]
    BY <1>2, <1>a DEF EnqueueThrows
  <2>2. UNCHANGED <<accepted, finished>>
    BY <1>2 DEF EnqueueThrows
  <2> QED
    BY <1>a, <2>1, <2>2 DEF Ready, BackupOf
<1>3. ASSUME UNCHANGED <<accepted, calls>>, finished \subseteq finished'
      PROVE  Ready(m)'
  BY <1>3 DEF Ready, BackupOf
<1>4. ASSUME NEW c \in Callers, CallerStep(c) PROVE Ready(m)'
  BY <1>4, <1>3 DEF CallerStep, EnqueueNotify, Get
<1>5. ASSUME NEW w \in Workers, WorkerStep(w) \/ Spurious(w) PROVE Ready(m)'
  BY <1>5, <1>3 DEF WorkerStep, WorkerSleep, WorkerExit, WorkerTake, WorkerRun, Spurious
<1>6. CASE DtorStop \/ DtorStep
  BY <1>6, <1>3 DEF DtorStop, DtorStep, DtorNotify, DtorJoin
<1>7. CASE UNCHANGED poolVars
  BY <1>7, <1>3 DEF poolVars
<1> QED
  BY <1>1, <1>2, <1>4, <1>5, <1>6, <1>7 DEF PoolNext

LEMMA BackupStepInv ==
  PoolTypeOK /\ QueueInv /\ LogTypes /\ BackupInv /\ [Next]_vars => BackupInv'
<1> SUFFICES ASSUME PoolTypeOK, QueueInv, LogTypes, BackupInv, [Next]_vars
             PROVE  BackupInv'
  OBVIOUS
<1>p. [PoolNext]_poolVars
  BY PoolStep
<1>r. \A m \in LogRecord : Ready(m) => Ready(m)'
  BY <1>p, ReadyStable
<1>t. /\ pcL \in [Callers -> {"idle", "backup", "push"}]
      /\ msg \in [Callers -> LogRecord]
      /\ pcK \in [Callers -> {"idle", "notify", "get"}]
      /\ calls \in [Callers -> 0 .. MaxCalls]
      /\ logged \in Seq(LogRecord)
      /\ Len(logged) \in Nat
      /\ \A i \in 1 .. Len(logged) : logged[i] \in LogRecord
  <2>1. logged \in Seq(LogRecord)
    BY DEF LogTypes
  <2> QED
    BY <2>1 DEF LogTypes, PoolTypeOK
<1>l. UNCHANGED logged => \A i \in 1 .. Len(logged') : Ready(logged[i])'
  BY <1>r, <1>t DEF BackupInv
<1>o. ASSUME NEW d \in Callers,
             pcL'[d] = pcL[d], pcK'[d] = "idle" <=> pcK[d] = "idle",
             msg'[d] = msg[d], calls'[d] = calls[d]
      PROVE  /\ pcL'[d] = "backup" <=> pcK'[d] # "idle"
             /\ pcL'[d] = "backup" => BackupOf(msg[d])' = CurrentTask(d)'
             /\ pcL'[d] = "push" => Ready(msg[d])'
  <2>1. pcL[d] = "push" => Ready(msg[d])
    BY DEF BackupInv
  <2>2. msg[d] \in LogRecord
    BY <1>t
  <2>3. pcL[d] = "push" => Ready(msg[d])'
    BY <1>o, <1>r, <2>1, <2>2 DEF Ready, BackupOf
  <2> QED
    BY <1>o, <2>3 DEF BackupInv, BackupOf, CurrentTask
<1>1. ASSUME UNCHANGED <<pcL, msg, logged, calls>>,
             \A d \in Callers : pcK'[d] = "idle" <=> pcK[d] = "idle"
      PROVE  BackupInv'
  BY <1>1, <1>l, <1>o DEF BackupInv
<1>2. ASSUME NEW c \in Callers, LogLocal(c) PROVE BackupInv'
  <2>1. /\ pcL[c] = "idle" /\ pcL'[c] = "push" /\ msg'[c].task = 0
        /\ UNCHANGED <<pcK, calls, logged>>
        /\ \A d \in Callers : d # c => pcL'[d] = pcL[d] /\ msg'[d] = msg[d]
    BY <1>2, <1>t DEF LogLocal, NewMessage, localVars, poolVars
  <2>2. Ready(msg[c])'
    BY <2>1 DEF Ready
  <2>3. ASSUME NEW d \in Callers
        PROVE  /\ pcL'[d] = "backup" <=> pcK'[d] # "idle"
               /\ pcL'[d] = "backup" => BackupOf(msg[d])' = CurrentTask(d)'
               /\ pcL'[d] = "push" => Ready(msg[d])'
    <3>1. CASE d = c
      <4>1. pcK[c] = "idle"
        BY <2>1 DEF BackupInv
      <4> QED
        BY <2>1, <2>2, <3>1, <4>1
    <3>2. CASE d # c
      BY <1>o, <2>1, <3>2
    <3> QED
      BY <3>1, <3>2
  <2> QED
    BY <1>l, <2>1, <2>3 DEF BackupInv
<1>3. ASSUME NEW c \in Callers, LogRemote(c) PROVE BackupInv'
  <2>1. /\ pcL'[c] = "backup" /\ pcK'[c] = "notify" /\ UNCHANGED logged
        /\ msg'[c].task = calls'[c] /\ msg'[c].from = c
        /\ \A d \in Callers : d # c => /\ pcL'[d] = pcL[d] /\ msg'[d] = msg[d]
                                       /\ pcK'[d] = pcK[d] /\ calls'[d] = calls[d]
    BY <1>3, <1>t DEF LogRemote, Enqueue, NewMessage, localVars
  <2>2. BackupOf(msg[c])' = CurrentTask(c)'
    BY <2>1 DEF BackupOf, CurrentTask
  <2>3. ASSUME NEW d \in Callers
        PROVE  /\ pcL'[d] = "backup" <=> pcK'[d] # "idle"
               /\ pcL'[d] = "backup" => BackupOf(msg[d])' = CurrentTask(d)'
               /\ pcL'[d] = "push" => Ready(msg[d])'
    <3>1. CASE d = c
      BY <2>1, <2>2, <3>1
    <3>2. CASE d # c
      BY <1>o, <2>1, <3>2
    <3> QED
      BY <3>1, <3>2
  <2> QED
    BY <1>l, <2>1, <2>3 DEF BackupInv
<1>4. ASSUME NEW c \in Callers, LogRemoteRefused(c) PROVE BackupInv'
  <2>1. /\ pcL[c] = "idle" /\ pcL'[c] = "push" /\ UNCHANGED <<logged, pcK, accepted, finished>>
        /\ msg'[c].task = calls'[c] /\ msg'[c].from = c /\ calls'[c] = calls[c] + 1
        /\ calls[c] \in Nat
        /\ \A d \in Callers : d # c => /\ pcL'[d] = pcL[d] /\ msg'[d] = msg[d]
                                       /\ calls'[d] = calls[d]
    BY <1>4, <1>t DEF LogRemoteRefused, EnqueueThrows, NewMessage, localVars
  <2>2. ASSUME NEW j \in 1 .. Len(accepted) PROVE accepted[j] # [from |-> c, num |-> calls'[c]]
    <3>1. accepted[j].num <= calls[accepted[j].from]
      BY DEF QueueInv
    <3> QED
      BY <2>1, <3>1
  <2>3. Ready(msg[c])'
    BY <2>1, <2>2 DEF Ready, BackupOf
  <2>4. ASSUME NEW d \in Callers
        PROVE  /\ pcL'[d] = "backup" <=> pcK'[d] # "idle"
               /\ pcL'[d] = "backup" => BackupOf(msg[d])' = CurrentTask(d)'
               /\ pcL'[d] = "push" => Ready(msg[d])'
    <3>1. CASE d = c
      <4>1. pcK[c] = "idle"
        BY <2>1 DEF BackupInv
      <4> QED
        BY <2>1, <2>3, <3>1, <4>1
    <3>2. CASE d # c
      BY <1>o, <2>1, <3>2
    <3> QED
      BY <3>1, <3>2
  <2> QED
    BY <1>l, <2>1, <2>4 DEF BackupInv
<1>5. ASSUME NEW c \in Callers, NotifyPool(c) PROVE BackupInv'
  <2>1. \A d \in Callers : pcK'[d] = "idle" <=> pcK[d] = "idle"
    BY <1>5, <1>t DEF NotifyPool, EnqueueNotify
  <2> QED
    BY <1>5, <2>1, <1>1 DEF NotifyPool, EnqueueNotify, localVars
<1>6. ASSUME NEW c \in Callers, BackupEnded(c) PROVE BackupInv'
  <2>1. /\ pcK[c] = "get" /\ pcL'[c] = "push" /\ pcK'[c] = "idle"
        /\ CurrentTask(c) \in finished
        /\ UNCHANGED <<msg, logged, calls, finished>>
        /\ \A d \in Callers : d # c => pcL'[d] = pcL[d] /\ pcK'[d] = pcK[d]
    BY <1>6, <1>t DEF BackupEnded, Get, localVars
  <2>2. BackupOf(msg[c]) \in finished
    BY <2>1 DEF BackupInv
  <2>3. Ready(msg[c])'
    BY <2>1, <2>2 DEF Ready, BackupOf
  <2>4. ASSUME NEW d \in Callers
        PROVE  /\ pcL'[d] = "backup" <=> pcK'[d] # "idle"
               /\ pcL'[d] = "backup" => BackupOf(msg[d])' = CurrentTask(d)'
               /\ pcL'[d] = "push" => Ready(msg[d])'
    <3>1. CASE d = c
      BY <2>1, <2>3, <3>1
    <3>2. CASE d # c
      BY <1>o, <2>1, <3>2
    <3> QED
      BY <3>1, <3>2
  <2> QED
    BY <1>l, <2>1, <2>4 DEF BackupInv
<1>7. ASSUME NEW c \in Callers, PushToBuffer(c) PROVE BackupInv'
  <2>1. /\ pcL[c] = "push" /\ pcL'[c] = "idle"
        /\ UNCHANGED <<msg, pcK, calls>>
        /\ \A d \in Callers : d # c => pcL'[d] = pcL[d]
        /\ logged' = Append(logged, msg[c])
    BY <1>7, <1>t DEF PushToBuffer, Local!Accept, poolVars
  <2>2. msg[c] \in LogRecord /\ Ready(msg[c])
    BY <1>t, <2>1 DEF BackupInv
  <2>3. Ready(msg[c])'
    <3>1. ASSUME NEW m \in LogRecord, Ready(m), m = msg[c] PROVE Ready(msg[c])'
      BY <1>r, <2>1, <3>1 DEF Ready, BackupOf
    <3> QED
      BY <2>2, <3>1
  <2>4. /\ Len(logged') = Len(logged) + 1
        /\ \A i \in 1 .. Len(logged) : logged'[i] = logged[i]
        /\ logged'[Len(logged) + 1] = msg[c]
    BY <1>t, <2>1, <2>2, AppendProperties
  <2>5. ASSUME NEW i \in 1 .. Len(logged') PROVE Ready(logged[i])'
    <3>1. CASE i = Len(logged) + 1
      BY <2>1, <2>3, <2>4, <3>1 DEF Ready, BackupOf
    <3>2. CASE i \in 1 .. Len(logged)
      <4>1. Ready(logged[i]) /\ logged[i] \in LogRecord
        BY <1>t, <3>2 DEF BackupInv
      <4>2. logged'[i] = logged[i]
        BY <2>4, <3>2
      <4>3. ASSUME NEW m \in LogRecord, Ready(m), m = logged'[i] PROVE Ready(logged[i])'
        BY <1>r, <4>3 DEF Ready, BackupOf
      <4> QED
        BY <4>1, <4>2, <4>3
    <3> QED
      BY <1>t, <2>4, <3>1, <3>2
  <2>6. ASSUME NEW d \in Callers
        PROVE  /\ pcL'[d] = "backup" <=> pcK'[d] # "idle"
               /\ pcL'[d] = "backup" => BackupOf(msg[d])' = CurrentTask(d)'
               /\ pcL'[d] = "push" => Ready(msg[d])'
    <3>1. CASE d = c
      BY <2>1, <3>1 DEF BackupInv
    <3>2. CASE d # c
      BY <1>o, <2>1, <3>2
    <3> QED
      BY <3>1, <3>2
  <2> QED
    BY <2>5, <2>6 DEF BackupInv
<1>8. ASSUME NEW w \in Workers, BackupStep(w) \/ PoolSpurious(w) PROVE BackupInv'
  <2>1. UNCHANGED <<pcL, msg, logged, calls, pcK>>
    BY <1>8 DEF BackupStep, StartBackup, Connect, Reconnect, GiveUp, SendBackup,
                SendFails, BackupReturns, PoolThread, PoolSpurious, WorkerTake, WorkerRun,
                WorkerSleep, WorkerExit, Spurious, localVars, poolVars
  <2> QED
    BY <2>1, <1>1
<1>9. CASE DeletePool \/ DeletePoolStep
  BY <1>9, <1>1 DEF DeletePool, DeletePoolStep, DtorStop, DtorStep, DtorNotify,
                    DtorJoin, localVars
<1>10. CASE RealFlush \/ CloseLogger
  BY <1>10, <1>1 DEF RealFlush, CloseLogger, Local!Flush, Local!Close, poolVars
<1>11. CASE ServerAppend \/ ServerCrash \/ ServerStart
  BY <1>11, <1>1 DEF ServerAppend, ServerCrash, ServerStart, localVars, poolVars
<1>12. CASE UNCHANGED vars
  BY <1>12, <1>1 DEF vars, localVars, poolVars
<1> QED
  BY <1>2, <1>3, <1>4, <1>5, <1>6, <1>7, <1>8, <1>9, <1>10, <1>11, <1>12
  DEF Next, LogCall, LogStep

LEMMA BackupInvariant == Spec => [](PoolTypeOK /\ QueueInv /\ LogTypes /\ BackupInv)
<1>1. Init => LogTypes /\ BackupInv
  <2> SUFFICES ASSUME Init PROVE LogTypes /\ BackupInv
    OBVIOUS
  <2>1. LogTypes
    <3>1. \A c \in Callers : [from |-> c, num |-> 0, task |-> 0] \in LogRecord
      BY DEF LogRecord
    <3>2. logged \in Seq(LogRecord)
      BY EmptySeq DEF Init, Local!ChanInit
    <3> QED
      BY <3>1, <3>2 DEF Init, LogTypes
  <2>2. BackupInv
    BY DEF Init, PoolInit, Local!ChanInit, BackupInv
  <2> QED
    BY <2>1, <2>2
<1>2. PoolTypeOK /\ LogTypes /\ [Next]_vars => LogTypes'
  BY LogTypesStep
<1>3. PoolTypeOK /\ QueueInv /\ LogTypes /\ BackupInv /\ [Next]_vars => BackupInv'
  BY BackupStepInv
<1> QED
  BY <1>1, <1>2, <1>3, LoggerUsesPool, QueueInvariant, PTL DEF Spec

(* An ERROR or FATAL message enters the local log only when its backup is   *)
(* over, or the pool refused it.                                            *)
THEOREM BackedUpFirst == Spec => []BackupBeforeLocal
<1>1. BackupInv => BackupBeforeLocal
  BY DEF BackupInv, BackupBeforeLocal, Ready
<1> QED
  BY <1>1, BackupInvariant, PTL

-----------------------------------------------------------------------------
(* The backup file                                                          *)

ServerTypes ==
  /\ inflight \subseteq Task
  /\ remote \in Seq(Task)
  /\ serverUp \in BOOLEAN

(* What was sent or appended belongs to a start_backup that has returned:   *)
(* nothing is sent for a task that is still running.                        *)
SentInv ==
  /\ inflight \subseteq finished
  /\ \A i \in 1 .. Len(remote) : remote[i] \in finished
  /\ BackedUpOnce

(* A backup that runs and has not been hindered has a server and a socket:  *)
(* its next connect and its write succeed.                                  *)
UnhinderedInv ==
  \A w \in Workers :
    pcW[w] = "run" /\ task[w] \notin hindered =>
      serverUp /\ sock[w] = IF pcB[w] = "connect" THEN "open" ELSE "connected"

(* How a pool thread ends start_backup: it sends its message or gives up.   *)
LEMMA Returning ==
  ASSUME PoolTypeOK, RunInv, FreshInv, NEW w \in Workers, BackupReturns(w)
  PROVE  /\ finished' = finished \cup {task[w]}
         /\ task[w] \notin finished /\ task[w] \in Task
BY DEF BackupReturns, WorkerRun, FreshInv, PoolTypeOK

(* The steps that leave alone what has finished and the server.             *)
LEMMA QuietStep ==
  ASSUME [Next]_vars
  PROVE  \/ UNCHANGED <<finished, serverVars>>
         \/ \E w \in Workers : GiveUp(w) \/ SendBackup(w) \/ SendFails(w)
         \/ ServerAppend \/ ServerCrash \/ ServerStart
<1>1. ASSUME NEW c \in Callers, LogCall(c) \/ LogStep(c)
      PROVE  UNCHANGED <<finished, serverVars>>
  BY <1>1 DEF LogCall, LogLocal, LogRemote, LogRemoteRefused, LogStep, NotifyPool,
              BackupEnded, PushToBuffer, Enqueue, EnqueueThrows, EnqueueNotify, Get,
              poolVars
<1>2. ASSUME NEW w \in Workers, StartBackup(w) \/ PoolThread(w) \/ PoolSpurious(w)
      PROVE  UNCHANGED <<finished, serverVars>>
  BY <1>2 DEF StartBackup, PoolThread, PoolSpurious, WorkerTake, WorkerSleep,
              WorkerExit, Spurious
<1>3. ASSUME NEW w \in Workers, Connect(w) \/ Reconnect(w)
      PROVE  UNCHANGED <<finished, serverVars>>
  BY <1>3 DEF Connect, Reconnect, poolVars
<1>4. CASE DeletePool \/ DeletePoolStep
  BY <1>4 DEF DeletePool, DeletePoolStep, DtorStop, DtorStep, DtorNotify, DtorJoin
<1>5. CASE RealFlush \/ CloseLogger
  BY <1>5 DEF RealFlush, CloseLogger, poolVars
<1>6. CASE UNCHANGED vars
  BY <1>6 DEF vars, poolVars
<1> QED
  BY <1>1, <1>2, <1>3, <1>4, <1>5, <1>6 DEF Next, BackupStep

(* The server appends one of the messages in flight.                        *)
LEMMA Appending ==
  ASSUME ServerTypes, ServerAppend
  PROVE  \E t \in inflight :
           /\ inflight' = inflight \ {t} /\ remote' \in Seq(Task)
           /\ Len(remote) \in Nat /\ Len(remote') = Len(remote) + 1
           /\ \A i \in 1 .. Len(remote) : remote'[i] = remote[i]
           /\ remote'[Len(remote) + 1] = t
<1>1. PICK t \in inflight : inflight' = inflight \ {t} /\ remote' = Append(remote, t)
  BY DEF ServerAppend
<1>2. t \in Task /\ remote \in Seq(Task)
  BY DEF ServerTypes
<1> QED
  BY <1>1, <1>2, AppendTask, LenProperties

LEMMA ServerTypesStep ==
  PoolTypeOK /\ RunInv /\ FreshInv /\ ServerTypes /\ [Next]_vars => ServerTypes'
<1> SUFFICES ASSUME PoolTypeOK, RunInv, FreshInv, ServerTypes, [Next]_vars
             PROVE  ServerTypes'
  OBVIOUS
<1>1. CASE UNCHANGED <<finished, serverVars>>
  BY <1>1 DEF ServerTypes, serverVars
<1>2. ASSUME NEW w \in Workers, GiveUp(w) \/ SendFails(w) PROVE ServerTypes'
  BY <1>2 DEF GiveUp, SendFails, ServerTypes, serverVars
<1>3. ASSUME NEW w \in Workers, SendBackup(w) PROVE ServerTypes'
  <2>1. task[w] \in Task
    BY <1>3, Returning DEF SendBackup
  <2> QED
    BY <1>3, <2>1 DEF SendBackup, Transmit, ServerTypes
<1>4. CASE ServerAppend
  <2>1. inflight' \subseteq inflight /\ remote' \in Seq(Task)
    BY <1>4, Appending
  <2> QED
    BY <1>4, <2>1 DEF ServerAppend, ServerTypes
<1>5. CASE ServerCrash \/ ServerStart
  BY <1>5 DEF ServerCrash, ServerStart, ServerTypes
<1> QED
  BY <1>1, <1>2, <1>3, <1>4, <1>5, QuietStep

LEMMA SentStep ==
  PoolTypeOK /\ RunInv /\ FreshInv /\ ServerTypes /\ SentInv /\ [Next]_vars => SentInv'
<1> SUFFICES ASSUME PoolTypeOK, RunInv, FreshInv, ServerTypes, SentInv, [Next]_vars
             PROVE  SentInv'
  OBVIOUS
<1> USE DEF SentInv, BackedUpOnce
<1>1. CASE UNCHANGED <<finished, serverVars>>
  BY <1>1 DEF serverVars
<1>2. ASSUME NEW w \in Workers, GiveUp(w) \/ SendFails(w) PROVE SentInv'
  <2>1. finished \subseteq finished' /\ UNCHANGED <<inflight, remote>>
    BY <1>2, Returning DEF GiveUp, SendFails, serverVars
  <2> QED
    BY <2>1
<1>3. ASSUME NEW w \in Workers, SendBackup(w) PROVE SentInv'
  <2>1. /\ finished' = finished \cup {task[w]} /\ task[w] \notin finished
        /\ inflight' \subseteq inflight \cup {task[w]} /\ UNCHANGED remote
    BY <1>3, Returning DEF SendBackup, Transmit
  <2> QED
    BY <2>1
<1>4. CASE ServerAppend
  <2>1. PICK t \in inflight :
          /\ inflight' = inflight \ {t}
          /\ Len(remote) \in Nat /\ Len(remote') = Len(remote) + 1
          /\ \A i \in 1 .. Len(remote) : remote'[i] = remote[i]
          /\ remote'[Len(remote) + 1] = t
    BY <1>4, Appending
  <2>2. UNCHANGED finished
    BY <1>4 DEF ServerAppend, poolVars
  <2>3. \A i \in 1 .. Len(remote') : i \in 1 .. Len(remote) \/ i = Len(remote) + 1
    BY <2>1
  <2>4. \A i \in 1 .. Len(remote') : remote'[i] \in finished' /\ remote'[i] \notin inflight'
    BY <2>1, <2>2, <2>3
  <2>5. \A i, j \in 1 .. Len(remote') : remote'[i] = remote'[j] => i = j
    BY <2>1, <2>3
  <2> QED
    BY <2>1, <2>2, <2>4, <2>5
<1>5. CASE ServerCrash
  BY <1>5 DEF ServerCrash, poolVars
<1>6. CASE ServerStart
  BY <1>6 DEF ServerStart, poolVars
<1> QED
  BY <1>1, <1>2, <1>3, <1>4, <1>5, <1>6, QuietStep

(* What has hindered a backup is not forgotten.                             *)
LEMMA HinderedGrows ==
  ASSUME [Next]_vars
  PROVE  hindered \subseteq hindered'
<1>1. ASSUME NEW c \in Callers, LogCall(c) \/ LogStep(c) PROVE hindered \subseteq hindered'
  BY <1>1 DEF LogCall, LogLocal, LogRemote, LogRemoteRefused, LogStep, NotifyPool,
              BackupEnded, PushToBuffer, failVars
<1>2. ASSUME NEW w \in Workers, BackupStep(w) \/ PoolSpurious(w)
      PROVE  hindered \subseteq hindered'
  BY <1>2 DEF BackupStep, StartBackup, Connect, Reconnect, GiveUp, SendBackup,
              SendFails, PoolThread, PoolSpurious, failVars
<1>3. CASE DeletePool \/ DeletePoolStep \/ RealFlush \/ CloseLogger
  BY <1>3 DEF DeletePool, DeletePoolStep, RealFlush, CloseLogger, failVars
<1>4. CASE ServerAppend \/ ServerCrash \/ ServerStart
  BY <1>4 DEF ServerAppend, ServerCrash, ServerStart, failVars
<1>5. CASE UNCHANGED vars
  BY <1>5 DEF vars, failVars
<1> QED
  BY <1>1, <1>2, <1>3, <1>4, <1>5 DEF Next

SockTypes ==
  /\ pcB \in [Workers -> {"none", "connect", "write"}]
  /\ sock \in [Workers -> {"none", "open", "connected", "reset"}]

LEMMA SockTypesStep == SockTypes /\ [Next]_vars => SockTypes'
<1> SUFFICES ASSUME SockTypes, [Next]_vars PROVE SockTypes'
  OBVIOUS
<1> USE DEF SockTypes
<1>1. ASSUME NEW c \in Callers, LogCall(c) \/ LogStep(c) PROVE SockTypes'
  BY <1>1 DEF LogCall, LogLocal, LogRemote, LogRemoteRefused, LogStep, NotifyPool,
              BackupEnded, PushToBuffer, backupVars
<1>2. ASSUME NEW w \in Workers, PoolThread(w) \/ PoolSpurious(w) PROVE SockTypes'
  BY <1>2 DEF PoolThread, PoolSpurious, backupVars
<1>3. ASSUME NEW w \in Workers, StartBackup(w) \/ Connect(w) \/ Reconnect(w)
      PROVE  SockTypes'
  BY <1>3 DEF StartBackup, Connect, Reconnect
<1>4. ASSUME NEW w \in Workers, GiveUp(w) \/ SendBackup(w) \/ SendFails(w)
      PROVE  SockTypes'
  BY <1>4 DEF GiveUp, SendBackup, SendFails, BackupReturns
<1>5. CASE DeletePool \/ DeletePoolStep \/ RealFlush \/ CloseLogger
  BY <1>5 DEF DeletePool, DeletePoolStep, RealFlush, CloseLogger, backupVars
<1>6. CASE ServerAppend \/ ServerCrash \/ ServerStart
  BY <1>6 DEF ServerAppend, ServerCrash, ServerStart, backupVars
<1>7. CASE UNCHANGED vars
  BY <1>7 DEF vars, backupVars
<1> QED
  BY <1>1, <1>2, <1>3, <1>4, <1>5, <1>6, <1>7 DEF Next, BackupStep

LEMMA UnhinderedStep ==
  PoolTypeOK /\ SockTypes /\ UnhinderedInv /\ [Next]_vars => UnhinderedInv'
<1> SUFFICES ASSUME PoolTypeOK, SockTypes, UnhinderedInv, [Next]_vars
             PROVE  UnhinderedInv'
  OBVIOUS
<1>t. /\ pcB \in [Workers -> {"none", "connect", "write"}]
      /\ sock \in [Workers -> {"none", "open", "connected", "reset"}]
      /\ task \in [Workers -> Task \cup {NoTask}]
      /\ pcW \in [Workers -> {"lock", "sleep", "run", "exit"}]
  BY DEF SockTypes, PoolTypeOK
<1>h. hindered \subseteq hindered'
  BY HinderedGrows
<1>a. ASSUME UNCHANGED <<pcB, sock, task, serverUp>>,
             \A w \in Workers : pcW'[w] = "run" => pcW[w] = "run"
      PROVE  UnhinderedInv'
  BY <1>a, <1>h DEF UnhinderedInv
(* A step of one pool thread's start_backup leaves the others alone.        *)
<1>b. ASSUME NEW w \in Workers, UNCHANGED serverUp,
             \A v \in Workers : v # w => /\ pcB'[v] = pcB[v] /\ sock'[v] = sock[v]
                                         /\ task'[v] = task[v] /\ pcW'[v] = pcW[v],
             pcW'[w] = "run" /\ task'[w] \notin hindered' =>
               serverUp /\ sock'[w] = IF pcB'[w] = "connect" THEN "open" ELSE "connected"
      PROVE  UnhinderedInv'
  BY <1>b, <1>h DEF UnhinderedInv
<1>1. ASSUME NEW c \in Callers, LogCall(c) \/ LogStep(c) PROVE UnhinderedInv'
  <2>1. UNCHANGED <<pcB, sock, serverUp>>
    BY <1>1 DEF LogCall, LogLocal, LogRemote, LogRemoteRefused, LogStep, NotifyPool,
                BackupEnded, PushToBuffer, backupVars, serverVars
  <2>2. UNCHANGED task /\ \A w \in Workers : pcW'[w] = "run" => pcW[w] = "run"
    BY <1>1, <1>t DEF LogCall, LogLocal, LogRemote, LogRemoteRefused, LogStep,
                      NotifyPool, BackupEnded, PushToBuffer, Enqueue, EnqueueThrows,
                      EnqueueNotify, WakeOneWorker, Sleepers, Get, poolVars
  <2> QED
    BY <1>a, <2>1, <2>2
<1>2. ASSUME NEW w \in Workers, PoolThread(w) \/ PoolSpurious(w) PROVE UnhinderedInv'
  BY <1>2, <1>a, <1>t DEF PoolThread, PoolSpurious, WorkerSleep, WorkerExit, Spurious,
                          backupVars, serverVars
<1>3. ASSUME NEW w \in Workers, StartBackup(w) PROVE UnhinderedInv'
  <2>1. /\ pcB'[w] = "connect" /\ task'[w] = Head(tasks) /\ UNCHANGED serverUp
        /\ \A v \in Workers : v # w => /\ pcB'[v] = pcB[v] /\ sock'[v] = sock[v]
                                       /\ task'[v] = task[v] /\ pcW'[v] = pcW[v]
    BY <1>3, <1>t DEF StartBackup, WorkerTake, serverVars
  <2>2. task'[w] \notin hindered' => serverUp /\ sock'[w] = "open"
    BY <1>3, <1>t, <2>1 DEF StartBackup
  <2> QED
    BY <1>b, <2>1, <2>2
<1>4. ASSUME NEW w \in Workers, Connect(w) PROVE UnhinderedInv'
  <2>1. /\ pcB'[w] = "write" /\ sock'[w] = "connected" /\ serverUp
        /\ UNCHANGED <<serverUp, task, pcW>>
        /\ \A v \in Workers : v # w => pcB'[v] = pcB[v] /\ sock'[v] = sock[v]
    BY <1>4, <1>t DEF Connect, serverVars, poolVars
  <2> QED
    BY <1>b, <2>1
<1>5. ASSUME NEW w \in Workers, Reconnect(w) PROVE UnhinderedInv'
  BY <1>5, <1>a DEF Reconnect, serverVars, poolVars
<1>6. ASSUME NEW w \in Workers, GiveUp(w) \/ SendBackup(w) \/ SendFails(w)
      PROVE  UnhinderedInv'
  <2>1. /\ pcW'[w] # "run" /\ UNCHANGED serverUp
        /\ \A v \in Workers : v # w => /\ pcB'[v] = pcB[v] /\ sock'[v] = sock[v]
                                       /\ task'[v] = task[v] /\ pcW'[v] = pcW[v]
    BY <1>6, <1>t DEF GiveUp, SendBackup, SendFails, BackupReturns, WorkerRun,
                      serverVars
  <2> QED
    BY <1>b, <2>1
<1>7. CASE DeletePool \/ DeletePoolStep
  BY <1>7, <1>a, <1>t DEF DeletePool, DeletePoolStep, DtorStop, DtorStep, DtorNotify,
                          DtorJoin, backupVars, serverVars
<1>8. CASE RealFlush \/ CloseLogger
  BY <1>8, <1>a DEF RealFlush, CloseLogger, poolVars, backupVars, serverVars
<1>9. CASE ServerAppend
  BY <1>9, <1>a DEF ServerAppend, poolVars, backupVars
<1>10. CASE ServerCrash
  <2>1. \A w \in Workers : pcW[w] = "run" => task[w] \in hindered'
    BY <1>10 DEF ServerCrash, BeingBackedUp
  <2>2. UNCHANGED <<pcW, task>>
    BY <1>10 DEF ServerCrash, poolVars
  <2> QED
    BY <2>1, <2>2 DEF UnhinderedInv
<1>11. CASE ServerStart
  <2>1. UNCHANGED <<pcB, sock, task, pcW, hindered>> /\ serverUp'
    BY <1>11 DEF ServerStart, poolVars, backupVars, failVars
  <2> QED
    BY <2>1 DEF UnhinderedInv
<1>12. CASE UNCHANGED vars
  BY <1>12, <1>a DEF vars, poolVars, backupVars, serverVars
<1> QED
  BY <1>1, <1>2, <1>3, <1>4, <1>5, <1>6, <1>7, <1>8, <1>9, <1>10, <1>11, <1>12
  DEF Next, BackupStep

LEMMA LossStep ==
  /\ PoolTypeOK /\ RunInv /\ FreshInv /\ ServerTypes
  /\ UnhinderedInv /\ BackedUpUnlessHindered /\ [Next]_vars
  => BackedUpUnlessHindered'
<1> SUFFICES ASSUME PoolTypeOK, RunInv, FreshInv, ServerTypes, UnhinderedInv,
                    BackedUpUnlessHindered, [Next]_vars
             PROVE  BackedUpUnlessHindered'
  OBVIOUS
<1> USE DEF BackedUpUnlessHindered
<1>h. hindered \subseteq hindered'
  BY HinderedGrows
<1>1. CASE UNCHANGED <<finished, serverVars>>
  BY <1>1, <1>h DEF serverVars
<1>2. ASSUME NEW w \in Workers, GiveUp(w) PROVE BackedUpUnlessHindered'
  <2>1. finished' = finished \cup {task[w]} /\ UNCHANGED <<inflight, remote>>
    BY <1>2, Returning DEF GiveUp, serverVars
  <2>2. task[w] \in hindered
    BY <1>2 DEF GiveUp, ConnectFails, BackupReturns, WorkerRun, UnhinderedInv
  <2> QED
    BY <1>h, <2>1, <2>2
<1>3. ASSUME NEW w \in Workers, SendBackup(w) PROVE BackedUpUnlessHindered'
  <2>1. finished' = finished \cup {task[w]} /\ UNCHANGED remote
    BY <1>3, Returning DEF SendBackup
  <2>2. task[w] \in hindered \/ sock[w] = "connected"
    BY <1>3 DEF SendBackup, BackupReturns, WorkerRun, UnhinderedInv
  <2>3. task[w] \in hindered \/ task[w] \in inflight'
    BY <1>3, <2>2 DEF SendBackup, Transmit
  <2>4. inflight \subseteq inflight'
    BY <1>3 DEF SendBackup, Transmit
  <2> QED
    BY <1>h, <2>1, <2>3, <2>4
<1>4. ASSUME NEW w \in Workers, SendFails(w) PROVE BackedUpUnlessHindered'
  <2>1. finished' = finished \cup {task[w]} /\ UNCHANGED <<inflight, remote>>
    BY <1>4, Returning DEF SendFails, serverVars
  <2>2. task[w] \in hindered'
    BY <1>4 DEF SendFails
  <2> QED
    BY <1>h, <2>1, <2>2
<1>5. CASE ServerAppend
  <2>1. PICK t \in inflight :
          /\ inflight' = inflight \ {t}
          /\ Len(remote) \in Nat /\ Len(remote') = Len(remote) + 1
          /\ \A i \in 1 .. Len(remote) : remote'[i] = remote[i]
          /\ remote'[Len(remote) + 1] = t
    BY <1>5, Appending
  <2>2. UNCHANGED finished
    BY <1>5 DEF ServerAppend, poolVars
  <2>3. /\ \A i \in 1 .. Len(remote) : i \in 1 .. Len(remote')
        /\ Len(remote) + 1 \in 1 .. Len(remote')
    BY <2>1
  <2> QED
    BY <1>h, <2>1, <2>2, <2>3
<1>6. CASE ServerCrash
  <2>1. inflight \subseteq hindered' /\ UNCHANGED <<finished, remote>>
    BY <1>6 DEF ServerCrash, poolVars
  <2> QED
    BY <1>h, <2>1
<1>7. CASE ServerStart
  BY <1>7, <1>h DEF ServerStart, poolVars
<1> QED
  BY <1>1, <1>2, <1>3, <1>4, <1>5, <1>6, <1>7, QuietStep

LEMMA ServerInvariant ==
  Spec => [](ServerTypes /\ SentInv)
<1>1. Init => ServerTypes /\ SentInv
  <2>1. << >> \in Seq(Task)
    BY EmptySeq
  <2> SUFFICES ASSUME Init PROVE ServerTypes /\ SentInv
    OBVIOUS
  <2>2. finished = {} /\ inflight = {} /\ remote = << >>
    BY DEF Init, PoolInit
  <2>3. serverUp \in BOOLEAN
    BY DEF Init
  <2>4. ServerTypes
    BY <2>1, <2>2, <2>3 DEF ServerTypes
  <2>5. SentInv
    BY <2>2 DEF SentInv, BackedUpOnce
  <2> QED
    BY <2>4, <2>5
<1>2. PoolTypeOK /\ RunInv /\ FreshInv /\ ServerTypes /\ [Next]_vars => ServerTypes'
  BY ServerTypesStep
<1>3. PoolTypeOK /\ RunInv /\ FreshInv /\ ServerTypes /\ SentInv /\ [Next]_vars => SentInv'
  BY SentStep
<1> QED
  BY <1>1, <1>2, <1>3, LoggerUsesPool, FreshInvariant, PTL DEF Spec

LEMMA UnhinderedInvariant == Spec => [](SockTypes /\ UnhinderedInv)
<1>1. Init => SockTypes /\ UnhinderedInv
  BY DEF Init, PoolInit, SockTypes, UnhinderedInv
<1>2. SockTypes /\ [Next]_vars => SockTypes'
  BY SockTypesStep
<1>3. PoolTypeOK /\ SockTypes /\ UnhinderedInv /\ [Next]_vars => UnhinderedInv'
  BY UnhinderedStep
<1> QED
  BY <1>1, <1>2, <1>3, LoggerUsesPool, FreshInvariant, PTL DEF Spec

(* No message is backed up twice, nor is one in the file still on its way.  *)
THEOREM BackedUpAtMostOnce == Spec => []BackedUpOnce
<1>1. SentInv => BackedUpOnce
  BY DEF SentInv
<1> QED
  BY <1>1, ServerInvariant, PTL

(* A backup that ended is at the server or on its way, unless its own       *)
(* socket() or write() failed, the server was down while it ran, or died    *)
(* with it unread.                                                          *)
THEOREM NoBackupLost == Spec => []BackedUpUnlessHindered
<1>1. Init => BackedUpUnlessHindered
  BY DEF Init, PoolInit, BackedUpUnlessHindered
<1>2. /\ PoolTypeOK /\ RunInv /\ FreshInv /\ ServerTypes
      /\ UnhinderedInv /\ BackedUpUnlessHindered /\ [Next]_vars
      => BackedUpUnlessHindered'
  BY LossStep
<1>3. Spec => [](PoolTypeOK /\ RunInv /\ FreshInv)
  BY LoggerUsesPool, FreshInvariant, PTL
<1> QED
  BY <1>1, <1>2, <1>3, ServerInvariant, UnhinderedInvariant, PTL DEF Spec

-----------------------------------------------------------------------------
(* The local log                                                            *)

(* The messages of a caller in a log are its first n, in order.             *)
InOrder(c, log, n) ==
  /\ \A i \in 1 .. Len(log) : log[i].from = c => log[i].num \in 1 .. n
  /\ \A k \in 1 .. n : \E i \in 1 .. Len(log) : log[i].from = c /\ log[i].num = k
  /\ \A i, j \in 1 .. Len(log) :
       log[i].from = c /\ log[j].from = c /\ i < j => log[i].num < log[j].num

LEMMA AppendOwn ==
  ASSUME NEW c \in Callers, NEW log \in Seq(LogRecord), NEW n \in Nat,
         NEW m \in LogRecord, m.from = c, m.num = n + 1, InOrder(c, log, n)
  PROVE  InOrder(c, Append(log, m), n + 1)
<1> DEFINE new == Append(log, m)
<1>1. /\ Len(new) = Len(log) + 1 /\ Len(log) \in Nat
      /\ \A i \in 1 .. Len(log) : new[i] = log[i]
      /\ new[Len(log) + 1] = m
  BY AppendProperties, LenProperties
<1> HIDE DEF new
<1>2. \A i \in 1 .. Len(new) : i \in 1 .. Len(log) \/ i = Len(log) + 1
  BY <1>1
<1>3. ASSUME NEW i \in 1 .. Len(new), new[i].from = c PROVE new[i].num \in 1 .. n + 1
  <2>1. CASE i \in 1 .. Len(log)
    <3>1. log[i].from = c /\ new[i] = log[i]
      BY <1>1, <1>3, <2>1
    <3>2. log[i].num \in 1 .. n
      BY <2>1, <3>1 DEF InOrder
    <3> QED
      BY <3>1, <3>2
  <2>2. CASE i = Len(log) + 1
    BY <1>1, <2>2
  <2> QED
    BY <1>2, <2>1, <2>2
<1>4. ASSUME NEW k \in 1 .. n + 1
      PROVE  \E i \in 1 .. Len(new) : new[i].from = c /\ new[i].num = k
  <2>1. CASE k = n + 1
    <3>1. Len(log) + 1 \in 1 .. Len(new)
      BY <1>1
    <3> QED
      BY <1>1, <2>1, <3>1
  <2>2. CASE k \in 1 .. n
    <3>1. PICK i \in 1 .. Len(log) : log[i].from = c /\ log[i].num = k
      BY <2>2 DEF InOrder
    <3>2. i \in 1 .. Len(new)
      BY <1>1
    <3> QED
      BY <1>1, <3>1, <3>2
  <2> QED
    BY <2>1, <2>2
<1>5. ASSUME NEW i \in 1 .. Len(new), NEW j \in 1 .. Len(new),
             new[i].from = c, new[j].from = c, i < j
      PROVE  new[i].num < new[j].num
  <2>1. i \in 1 .. Len(log)
    BY <1>1, <1>5
  <2>2. CASE j = Len(log) + 1
    <3>1. log[i].num \in 1 .. n /\ new[i] = log[i]
      BY <1>1, <1>5, <2>1 DEF InOrder
    <3> QED
      BY <1>1, <2>2, <3>1
  <2>3. CASE j \in 1 .. Len(log)
    BY <1>1, <1>5, <2>1, <2>3 DEF InOrder
  <2> QED
    BY <1>2, <2>2, <2>3
<1> QED
  BY <1>3, <1>4, <1>5 DEF InOrder, new

LEMMA AppendOther ==
  ASSUME NEW c \in Callers, NEW log \in Seq(LogRecord), NEW n \in Nat,
         NEW m \in LogRecord, m.from # c, InOrder(c, log, n)
  PROVE  InOrder(c, Append(log, m), n)
<1> DEFINE new == Append(log, m)
<1>1. /\ Len(new) = Len(log) + 1 /\ Len(log) \in Nat
      /\ \A i \in 1 .. Len(log) : new[i] = log[i]
      /\ new[Len(log) + 1] = m
  BY AppendProperties, LenProperties
<1> HIDE DEF new
<1>2. \A i \in 1 .. Len(new) : new[i].from = c => i \in 1 .. Len(log) /\ new[i] = log[i]
  BY <1>1
<1>3. \A i \in 1 .. Len(log) : i \in 1 .. Len(new)
  BY <1>1
<1>4. ASSUME NEW k \in 1 .. n
      PROVE  \E i \in 1 .. Len(new) : new[i].from = c /\ new[i].num = k
  <2>1. PICK i \in 1 .. Len(log) : log[i].from = c /\ log[i].num = k
    BY DEF InOrder
  <2> QED
    BY <1>1, <1>3, <2>1
<1>5. \A i \in 1 .. Len(new) : new[i].from = c => new[i].num \in 1 .. n
  BY <1>2 DEF InOrder
<1>6. \A i, j \in 1 .. Len(new) :
        new[i].from = c /\ new[j].from = c /\ i < j => new[i].num < new[j].num
  BY <1>2 DEF InOrder
<1> QED
  BY <1>4, <1>5, <1>6 DEF InOrder, new

(* How many of its messages a caller has pushed.                            *)
Pushed(pc, m) == IF pc = "idle" THEN m.num ELSE m.num - 1

(* A caller's message is its own; the one it is logging has a number.       *)
CompleteInv ==
  \A c \in Callers :
    /\ msg[c].from = c
    /\ pcL[c] # "idle" => msg[c].num > 0
    /\ InOrder(c, logged, Pushed(pcL[c], msg[c]))

LEMMA CompleteStep ==
  PoolTypeOK /\ LogTypes /\ BackupInv /\ CompleteInv /\ [Next]_vars => CompleteInv'
<1> SUFFICES ASSUME PoolTypeOK, LogTypes, BackupInv, CompleteInv, [Next]_vars
             PROVE  CompleteInv'
  OBVIOUS
<1>t. /\ pcL \in [Callers -> {"idle", "backup", "push"}]
      /\ msg \in [Callers -> LogRecord]
      /\ logged \in Seq(LogRecord)
      /\ \A c \in Callers : msg[c] \in LogRecord /\ msg[c].num \in Nat
  BY DEF LogTypes, LogRecord
<1>a. ASSUME UNCHANGED <<pcL, msg, logged>> PROVE CompleteInv'
  BY <1>a DEF CompleteInv
(* A log call numbers the caller's next message, pushed by a later step.    *)
<1>b. ASSUME NEW c \in Callers, NEW n \in Nat, NewMessage(c, n), UNCHANGED logged,
             NEW pc \in {"backup", "push"}, pcL' = [pcL EXCEPT ![c] = pc]
      PROVE  CompleteInv'
  <2>1. /\ pcL[c] = "idle" /\ pcL'[c] # "idle"
        /\ msg'[c].from = c /\ msg'[c].num = msg[c].num + 1
        /\ \A d \in Callers : d # c => pcL'[d] = pcL[d] /\ msg'[d] = msg[d]
    BY <1>t, <1>b DEF NewMessage
  <2>2. msg'[c].num > 0 /\ Pushed(pcL'[c], msg'[c]) = Pushed(pcL[c], msg[c])
    BY <1>t, <2>1 DEF Pushed
  <2>3. ASSUME NEW d \in Callers
        PROVE  /\ msg'[d].from = d
               /\ pcL'[d] # "idle" => msg'[d].num > 0
               /\ InOrder(d, logged', Pushed(pcL'[d], msg'[d]))
    <3>1. CASE d = c
      BY <1>b, <2>1, <2>2, <3>1 DEF CompleteInv
    <3>2. CASE d # c
      BY <1>b, <2>1, <3>2 DEF CompleteInv
    <3> QED
      BY <3>1, <3>2
  <2> QED
    BY <2>3 DEF CompleteInv
<1>1. ASSUME NEW c \in Callers, LogCall(c) PROVE CompleteInv'
  <2>1. CASE LogLocal(c)
    BY <1>b, <2>1 DEF LogLocal, localVars
  <2>2. CASE LogRemote(c)
    <3>1. calls'[c] \in Nat
      BY <2>2, PoolConfig DEF LogRemote, Enqueue, PoolTypeOK
    <3> QED
      BY <1>b, <2>2, <3>1 DEF LogRemote, localVars
  <2>3. CASE LogRemoteRefused(c)
    <3>1. calls'[c] \in Nat
      BY <2>3, PoolConfig DEF LogRemoteRefused, EnqueueThrows, PoolTypeOK
    <3> QED
      BY <1>b, <2>3, <3>1 DEF LogRemoteRefused, localVars
  <2> QED
    BY <1>1, <2>1, <2>2, <2>3 DEF LogCall
<1>2. ASSUME NEW c \in Callers, NotifyPool(c) PROVE CompleteInv'
  BY <1>2, <1>a DEF NotifyPool, localVars
<1>3. ASSUME NEW c \in Callers, BackupEnded(c) PROVE CompleteInv'
  <2>1. pcL[c] = "backup"
    BY <1>3 DEF BackupEnded, Get, BackupInv
  <2>2. /\ pcL' = [pcL EXCEPT ![c] = "push"] /\ UNCHANGED <<msg, logged>>
    BY <1>3 DEF BackupEnded, localVars
  <2>3. \A d \in Callers : /\ pcL'[d] # "idle" <=> pcL[d] # "idle"
                           /\ Pushed(pcL'[d], msg[d]) = Pushed(pcL[d], msg[d])
    BY <1>t, <2>1, <2>2 DEF Pushed
  <2> QED
    BY <2>2, <2>3 DEF CompleteInv
<1>4. ASSUME NEW c \in Callers, PushToBuffer(c) PROVE CompleteInv'
  <2>1. /\ pcL[c] = "push" /\ pcL'[c] = "idle" /\ msg' = msg
        /\ \A d \in Callers : d # c => pcL'[d] = pcL[d]
        /\ logged' = Append(logged, msg[c])
    BY <1>4, <1>t DEF PushToBuffer, Local!Accept
  <2>2. /\ msg[c].from = c /\ msg[c].num > 0
        /\ InOrder(c, logged, msg[c].num - 1)
    BY <2>1 DEF CompleteInv, Pushed
  <2>3. ASSUME NEW d \in Callers
        PROVE  /\ msg'[d].from = d
               /\ pcL'[d] # "idle" => msg'[d].num > 0
               /\ InOrder(d, logged', Pushed(pcL'[d], msg'[d]))
    <3>1. CASE d = c
      <4>1. msg[c].num - 1 \in Nat /\ msg[c].num = (msg[c].num - 1) + 1
        BY <1>t, <2>2
      <4>2. InOrder(c, Append(logged, msg[c]), (msg[c].num - 1) + 1)
        BY <1>t, <2>2, <4>1, AppendOwn
      <4>3. Pushed(pcL'[c], msg'[c]) = msg[c].num
        BY <2>1 DEF Pushed
      <4>4. InOrder(c, logged', Pushed(pcL'[c], msg'[c]))
        BY <2>1, <4>1, <4>2, <4>3
      <4> QED
        BY <2>1, <2>2, <3>1, <4>4
    <3>2. CASE d # c
      <4>1. /\ InOrder(d, logged, Pushed(pcL[d], msg[d])) /\ msg[d].from = d
            /\ pcL[d] # "idle" => msg[d].num > 0
        BY DEF CompleteInv
      <4>2. Pushed(pcL[d], msg[d]) \in Nat
        BY <1>t, <4>1 DEF Pushed
      <4>3. InOrder(d, Append(logged, msg[c]), Pushed(pcL[d], msg[d]))
        BY <1>t, <2>2, <3>2, <4>1, <4>2, AppendOther
      <4> QED
        BY <2>1, <3>2, <4>1, <4>3
    <3> QED
      BY <3>1, <3>2
  <2> QED
    BY <2>3 DEF CompleteInv
<1>5. ASSUME NEW w \in Workers, BackupStep(w) \/ PoolSpurious(w) PROVE CompleteInv'
  BY <1>5, <1>a DEF BackupStep, StartBackup, Connect, Reconnect, GiveUp, SendBackup,
                    SendFails, PoolThread, PoolSpurious, localVars
<1>6. CASE DeletePool \/ DeletePoolStep
  BY <1>6, <1>a DEF DeletePool, DeletePoolStep, localVars
<1>7. CASE RealFlush \/ CloseLogger
  BY <1>7, <1>a DEF RealFlush, CloseLogger, Local!Flush, Local!Close
<1>8. CASE ServerAppend \/ ServerCrash \/ ServerStart
  BY <1>8, <1>a DEF ServerAppend, ServerCrash, ServerStart, localVars
<1>9. CASE UNCHANGED vars
  BY <1>9, <1>a DEF vars, localVars
<1> QED
  BY <1>1, <1>2, <1>3, <1>4, <1>5, <1>6, <1>7, <1>8, <1>9 DEF Next, LogStep

LEMMA CompleteInvariant == Spec => [](LogTypes /\ CompleteInv)
<1>1. Init => CompleteInv
  <2> SUFFICES ASSUME Init PROVE CompleteInv
    OBVIOUS
  <2>1. /\ \A c \in Callers : pcL[c] = "idle" /\ msg[c].from = c /\ msg[c].num = 0
        /\ logged = << >>
    BY DEF Init, Local!ChanInit
  <2> QED
    BY <2>1 DEF CompleteInv, Pushed, InOrder
<1>2. PoolTypeOK /\ LogTypes /\ BackupInv /\ CompleteInv /\ [Next]_vars => CompleteInv'
  BY CompleteStep
<1> QED
  BY <1>1, <1>2, BackupInvariant, PTL DEF Spec

(* Each caller's log calls are all in the local log, once each and in the   *)
(* order of the calls, whatever became of their backups.                    *)
THEOREM NoCallLost == Spec => []LocalLogComplete
<1>1. CompleteInv => LocalLogComplete
  BY DEF CompleteInv, LocalLogComplete, Pushed, InOrder
<1> QED
  BY <1>1, CompleteInvariant, PTL

-----------------------------------------------------------------------------
(* Types                                                                    *)

(* A caller has logged no more than the log holds.                          *)
LEMMA FewerThanLogged ==
  ASSUME NEW c \in Callers, NEW log \in Seq(LogRecord), NEW n \in Nat, InOrder(c, log, n)
  PROVE  n <= Len(log)
<1> DEFINE at == [k \in 1 .. n |-> CHOOSE i \in 1 .. Len(log) :
                                     log[i].from = c /\ log[i].num = k]
<1>1. \A k \in 1 .. n : at[k] \in 1 .. Len(log) /\ log[at[k]].num = k
  BY DEF InOrder
<1>2. at \in [1 .. n -> 1 .. Len(log)]
  BY <1>1
<1>3. \A j, k \in 1 .. n : at[j] = at[k] => j = k
  BY <1>1
<1> HIDE DEF at
<1>4. at \in Injection(1 .. n, 1 .. Len(log))
  BY <1>2, <1>3, Fun_IsInj
<1>5. Len(log) \in Nat
  BY LenProperties
<1>6. \A m \in Nat : IsFiniteSet(1 .. m) /\ Cardinality(1 .. m) = m
  BY FS_Interval
<1>7. Cardinality(1 .. n) <= Cardinality(1 .. Len(log))
  BY <1>4, <1>5, <1>6, FS_Injection
<1> QED
  BY <1>5, <1>6, <1>7

Numbered == [from : Callers, num : 0 .. MaxLogs, task : 0 .. MaxCalls]

(* The types of the callers' messages and of the local log.                 *)
LogLimits ==
  /\ msg \in [Callers -> Numbered]
  /\ Local!ChanTypeOK

LEMMA LogLimitsStep ==
  /\ PoolTypeOK /\ LogTypes /\ CompleteInv /\ LogLimits /\ [Next]_vars
  => LogLimits'
<1> SUFFICES ASSUME PoolTypeOK, LogTypes, CompleteInv, LogLimits, [Next]_vars
             PROVE  LogLimits'
  OBVIOUS
<1>t. /\ msg \in [Callers -> Numbered]
      /\ logged \in Seq(Message) /\ written \in Seq(Message) /\ closed \in BOOLEAN
      /\ logged \in Seq(LogRecord)
      /\ Len(logged) \in Nat /\ Len(written) \in Nat
  BY LenProperties DEF LogLimits, Local!ChanTypeOK, LogTypes
<1>a. ASSUME UNCHANGED <<msg, localVars>> PROVE LogLimits'
  BY <1>a DEF LogLimits, Local!ChanTypeOK, localVars
<1>b. ASSUME NEW c \in Callers, NEW n \in 0 .. MaxCalls, NewMessage(c, n),
             UNCHANGED localVars
      PROVE  LogLimits'
  <2> DEFINE busy == {k \in Callers : pcL[k] # "idle"}
  <2>1. Cardinality(busy) \in Nat
    BY PoolConfig, FS_Subset, FS_CardinalityType
  <2>2. Len(logged) + Cardinality(busy) < MaxLogs /\ pcL[c] = "idle"
    BY <1>b DEF NewMessage
  <2> HIDE DEF busy
  <2>3. msg[c].num \in Nat /\ InOrder(c, logged, msg[c].num)
    BY <2>2 DEF CompleteInv, Pushed, LogTypes, LogRecord
  <2>4. msg[c].num <= Len(logged)
    BY <1>t, <2>3, FewerThanLogged
  <2>5. msg[c].num + 1 \in 0 .. MaxLogs
    BY <1>t, <2>1, <2>2, <2>3, <2>4, LoggerConfig
  <2>6. [from |-> c, num |-> msg[c].num + 1, task |-> n] \in Numbered
    BY <2>5 DEF Numbered
  <2>7. msg' \in [Callers -> Numbered]
    BY <1>b, <1>t, <2>6 DEF NewMessage
  <2> QED
    BY <1>b, <1>t, <2>7 DEF LogLimits, Local!ChanTypeOK, localVars
<1>1. ASSUME NEW c \in Callers, LogCall(c) PROVE LogLimits'
  <2>1. CASE LogLocal(c)
    BY <1>b, <2>1, PoolConfig DEF LogLocal
  <2>2. CASE LogRemote(c)
    <3>1. calls'[c] \in 0 .. MaxCalls
      BY <2>2, PoolConfig DEF LogRemote, Enqueue, PoolTypeOK
    <3> QED
      BY <1>b, <2>2, <3>1 DEF LogRemote
  <2>3. CASE LogRemoteRefused(c)
    <3>1. calls'[c] \in 0 .. MaxCalls
      BY <2>3, PoolConfig DEF LogRemoteRefused, EnqueueThrows, PoolTypeOK
    <3> QED
      BY <1>b, <2>3, <3>1 DEF LogRemoteRefused
  <2> QED
    BY <1>1, <2>1, <2>2, <2>3 DEF LogCall
<1>2. ASSUME NEW c \in Callers, NotifyPool(c) \/ BackupEnded(c) PROVE LogLimits'
  BY <1>2, <1>a DEF NotifyPool, BackupEnded
<1>3. ASSUME NEW c \in Callers, PushToBuffer(c) PROVE LogLimits'
  <2>1. /\ logged' = Append(logged, msg[c]) /\ UNCHANGED <<msg, written, closed>>
        /\ pcL[c] = "push"
    BY <1>3 DEF PushToBuffer, Local!Accept
  <2>2. msg[c].num > 0
    BY <2>1 DEF CompleteInv
  <2>3. msg[c] \in Message
    BY <1>t, <2>2, LoggerConfig DEF Numbered, Message
  <2>4. logged' \in Seq(Message)
    BY <1>t, <2>1, <2>3, AppendProperties
  <2> QED
    BY <1>t, <2>1, <2>4 DEF LogLimits, Local!ChanTypeOK
<1>4. ASSUME NEW w \in Workers, BackupStep(w) \/ PoolSpurious(w) PROVE LogLimits'
  BY <1>4, <1>a DEF BackupStep, StartBackup, Connect, Reconnect, GiveUp, SendBackup,
                    SendFails, PoolThread, PoolSpurious
<1>5. CASE DeletePool \/ DeletePoolStep
  BY <1>5, <1>a DEF DeletePool, DeletePoolStep
<1>6. CASE RealFlush
  <2>1. PICK n \in (Len(written) + 1) .. Len(logged) : written' = SubSeq(logged, 1, n)
    BY <1>6 DEF RealFlush, Local!Flush
  <2>2. n \in 1 .. Len(logged) + 1 /\ n <= Len(logged)
    BY <1>t, <2>1
  <2>3. \A i \in 1 .. n : logged[i] \in Message
    BY <1>t, <2>2, ElementOfSeq
  <2>4. written' \in Seq(Message)
    BY <1>t, <2>1, <2>2, <2>3, SubSeqProperties
  <2> QED
    BY <1>6, <1>t, <2>4 DEF RealFlush, Local!Flush, LogLimits, Local!ChanTypeOK
<1>7. CASE CloseLogger
  BY <1>7, <1>t DEF CloseLogger, Local!Close, LogLimits, Local!ChanTypeOK
<1>8. CASE ServerAppend \/ ServerCrash \/ ServerStart
  BY <1>8, <1>a DEF ServerAppend, ServerCrash, ServerStart
<1>9. CASE UNCHANGED vars
  BY <1>9, <1>a DEF vars
<1> QED
  BY <1>1, <1>2, <1>3, <1>4, <1>5, <1>6, <1>7, <1>8, <1>9 DEF Next, LogStep

(* The types of start_backup's variables.                                   *)
ClientTypes ==
  /\ pcB \in [Workers -> {"none", "connect", "write"}]
  /\ cnt \in [Workers -> 0 .. Retries]
  /\ seconds \in [Workers -> Nat]

(* What the failures are counted and recorded in.                           *)
FailTypes ==
  /\ faults \in 0 .. MaxFaults
  /\ hindered \subseteq Task

(* While it connects it has slept 1 + 2 + 4 ... seconds, one term for each  *)
(* attempt.                                                                 *)
Patient ==
  \A w \in Workers :
    pcB[w] = "connect" => seconds[w] = 2 ^ (Retries - cnt[w]) - 1

(* The powers of two up to the first sleep that start_backup's 5 attempts   *)
(* do not reach; the provers evaluate them one by one.                      *)
LEMMA Powers ==
  /\ 2 ^ 0 = 1
  /\ \A k \in 0 .. 5 : 2 ^ k \in Nat
  /\ \A k \in 0 .. 4 : 2 ^ (k + 1) = 2 * 2 ^ k
<1>1. 2 ^ 0 = 1 /\ 2 ^ 1 = 2 /\ 2 ^ 2 = 4 /\ 2 ^ 3 = 8
  OBVIOUS
<1>2. 2 ^ 4 = 16 /\ 2 ^ 5 = 32
  OBVIOUS
<1>3. ASSUME NEW k \in 0 .. 4
      PROVE  2 ^ k \in Nat /\ 2 ^ (k + 1) \in Nat /\ 2 ^ (k + 1) = 2 * 2 ^ k
  <2>1. CASE k = 0
    BY <1>1, <1>2, <2>1
  <2>2. CASE k = 1
    BY <1>1, <1>2, <2>2
  <2>3. CASE k = 2
    BY <1>1, <1>2, <2>3
  <2>4. CASE k = 3
    BY <1>1, <1>2, <2>4
  <2>5. CASE k = 4
    BY <1>1, <1>2, <2>5
  <2> QED
    BY <2>1, <2>2, <2>3, <2>4, <2>5
<1>4. 2 ^ 5 \in Nat
  BY <1>2
<1>5. ASSUME NEW k \in 0 .. 5 PROVE 2 ^ k \in Nat
  <2>1. k \in 0 .. 4 \/ k = 5
    OBVIOUS
  <2> QED
    BY <1>3, <1>4, <2>1
<1> QED
  BY <1>1, <1>3, <1>5

LEMMA ClientTypesStep ==
  Retries <= 5 /\ ClientTypes /\ [Next]_vars => ClientTypes'
<1> SUFFICES ASSUME Retries <= 5, ClientTypes, [Next]_vars PROVE ClientTypes'
  OBVIOUS
<1> USE LoggerConfig DEF ClientTypes
<1>a. ASSUME UNCHANGED backupVars PROVE ClientTypes'
  BY <1>a DEF backupVars
<1>1. ASSUME NEW c \in Callers, LogCall(c) \/ LogStep(c) PROVE ClientTypes'
  BY <1>1, <1>a DEF LogCall, LogLocal, LogRemote, LogRemoteRefused, LogStep, NotifyPool,
                    BackupEnded, PushToBuffer
<1>2. ASSUME NEW w \in Workers, PoolThread(w) \/ PoolSpurious(w) PROVE ClientTypes'
  BY <1>2, <1>a DEF PoolThread, PoolSpurious
<1>3. ASSUME NEW w \in Workers, StartBackup(w) PROVE ClientTypes'
  BY <1>3 DEF StartBackup
<1>4. ASSUME NEW w \in Workers, Connect(w) PROVE ClientTypes'
  BY <1>4 DEF Connect
<1>5. ASSUME NEW w \in Workers, Reconnect(w) PROVE ClientTypes'
  <2>1. cnt[w] \in 1 .. Retries /\ Retries - cnt[w] \in 0 .. 5
    BY <1>5 DEF Reconnect
  <2>2. 2 ^ (Retries - cnt[w]) \in Nat /\ seconds[w] \in Nat
    BY <2>1, Powers
  <2>3. seconds[w] + 2 ^ (Retries - cnt[w]) \in Nat
    BY <2>2
  <2>4. seconds' \in [Workers -> Nat] /\ cnt' \in [Workers -> 0 .. Retries]
    BY <1>5, <2>1, <2>3 DEF Reconnect
  <2> QED
    BY <1>5, <2>4 DEF Reconnect
<1>6. ASSUME NEW w \in Workers, GiveUp(w) \/ SendBackup(w) \/ SendFails(w)
      PROVE  ClientTypes'
  BY <1>6 DEF GiveUp, SendBackup, SendFails, BackupReturns
<1>7. CASE DeletePool \/ DeletePoolStep
  BY <1>7, <1>a DEF DeletePool, DeletePoolStep
<1>8. CASE RealFlush \/ CloseLogger
  BY <1>8, <1>a DEF RealFlush, CloseLogger
<1>9. CASE ServerAppend \/ ServerCrash \/ ServerStart
  BY <1>9 DEF ServerAppend, ServerCrash, ServerStart, backupVars
<1>10. CASE UNCHANGED vars
  BY <1>10, <1>a DEF vars
<1> QED
  BY <1>1, <1>2, <1>3, <1>4, <1>5, <1>6, <1>7, <1>8, <1>9, <1>10 DEF Next, BackupStep

LEMMA PatientStep ==
  Retries <= 5 /\ ClientTypes /\ Patient /\ [Next]_vars => Patient'
<1> SUFFICES ASSUME Retries <= 5, ClientTypes, Patient, [Next]_vars PROVE Patient'
  OBVIOUS
<1>t. /\ pcB \in [Workers -> {"none", "connect", "write"}]
      /\ cnt \in [Workers -> 0 .. Retries]
      /\ seconds \in [Workers -> Nat]
  BY DEF ClientTypes
<1>a. ASSUME UNCHANGED <<pcB, cnt, seconds>> PROVE Patient'
  BY <1>a DEF Patient
<1>b. ASSUME NEW w \in Workers,
             pcB'[w] = "connect" => seconds'[w] = 2 ^ (Retries - cnt'[w]) - 1,
             \A v \in Workers : v # w => /\ pcB'[v] = pcB[v] /\ cnt'[v] = cnt[v]
                                         /\ seconds'[v] = seconds[v]
      PROVE  Patient'
  BY <1>b DEF Patient
<1>1. ASSUME NEW c \in Callers, LogCall(c) \/ LogStep(c) PROVE Patient'
  BY <1>1, <1>a DEF LogCall, LogLocal, LogRemote, LogRemoteRefused, LogStep, NotifyPool,
                    BackupEnded, PushToBuffer, backupVars
<1>2. ASSUME NEW w \in Workers, PoolThread(w) \/ PoolSpurious(w) PROVE Patient'
  BY <1>2, <1>a DEF PoolThread, PoolSpurious, backupVars
<1>3. ASSUME NEW w \in Workers, StartBackup(w) PROVE Patient'
  <2>1. /\ seconds'[w] = 0 /\ cnt'[w] = Retries
        /\ \A v \in Workers : v # w => /\ pcB'[v] = pcB[v] /\ cnt'[v] = cnt[v]
                                       /\ seconds'[v] = seconds[v]
    BY <1>3, <1>t DEF StartBackup
  <2>2. Retries - Retries = 0
    BY LoggerConfig
  <2>3. 2 ^ (Retries - cnt'[w]) = 1
    BY <2>1, <2>2, Powers
  <2>4. seconds'[w] = 2 ^ (Retries - cnt'[w]) - 1
    BY <2>1, <2>3
  <2> QED
    BY <1>b, <2>1, <2>4
<1>4. ASSUME NEW w \in Workers, Connect(w) PROVE Patient'
  <2>1. /\ pcB'[w] = "write" /\ UNCHANGED <<cnt, seconds>>
        /\ \A v \in Workers : v # w => pcB'[v] = pcB[v]
    BY <1>4, <1>t DEF Connect
  <2> QED
    BY <1>b, <2>1
<1>5. ASSUME NEW w \in Workers, Reconnect(w) PROVE Patient'
  <2>1. /\ cnt[w] \in 1 .. Retries /\ Retries - cnt[w] \in 0 .. 4
        /\ Retries - (cnt[w] - 1) = (Retries - cnt[w]) + 1
    BY <1>5, <1>t, LoggerConfig DEF Reconnect
  <2>2. /\ seconds'[w] = seconds[w] + 2 ^ (Retries - cnt[w]) /\ cnt'[w] = cnt[w] - 1
        /\ \A v \in Workers : v # w => /\ pcB'[v] = pcB[v] /\ cnt'[v] = cnt[v]
                                       /\ seconds'[v] = seconds[v]
    BY <1>5, <1>t DEF Reconnect
  <2>3. seconds[w] = 2 ^ (Retries - cnt[w]) - 1
    BY <1>5 DEF Reconnect, ConnectFails, Patient
  <2>4. ASSUME NEW k \in 0 .. 4, seconds[w] = 2 ^ k - 1
        PROVE  seconds[w] + 2 ^ k = 2 ^ (k + 1) - 1
    <3>1. k \in 0 .. 5
      OBVIOUS
    <3>2. 2 ^ k \in Nat
      BY <3>1, Powers
    <3>3. 2 ^ (k + 1) = 2 * 2 ^ k
      BY Powers
    <3> QED
      BY <2>4, <3>2, <3>3
  <2>5. seconds[w] + 2 ^ (Retries - cnt[w]) = 2 ^ ((Retries - cnt[w]) + 1) - 1
    BY <2>1, <2>3, <2>4
  <2>6. seconds'[w] = 2 ^ (Retries - cnt'[w]) - 1
    BY <2>1, <2>2, <2>5
  <2> QED
    BY <1>b, <2>2, <2>6
<1>6. ASSUME NEW w \in Workers, GiveUp(w) \/ SendBackup(w) \/ SendFails(w)
      PROVE  Patient'
  <2>1. /\ pcB'[w] = "none"
        /\ \A v \in Workers : v # w => /\ pcB'[v] = pcB[v] /\ cnt'[v] = cnt[v]
                                       /\ seconds'[v] = seconds[v]
    BY <1>6, <1>t DEF GiveUp, SendBackup, SendFails, BackupReturns
  <2> QED
    BY <1>b, <2>1
<1>7. CASE DeletePool \/ DeletePoolStep
  BY <1>7, <1>a DEF DeletePool, DeletePoolStep, backupVars
<1>8. CASE RealFlush \/ CloseLogger
  BY <1>8, <1>a DEF RealFlush, CloseLogger, backupVars
<1>9. CASE ServerAppend \/ ServerCrash \/ ServerStart
  BY <1>9, <1>a DEF ServerAppend, ServerCrash, ServerStart, backupVars
<1>10. CASE UNCHANGED vars
  BY <1>10, <1>a DEF vars, backupVars
<1> QED
  BY <1>1, <1>2, <1>3, <1>4, <1>5, <1>6, <1>7, <1>8, <1>9, <1>10 DEF Next, BackupStep

LEMMA ClientInvariant ==
  ASSUME Retries <= 5
  PROVE  Spec => [](ClientTypes /\ Patient)
<1>1. Init => ClientTypes /\ Patient
  <2> SUFFICES ASSUME Init PROVE ClientTypes /\ Patient
    OBVIOUS
  <2>1. /\ pcB = [w \in Workers |-> "none"] /\ cnt = [w \in Workers |-> 0]
        /\ seconds = [w \in Workers |-> 0]
    BY DEF Init
  <2>2. cnt \in [Workers -> 0 .. Retries] /\ seconds \in [Workers -> Nat]
    BY <2>1, LoggerConfig
  <2> QED
    BY <2>1, <2>2 DEF ClientTypes, Patient
<1>2. ClientTypes /\ [Next]_vars => ClientTypes'
  BY ClientTypesStep
<1>3. ClientTypes /\ Patient /\ [Next]_vars => Patient'
  BY PatientStep
<1> QED
  BY <1>1, <1>2, <1>3, PTL DEF Spec

LEMMA FailTypesStep == PoolTypeOK /\ ServerTypes /\ FailTypes /\ [Next]_vars => FailTypes'
<1> SUFFICES ASSUME PoolTypeOK, ServerTypes, FailTypes, [Next]_vars PROVE FailTypes'
  OBVIOUS
<1> USE LoggerConfig DEF FailTypes
<1>a. ASSUME UNCHANGED failVars PROVE FailTypes'
  BY <1>a DEF failVars
<1>1. ASSUME NEW c \in Callers, LogCall(c) \/ LogStep(c) PROVE FailTypes'
  BY <1>1, <1>a DEF LogCall, LogLocal, LogRemote, LogRemoteRefused, LogStep, NotifyPool,
                    BackupEnded, PushToBuffer
<1>2. ASSUME NEW w \in Workers, StartBackup(w) PROVE FailTypes'
  <2>1. Head(tasks) \in Task
    BY <1>2, HeadTailProperties DEF StartBackup, WorkerTake, PoolTypeOK
  <2> QED
    BY <1>2, <2>1 DEF StartBackup, Fault
<1>3. ASSUME NEW w \in Workers,
             Connect(w) \/ Reconnect(w) \/ GiveUp(w) \/ SendBackup(w)
               \/ PoolThread(w) \/ PoolSpurious(w)
      PROVE  FailTypes'
  BY <1>3, <1>a DEF Connect, Reconnect, GiveUp, SendBackup, PoolThread, PoolSpurious
<1>4. ASSUME NEW w \in Workers, SendFails(w) PROVE FailTypes'
  <2>1. task[w] \in Task
    BY <1>4 DEF SendFails, BackupReturns, WorkerRun, PoolTypeOK
  <2> QED
    BY <1>4, <2>1 DEF SendFails, Fault
<1>5. CASE DeletePool \/ DeletePoolStep \/ RealFlush \/ CloseLogger
  BY <1>5, <1>a DEF DeletePool, DeletePoolStep, RealFlush, CloseLogger
<1>6. CASE ServerAppend \/ ServerStart
  BY <1>6, <1>a DEF ServerAppend, ServerStart
<1>7. CASE ServerCrash
  <2>1. BeingBackedUp \subseteq Task
    BY DEF BeingBackedUp, PoolTypeOK
  <2> QED
    BY <1>7, <2>1 DEF ServerCrash, ServerTypes
<1>8. CASE UNCHANGED vars
  BY <1>8, <1>a DEF vars
<1> QED
  BY <1>1, <1>2, <1>3, <1>4, <1>5, <1>6, <1>7, <1>8 DEF Next, BackupStep

LEMMA LogLimitsInvariant == Spec => []LogLimits
<1>1. Init => LogLimits
  <2> SUFFICES ASSUME Init PROVE LogLimits
    OBVIOUS
  <2>1. \A c \in Callers : [from |-> c, num |-> 0, task |-> 0] \in Numbered
    BY PoolConfig, LoggerConfig DEF Numbered
  <2>2. << >> \in Seq(Message)
    BY EmptySeq
  <2> QED
    BY <2>1, <2>2 DEF Init, Local!ChanInit, Local!ChanTypeOK, LogLimits
<1>2. /\ PoolTypeOK /\ LogTypes /\ CompleteInv /\ LogLimits /\ [Next]_vars
      => LogLimits'
  BY LogLimitsStep
<1> QED
  BY <1>1, <1>2, CompleteInvariant, BackupInvariant, PTL DEF Spec

LEMMA FailTypesInvariant == Spec => []FailTypes
<1>1. Init => FailTypes
  BY LoggerConfig DEF Init, FailTypes
<1>2. PoolTypeOK /\ ServerTypes /\ FailTypes /\ [Next]_vars => FailTypes'
  BY FailTypesStep
<1>3. Spec => []PoolTypeOK
  BY LoggerUsesPool, PoolTypeCorrect, PTL
<1> QED
  BY <1>1, <1>2, <1>3, ServerInvariant, PTL DEF Spec

(* The variables keep their types, for at most the 5 reconnections of the   *)
(* code; in particular the number of log calls stays within the bound.      *)
THEOREM LoggerTypeCorrect ==
  ASSUME Retries <= 5
  PROVE  Spec => []LoggerTypeOK
<1>1. ASSUME PoolTypeOK, LogTypes, LogLimits, ClientTypes, SockTypes, ServerTypes,
             FailTypes
      PROVE  LoggerTypeOK
  BY <1>1 DEF LogTypes, LogLimits, Numbered, ClientTypes, SockTypes, ServerTypes,
              FailTypes, LoggerTypeOK
<1>2. Spec => [](PoolTypeOK /\ LogTypes)
  BY BackupInvariant, PTL
<1>3. Spec => [](LogLimits /\ ClientTypes /\ SockTypes /\ ServerTypes /\ FailTypes)
  BY LogLimitsInvariant, ClientInvariant, UnhinderedInvariant, ServerInvariant,
     FailTypesInvariant, PTL
<1> QED
  BY <1>1, <1>2, <1>3, PTL

(* A backup is given up only after all its reconnections, that is after     *)
(* 1 + 2 + 4 + 8 + 16 seconds with the 5 reconnections of the code.         *)
THEOREM PatientlyGivenUp ==
  ASSUME Retries <= 5
  PROVE  Spec => GivesUpPatiently
<1>1. ASSUME ClientTypes, Patient, [Next]_vars, NEW w \in Workers,
             pcB[w] = "connect", pcB'[w] = "none"
      PROVE  seconds[w] = 2 ^ Retries - 1
  <2>t. /\ pcB \in [Workers -> {"none", "connect", "write"}]
        /\ cnt[w] \in 0 .. Retries
    BY <1>1 DEF ClientTypes
  <2>1. ASSUME pcB'[w] = pcB[w] PROVE FALSE
    BY <1>1, <2>1
  <2>2. ASSUME NEW c \in Callers, LogCall(c) \/ LogStep(c) PROVE FALSE
    BY <2>1, <2>2 DEF LogCall, LogLocal, LogRemote, LogRemoteRefused, LogStep,
                      NotifyPool, BackupEnded, PushToBuffer, backupVars
  <2>3. ASSUME NEW v \in Workers, BackupStep(v) \/ PoolSpurious(v)
        PROVE  GiveUp(w)
    <3>1. CASE PoolThread(v) \/ PoolSpurious(v)
      BY <2>1, <3>1 DEF PoolThread, PoolSpurious, backupVars
    <3>2. CASE Reconnect(v)
      BY <2>1, <3>2 DEF Reconnect
    <3>3. CASE StartBackup(v) \/ Connect(v)
      BY <1>1, <2>t, <3>3 DEF StartBackup, Connect
    <3>4. CASE SendBackup(v) \/ SendFails(v)
      BY <1>1, <2>t, <3>4 DEF SendBackup, SendFails, BackupReturns
    <3>5. CASE GiveUp(v)
      BY <1>1, <2>t, <3>5 DEF GiveUp, BackupReturns
    <3> QED
      BY <2>3, <3>1, <3>2, <3>3, <3>4, <3>5 DEF BackupStep
  <2>4. ASSUME DeletePool \/ DeletePoolStep \/ RealFlush \/ CloseLogger PROVE FALSE
    BY <2>1, <2>4 DEF DeletePool, DeletePoolStep, RealFlush, CloseLogger, backupVars
  <2>5. ASSUME ServerAppend \/ ServerCrash \/ ServerStart PROVE FALSE
    BY <2>1, <2>5 DEF ServerAppend, ServerCrash, ServerStart, backupVars
  <2>6. ASSUME UNCHANGED vars PROVE FALSE
    BY <2>1, <2>6 DEF vars, backupVars
  <2>7. GiveUp(w)
    BY <1>1, <2>2, <2>3, <2>4, <2>5, <2>6 DEF Next
  <2>8. cnt[w] = 0
    BY <2>t, <2>7, LoggerConfig DEF GiveUp
  <2>9. Retries - 0 = Retries
    BY LoggerConfig
  <2> QED
    BY <1>1, <2>8, <2>9 DEF Patient
<1>2. ClientTypes /\ Patient /\ [Next]_vars =>
        [\A w \in Workers :
           pcB[w] = "connect" /\ pcB'[w] = "none" => seconds[w] = 2 ^ Retries - 1]_vars
  BY <1>1
<1> QED
  BY <1>2, ClientInvariant, PTL DEF Spec, GivesUpPatiently

-----------------------------------------------------------------------------
(* The logger and its other parts                                           *)

(* The local log moves as LogChannel allows: what is pushed is a message of *)
(* a caller that stands before PushToBuffer, and nothing is pushed after    *)
(* the logger is closed (AsyncLogger.hpp:140-162).                          *)
THEOREM LoggerUsesChannel == Spec => Local!ChanSafety
<1>1. Init => Local!ChanInit
  BY DEF Init
<1>2. ASSUME LogTypes, CompleteInv, LogLimits, [Next]_vars
      PROVE  Local!ChanNext \/ UNCHANGED localVars
  <2>1. ASSUME NEW c \in Callers, PushToBuffer(c) PROVE \E m \in Message : Local!Accept(m)
    <3>1. msg[c] \in Numbered /\ msg[c].num # 0
      BY <1>2, <2>1 DEF LogLimits, CompleteInv, PushToBuffer
    <3>2. msg[c] \in Message
      BY <3>1, LoggerConfig DEF Numbered, Message
    <3> QED
      BY <2>1, <3>2 DEF PushToBuffer
  <2>2. ASSUME NEW c \in Callers, LogCall(c) \/ LogStep(c), ~PushToBuffer(c)
        PROVE  UNCHANGED localVars
    BY <2>2 DEF LogCall, LogLocal, LogRemote, LogRemoteRefused, LogStep, NotifyPool,
                BackupEnded
  <2>3. ASSUME NEW w \in Workers, BackupStep(w) \/ PoolSpurious(w)
        PROVE  UNCHANGED localVars
    BY <2>3 DEF BackupStep, StartBackup, Connect, Reconnect, GiveUp, SendBackup,
                SendFails, PoolThread, PoolSpurious
  <2>4. CASE DeletePool \/ DeletePoolStep \/ ServerAppend \/ ServerCrash \/ ServerStart
    BY <2>4 DEF DeletePool, DeletePoolStep, ServerAppend, ServerCrash, ServerStart
  <2>5. CASE RealFlush \/ CloseLogger
    BY <2>5 DEF RealFlush, CloseLogger, Local!ChanNext
  <2>6. CASE UNCHANGED vars
    BY <2>6 DEF vars
  <2> QED
    BY <1>2, <2>1, <2>2, <2>3, <2>4, <2>5, <2>6 DEF Next, Local!ChanNext
<1>3. LogTypes /\ CompleteInv /\ LogLimits /\ [Next]_vars => [Local!ChanNext]_(Local!chanVars)
  BY <1>2 DEF localVars, Local!chanVars
<1> QED
  BY <1>1, <1>3, CompleteInvariant, LogLimitsInvariant, PTL DEF Spec, Local!ChanSafety

Remote == INSTANCE BackupStore WITH Messages <- Task, log <- remote

(* The server is used and behaves as BackupStore, which BackupServer is     *)
(* shown to implement: start_backup sends no message that is in flight or   *)
(* stored, and what the server's death loses was in flight.                 *)
THEOREM LoggerUsesStore == Spec => Remote!StoreSpec
<1>1. Init => Remote!StoreInit
  BY DEF Init, Remote!StoreInit
<1>2. ASSUME PoolTypeOK, FreshInv, ServerTypes, SentInv, [Next]_vars
      PROVE  Remote!StoreNext \/ UNCHANGED <<inflight, remote>>
  <2>1. ASSUME NEW w \in Workers, SendBackup(w)
        PROVE  Remote!StoreNext \/ UNCHANGED <<inflight, remote>>
    <3>1. task[w] \in Task /\ task[w] \notin finished
      BY <1>2, <2>1 DEF SendBackup, BackupReturns, WorkerRun, FreshInv, PoolTypeOK
    <3>2. DOMAIN remote = 1 .. Len(remote)
      BY <1>2 DEF ServerTypes
    <3>3. task[w] \notin inflight /\ \A i \in DOMAIN remote : remote[i] # task[w]
      BY <1>2, <3>1, <3>2 DEF SentInv
    <3>4. UNCHANGED inflight \/ inflight' = inflight \cup {task[w]}
      BY <2>1 DEF SendBackup, Transmit
    <3>5. UNCHANGED remote
      BY <2>1 DEF SendBackup
    <3> QED
      BY <3>1, <3>3, <3>4, <3>5 DEF Remote!StoreNext, Remote!Send
  <2>2. CASE ServerAppend
    <3>1. \A t \in inflight : t \in Task
      BY <1>2 DEF ServerTypes
    <3> QED
      BY <2>2, <3>1 DEF ServerAppend, Remote!StoreNext, Remote!Store
  <2>3. CASE ServerCrash
    <3>1. inflight \in SUBSET Task /\ inflight' = inflight \ inflight /\ UNCHANGED remote
      BY <1>2, <2>3 DEF ServerCrash, ServerTypes
    <3> QED
      BY <3>1 DEF Remote!StoreNext, Remote!Lose
  <2>4. CASE ServerStart
    BY <2>4 DEF ServerStart
  <2>5. ASSUME NEW w \in Workers, GiveUp(w) \/ SendFails(w)
        PROVE  UNCHANGED <<inflight, remote>>
    BY <2>5 DEF GiveUp, SendFails, serverVars
  <2> QED
    BY <1>2, <2>1, <2>2, <2>3, <2>4, <2>5, QuietStep DEF serverVars
<1>3. PoolTypeOK /\ FreshInv /\ ServerTypes /\ SentInv /\ [Next]_vars
      => [Remote!StoreNext]_(Remote!storeVars)
  BY <1>2 DEF Remote!storeVars
<1>4. Spec => [](PoolTypeOK /\ FreshInv)
  BY LoggerUsesPool, FreshInvariant, PTL
<1> QED
  BY <1>1, <1>3, <1>4, ServerInvariant, PTL DEF Spec, Remote!StoreSpec
=============================================================================
