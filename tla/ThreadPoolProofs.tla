--------------------------- MODULE ThreadPoolProofs ---------------------------
(***************************************************************************)
(* Theorems about ThreadPool, for any number of workers, callers and tasks. *)
(***************************************************************************)
EXTENDS ThreadPool, SequenceTheorems, FiniteSetTheorems, TLAPS

-----------------------------------------------------------------------------
(* Queues                                                                   *)

(* What Append does, at each index.                                         *)
LEMMA AppendTask ==
  \A s \in Seq(Task), t \in Task :
    /\ Append(s, t) \in Seq(Task)
    /\ Len(Append(s, t)) = Len(s) + 1
    /\ \A i \in 1 .. Len(s) : Append(s, t)[i] = s[i]
    /\ Append(s, t)[Len(s) + 1] = t
BY AppendProperties

(* Appending to a queue appends to what precedes it and the queue.          *)
LEMMA AppendToQueue ==
  \A s, q \in Seq(Task), t \in Task : s \o Append(q, t) = Append(s \o q, t)
<1> SUFFICES ASSUME NEW s \in Seq(Task), NEW q \in Seq(Task), NEW t \in Task
             PROVE  s \o Append(q, t) = Append(s \o q, t)
  OBVIOUS
<1>1. <<t>> \in Seq(Task)
  OBVIOUS
<1>2. s \o q \in Seq(Task)
  BY ConcatProperties
<1>3. Append(q, t) = q \o <<t>> /\ Append(s \o q, t) = (s \o q) \o <<t>>
  BY <1>2, AppendIsConcat
<1>4. (s \o q) \o <<t>> = s \o (q \o <<t>>)
  BY <1>1, ConcatAssociative
<1> QED
  BY <1>3, <1>4

(* Moving the head of a queue to the end of what precedes it.               *)
LEMMA MoveHead ==
  \A s, q \in Seq(Task) :
    q # << >> => /\ Append(s, Head(q)) \o Tail(q) = s \o q
                 /\ Head(q) \in Task
                 /\ Tail(q) \in Seq(Task)
<1> SUFFICES ASSUME NEW s \in Seq(Task), NEW q \in Seq(Task), q # << >>
             PROVE  /\ Append(s, Head(q)) \o Tail(q) = s \o q
                    /\ Head(q) \in Task
                    /\ Tail(q) \in Seq(Task)
  OBVIOUS
<1>1. Head(q) \in Task /\ Tail(q) \in Seq(Task) /\ <<Head(q)>> \in Seq(Task)
  BY HeadTailProperties
<1>2. Append(s, Head(q)) = s \o <<Head(q)>>
  BY <1>1, AppendIsConcat
<1>3. (s \o <<Head(q)>>) \o Tail(q) = s \o (<<Head(q)>> \o Tail(q))
  BY <1>1, ConcatAssociative
<1>4. q = <<Head(q)>> \o Tail(q)
  <2>1. /\ Len(q) \in Nat \ {0}
        /\ \A i \in 1 .. Len(q) : q[i] \in Task
    BY EmptySeq, ElementOfSeq
  <2>2. SubSeq(q, 1, Len(q)) = <<q[1]>> \o SubSeq(q, 1 + 1, Len(q))
    BY <2>1, SubSeqRecursiveFirst, 1 \in 1 .. Len(q), Len(q) \in 1 .. Len(q)
  <2>3. SubSeq(q, 1, Len(q)) = q
    BY SubSeqFull
  <2>4. Tail(q) = SubSeq(q, 2, Len(q))
    BY TailIsSubSeq
  <2>5. Head(q) = q[1]
    OBVIOUS
  <2> QED
    BY <2>2, <2>3, <2>4, <2>5, 1 + 1 = 2
<1> QED
  BY <1>1, <1>2, <1>3, <1>4

-----------------------------------------------------------------------------
(* Types                                                                    *)

LEMMA TypeStep == PoolTypeOK /\ [PoolNext]_poolVars => PoolTypeOK'
<1> SUFFICES ASSUME PoolTypeOK, [PoolNext]_poolVars PROVE PoolTypeOK'
  OBVIOUS
<1> USE DEF PoolTypeOK
<1>1. ASSUME NEW c \in Callers, Enqueue(c) PROVE PoolTypeOK'
  <2>1. calls'[c] \in 1 .. MaxCalls /\ calls' \in [Callers -> 0 .. MaxCalls]
    BY <1>1, PoolConfig DEF Enqueue
  <2>2. CurrentTask(c)' \in Task
    BY <2>1 DEF CurrentTask, Task
  <2>3. tasks' \in Seq(Task) /\ accepted' \in Seq(Task)
    BY <1>1, <2>2, AppendTask DEF Enqueue
  <2> QED
    BY <1>1, <2>1, <2>3 DEF Enqueue
<1>2. ASSUME NEW c \in Callers, EnqueueThrows(c) PROVE PoolTypeOK'
  <2>1. calls' \in [Callers -> 0 .. MaxCalls]
    BY <1>2, PoolConfig DEF EnqueueThrows
  <2> QED
    BY <1>2, <2>1 DEF EnqueueThrows
<1>3. ASSUME NEW c \in Callers, EnqueueNotify(c) PROVE PoolTypeOK'
  <2>1. /\ pcW' \in [Workers -> {"lock", "sleep", "run", "exit"}]
        /\ \A w \in Workers : pcW'[w] = "run" => pcW[w] = "run"
    BY <1>3 DEF EnqueueNotify, WakeOneWorker, Sleepers
  <2> QED
    BY <1>3, <2>1 DEF EnqueueNotify
<1>4. ASSUME NEW c \in Callers, Get(c) PROVE PoolTypeOK'
  BY <1>4 DEF Get
<1>5. ASSUME NEW w \in Workers, WorkerSleep(w) \/ WorkerExit(w) \/ Spurious(w)
      PROVE  PoolTypeOK'
  BY <1>5 DEF WorkerSleep, WorkerExit, Spurious
<1>6. ASSUME NEW w \in Workers, WorkerTake(w) PROVE PoolTypeOK'
  <2>1. Head(tasks) \in Task /\ Tail(tasks) \in Seq(Task)
    BY <1>6, MoveHead DEF WorkerTake
  <2>2. started' \in Seq(Task)
    BY <1>6, <2>1, AppendTask DEF WorkerTake
  <2> QED
    BY <1>6, <2>1, <2>2 DEF WorkerTake
<1>7. ASSUME NEW w \in Workers, WorkerRun(w) PROVE PoolTypeOK'
  BY <1>7 DEF WorkerRun
<1>8. CASE DtorStop \/ DtorJoin
  BY <1>8 DEF DtorStop, DtorJoin
<1>9. CASE DtorNotify
  BY <1>9 DEF DtorNotify
<1>10. CASE UNCHANGED poolVars
  BY <1>10 DEF poolVars
<1> QED
  BY <1>1, <1>2, <1>3, <1>4, <1>5, <1>6, <1>7, <1>8, <1>9, <1>10
  DEF PoolNext, CallerStep, WorkerStep, DtorStep

LEMMA TypeInit == PoolInit => PoolTypeOK
<1> SUFFICES ASSUME PoolInit PROVE PoolTypeOK
  OBVIOUS
<1>1. << >> \in Seq(Task)
  BY EmptySeq
<1>2. pcW \in [Workers -> {"lock"}] /\ \A w \in Workers : pcW[w] # "run"
  BY DEF PoolInit
<1>3. task \in [Workers -> {NoTask}]
  BY DEF PoolInit
<1>4. calls \in [Callers -> 0 .. MaxCalls] /\ pcK \in [Callers -> {"idle"}]
  BY PoolConfig DEF PoolInit
<1>5. /\ isStop = FALSE /\ owner = "run"
      /\ tasks \in Seq(Task) /\ accepted \in Seq(Task) /\ started \in Seq(Task)
      /\ finished = {}
  BY <1>1 DEF PoolInit
<1> QED
  BY <1>2, <1>3, <1>4, <1>5 DEF PoolTypeOK

(* The variables keep their types.                                          *)
THEOREM PoolTypeCorrect == PoolSpec => []PoolTypeOK
BY TypeInit, TypeStep, PTL DEF PoolSpec

-----------------------------------------------------------------------------
(* The queue                                                                *)

(* The queue is what was accepted and has not started; every call makes a   *)
(* task of its own.                                                         *)
QueueInv ==
  /\ StartedInOrder
  /\ \A i \in 1 .. Len(accepted) : accepted[i].num <= calls[accepted[i].from]
  /\ \A i, j \in 1 .. Len(accepted) : accepted[i] = accepted[j] => i = j

LEMMA QueueStep == PoolTypeOK /\ QueueInv /\ [PoolNext]_poolVars => QueueInv'
<1> SUFFICES ASSUME PoolTypeOK, QueueInv, [PoolNext]_poolVars PROVE QueueInv'
  OBVIOUS
<1>a. /\ tasks \in Seq(Task) /\ accepted \in Seq(Task) /\ started \in Seq(Task)
      /\ calls \in [Callers -> 0 .. MaxCalls]
      /\ Len(accepted) \in Nat
      /\ \A i \in 1 .. Len(accepted) :
           accepted[i].num \in Nat /\ accepted[i].from \in Callers
  <2>1. accepted \in Seq(Task)
    BY DEF PoolTypeOK
  <2>2. Len(accepted) \in Nat /\ \A i \in 1 .. Len(accepted) : accepted[i] \in Task
    BY <2>1
  <2>3. \A t \in Task : t.num \in Nat /\ t.from \in Callers
    BY PoolConfig DEF Task
  <2> QED
    BY <2>1, <2>2, <2>3 DEF PoolTypeOK
<1>b. ASSUME UNCHANGED <<tasks, accepted, started, calls>> PROVE QueueInv'
  BY <1>b DEF QueueInv, StartedInOrder
<1>1. ASSUME NEW c \in Callers, Enqueue(c) PROVE QueueInv'
  <2> DEFINE t == CurrentTask(c)'
  <2>1. /\ calls'[c] = calls[c] + 1 /\ calls'[c] \in 1 .. MaxCalls
        /\ \A d \in Callers : d # c => calls'[d] = calls[d]
        /\ calls[c] \in Nat
    BY <1>1, <1>a, PoolConfig DEF Enqueue
  <2>2. t \in Task /\ t.from = c /\ t.num = calls[c] + 1
    BY <2>1 DEF CurrentTask, Task
  <2>3. accepted' = Append(accepted, t) /\ tasks' = Append(tasks, t) /\ UNCHANGED started
    BY <1>1 DEF Enqueue
  <2> HIDE DEF t
  <2>4. /\ Len(accepted') = Len(accepted) + 1
        /\ \A i \in 1 .. Len(accepted) : accepted'[i] = accepted[i]
        /\ accepted'[Len(accepted) + 1] = t
    BY <1>a, <2>2, <2>3, AppendTask
  <2>5. \A i \in 1 .. Len(accepted) : accepted[i] # t
    BY <1>a, <2>1, <2>2 DEF QueueInv
  <2>6. accepted' = started' \o tasks'
    BY <1>a, <2>2, <2>3, AppendToQueue DEF QueueInv, StartedInOrder
  <2>7. \A i \in 1 .. Len(accepted') : accepted'[i].num <= calls'[accepted'[i].from]
    <3> SUFFICES ASSUME NEW i \in 1 .. Len(accepted')
                 PROVE  accepted'[i].num <= calls'[accepted'[i].from]
      OBVIOUS
    <3>1. CASE i = Len(accepted) + 1
      BY <2>1, <2>2, <2>4, <3>1
    <3>2. CASE i \in 1 .. Len(accepted)
      BY <1>a, <2>1, <2>4, <3>2 DEF QueueInv
    <3> QED
      BY <1>a, <2>4, <3>1, <3>2
  <2>8. \A i, j \in 1 .. Len(accepted') : accepted'[i] = accepted'[j] => i = j
    BY <1>a, <2>4, <2>5 DEF QueueInv
  <2> QED
    BY <2>6, <2>7, <2>8 DEF QueueInv, StartedInOrder
<1>2. ASSUME NEW c \in Callers, EnqueueThrows(c) PROVE QueueInv'
  <2>1. \A d \in Callers : calls[d] \in Nat /\ calls'[d] \in Nat /\ calls[d] <= calls'[d]
    BY <1>2, <1>a DEF EnqueueThrows
  <2>2. UNCHANGED <<tasks, accepted, started>>
    BY <1>2 DEF EnqueueThrows
  <2> QED
    BY <1>a, <2>1, <2>2 DEF QueueInv, StartedInOrder
<1>3. ASSUME NEW w \in Workers, WorkerTake(w) PROVE QueueInv'
  <2>1. /\ started' = Append(started, Head(tasks)) /\ tasks' = Tail(tasks)
        /\ tasks # << >> /\ UNCHANGED <<accepted, calls>>
    BY <1>3 DEF WorkerTake
  <2>2. started' \o tasks' = started \o tasks
    BY <1>a, <2>1, MoveHead
  <2> QED
    BY <2>1, <2>2 DEF QueueInv, StartedInOrder
<1>4. ASSUME NEW c \in Callers, CallerStep(c) PROVE QueueInv'
  BY <1>4, <1>b DEF CallerStep, EnqueueNotify, Get
<1>5. ASSUME NEW w \in Workers,
             WorkerSleep(w) \/ WorkerExit(w) \/ WorkerRun(w) \/ Spurious(w)
      PROVE  QueueInv'
  BY <1>5, <1>b DEF WorkerSleep, WorkerExit, WorkerRun, Spurious
<1>6. CASE DtorStop \/ DtorStep
  BY <1>6, <1>b DEF DtorStop, DtorStep, DtorNotify, DtorJoin
<1>7. CASE UNCHANGED poolVars
  BY <1>7, <1>b DEF poolVars
<1> QED
  BY <1>1, <1>2, <1>3, <1>4, <1>5, <1>6, <1>7 DEF PoolNext, WorkerStep

LEMMA QueueInvariant == PoolSpec => [](PoolTypeOK /\ QueueInv)
<1>1. PoolInit => QueueInv
  <2>1. << >> = << >> \o << >>
    BY ConcatEmptySeq, EmptySeq
  <2> QED
    BY <2>1 DEF PoolInit, QueueInv, StartedInOrder
<1> QED
  BY <1>1, TypeInit, TypeStep, QueueStep, PTL DEF PoolSpec

(* Tasks start in the order they were queued, each once, and none is lost.  *)
THEOREM StartedInQueueOrder == PoolSpec => []StartedInOrder
<1>1. QueueInv => StartedInOrder
  BY DEF QueueInv
<1> QED
  BY <1>1, QueueInvariant, PTL

-----------------------------------------------------------------------------
(* Running tasks                                                            *)

(* Whoever runs a task took it from the queue.                              *)
RunInv ==
  /\ \A w \in Workers :
       pcW[w] = "run" => \E i \in 1 .. Len(started) : started[i] = task[w]
  /\ RunByOneWorker

(* The head of the queue has not started.                                   *)
LEMMA HeadIsNew ==
  ASSUME PoolTypeOK, QueueInv, tasks # << >>
  PROVE  \A i \in 1 .. Len(started) : started[i] # Head(tasks)
<1>1. tasks \in Seq(Task) /\ started \in Seq(Task) /\ accepted = started \o tasks
  BY DEF PoolTypeOK, QueueInv, StartedInOrder
<1>2. Len(tasks) \in Nat \ {0} /\ Len(started) \in Nat
  BY <1>1, EmptySeq, LenProperties
<1>3. /\ Len(accepted) = Len(started) + Len(tasks)
      /\ \A i \in 1 .. Len(started) + Len(tasks) :
           accepted[i] = IF i <= Len(started) THEN started[i] ELSE tasks[i - Len(started)]
  BY <1>1, ConcatProperties
<1>4. Head(tasks) = tasks[1]
  BY <1>1
<1>5. accepted[Len(started) + 1] = Head(tasks)
  BY <1>2, <1>3, <1>4
<1>6. \A i \in 1 .. Len(started) : accepted[i] = started[i]
  BY <1>2, <1>3
<1>7. \A i \in 1 .. Len(started) :
        i \in 1 .. Len(accepted) /\ Len(started) + 1 \in 1 .. Len(accepted) /\ i # Len(started) + 1
  BY <1>2, <1>3
<1> QED
  BY <1>5, <1>6, <1>7 DEF QueueInv

LEMMA RunStep == PoolTypeOK /\ QueueInv /\ RunInv /\ [PoolNext]_poolVars => RunInv'
<1> SUFFICES ASSUME PoolTypeOK, QueueInv, RunInv, [PoolNext]_poolVars PROVE RunInv'
  OBVIOUS
<1> USE DEF RunInv, RunByOneWorker
<1>a. /\ pcW \in [Workers -> {"lock", "sleep", "run", "exit"}]
      /\ task \in [Workers -> Task \cup {NoTask}]
      /\ started \in Seq(Task) /\ tasks \in Seq(Task)
  BY DEF PoolTypeOK
<1>b. ASSUME UNCHANGED <<task, started, finished>>,
             \A w \in Workers : pcW'[w] = "run" <=> pcW[w] = "run"
      PROVE  RunInv'
  BY <1>b
<1>1. ASSUME NEW c \in Callers, Enqueue(c) \/ EnqueueThrows(c) \/ Get(c)
      PROVE  RunInv'
  BY <1>1, <1>b DEF Enqueue, EnqueueThrows, Get
<1>2. ASSUME NEW c \in Callers, EnqueueNotify(c) PROVE RunInv'
  <2>1. \A w \in Workers : pcW'[w] = "run" <=> pcW[w] = "run"
    BY <1>2, <1>a DEF EnqueueNotify, WakeOneWorker, Sleepers
  <2> QED
    BY <1>2, <2>1, <1>b DEF EnqueueNotify
<1>3. ASSUME NEW w \in Workers, WorkerSleep(w) \/ WorkerExit(w) \/ Spurious(w)
      PROVE  RunInv'
  <2>1. \A v \in Workers : pcW'[v] = "run" <=> pcW[v] = "run"
    BY <1>3, <1>a DEF WorkerSleep, WorkerExit, Spurious
  <2> QED
    BY <1>3, <2>1, <1>b DEF WorkerSleep, WorkerExit, Spurious
<1>4. ASSUME NEW w \in Workers, WorkerTake(w) PROVE RunInv'
  <2>1. /\ pcW[w] = "lock" /\ pcW'[w] = "run" /\ task'[w] = Head(tasks)
        /\ \A v \in Workers : v # w => pcW'[v] = pcW[v] /\ task'[v] = task[v]
        /\ UNCHANGED finished /\ tasks # << >>
    BY <1>4, <1>a DEF WorkerTake
  <2>2. Head(tasks) \in Task
    BY <1>a, <2>1, MoveHead
  <2>3. /\ Len(started') = Len(started) + 1
        /\ \A i \in 1 .. Len(started) : started'[i] = started[i]
        /\ started'[Len(started) + 1] = Head(tasks)
        /\ Len(started) \in Nat
    BY <1>4, <1>a, <2>2, AppendTask, LenProperties DEF WorkerTake
  <2>4. \A v \in Workers : pcW[v] = "run" => task[v] # Head(tasks)
    BY <2>1, HeadIsNew
  <2>5. \A v \in Workers :
          pcW'[v] = "run" => \E i \in 1 .. Len(started') : started'[i] = task'[v]
    <3> SUFFICES ASSUME NEW v \in Workers, pcW'[v] = "run"
                 PROVE  \E i \in 1 .. Len(started') : started'[i] = task'[v]
      OBVIOUS
    <3>1. CASE v = w
      <4>1. Len(started) + 1 \in 1 .. Len(started')
        BY <2>3
      <4> QED
        BY <2>1, <2>3, <3>1, <4>1
    <3>2. CASE v # w
      <4>1. PICK i \in 1 .. Len(started) : started[i] = task[v]
        BY <2>1, <3>2
      <4>2. i \in 1 .. Len(started')
        BY <2>3
      <4> QED
        BY <2>1, <2>3, <3>2, <4>1, <4>2
    <3> QED
      BY <3>1, <3>2
  <2>6. \A i \in 1 .. Len(started') :
          \/ started'[i] \in finished'
          \/ \E v \in Workers : pcW'[v] = "run" /\ task'[v] = started'[i]
    <3> SUFFICES ASSUME NEW i \in 1 .. Len(started'), started'[i] \notin finished'
                 PROVE  \E v \in Workers : pcW'[v] = "run" /\ task'[v] = started'[i]
      OBVIOUS
    <3>1. CASE i = Len(started) + 1
      BY <2>1, <2>3, <3>1
    <3>2. CASE i \in 1 .. Len(started)
      <4>1. PICK v \in Workers : pcW[v] = "run" /\ task[v] = started[i]
        BY <2>1, <2>3, <3>2
      <4>2. v # w
        BY <2>1, <4>1
      <4> QED
        BY <2>1, <2>3, <3>2, <4>1, <4>2
    <3> QED
      BY <2>3, <3>1, <3>2
  <2>7. \A u, v \in Workers :
          pcW'[u] = "run" /\ pcW'[v] = "run" /\ task'[u] = task'[v] => u = v
    BY <2>1, <2>4
  <2> QED
    BY <2>5, <2>6, <2>7
<1>5. ASSUME NEW w \in Workers, WorkerRun(w) PROVE RunInv'
  <2>1. /\ pcW'[w] = "lock" /\ UNCHANGED started
        /\ \A v \in Workers : v # w => pcW'[v] = pcW[v] /\ task'[v] = task[v]
        /\ finished' = finished \cup {task[w]}
    BY <1>5, <1>a DEF WorkerRun
  <2> QED
    BY <2>1
<1>6. CASE DtorStop \/ DtorJoin
  BY <1>6, <1>b DEF DtorStop, DtorJoin
<1>7. CASE DtorNotify
  <2>1. \A w \in Workers : pcW'[w] = "run" <=> pcW[w] = "run"
    BY <1>7 DEF DtorNotify
  <2> QED
    BY <1>7, <2>1, <1>b DEF DtorNotify
<1>8. CASE UNCHANGED poolVars
  BY <1>8, <1>b DEF poolVars
<1> QED
  BY <1>1, <1>2, <1>3, <1>4, <1>5, <1>6, <1>7, <1>8
  DEF PoolNext, CallerStep, WorkerStep, DtorStep

LEMMA RunInvariant == PoolSpec => [](PoolTypeOK /\ QueueInv /\ RunInv)
<1>1. PoolInit => RunInv
  BY DEF PoolInit, RunInv, RunByOneWorker
<1>2. PoolTypeOK /\ QueueInv /\ RunInv /\ [PoolNext]_poolVars => RunInv'
  BY RunStep
<1> QED
  BY <1>1, <1>2, QueueInvariant, PTL DEF PoolSpec

(* A task that started has finished or is being run, by one worker.         *)
THEOREM EachTaskOneWorker == PoolSpec => []RunByOneWorker
<1>1. RunInv => RunByOneWorker
  BY DEF RunInv
<1> QED
  BY <1>1, RunInvariant, PTL

-----------------------------------------------------------------------------
(* The destructor                                                           *)

(* The flag is set from the destructor's first step on; a worker that has   *)
(* ended left an empty queue, which stays empty; a deleted pool has joined  *)
(* its workers.                                                             *)
DtorInv ==
  /\ isStop <=> owner # "run"
  /\ \A w \in Workers : pcW[w] = "exit" => isStop /\ tasks = << >>
  /\ owner = "deleted" => \A w \in Workers : pcW[w] = "exit"

LEMMA DtorInvStep == PoolTypeOK /\ DtorInv /\ [PoolNext]_poolVars => DtorInv'
<1> SUFFICES ASSUME PoolTypeOK, DtorInv, [PoolNext]_poolVars PROVE DtorInv'
  OBVIOUS
<1> USE DEF DtorInv
<1>a. /\ pcW \in [Workers -> {"lock", "sleep", "run", "exit"}]
      /\ isStop \in BOOLEAN
  BY DEF PoolTypeOK
<1>1. ASSUME NEW c \in Callers, Enqueue(c) PROVE DtorInv'
  BY <1>1 DEF Enqueue
<1>2. ASSUME NEW c \in Callers, EnqueueThrows(c) \/ Get(c) PROVE DtorInv'
  BY <1>2 DEF EnqueueThrows, Get
<1>3. ASSUME NEW c \in Callers, EnqueueNotify(c) PROVE DtorInv'
  <2>1. \A w \in Workers : pcW'[w] = "exit" <=> pcW[w] = "exit"
    BY <1>3, <1>a DEF EnqueueNotify, WakeOneWorker, Sleepers
  <2> QED
    BY <1>3, <2>1 DEF EnqueueNotify
<1>4. ASSUME NEW w \in Workers, WorkerSleep(w) \/ WorkerRun(w) \/ Spurious(w)
      PROVE  DtorInv'
  <2>1. \A v \in Workers : pcW'[v] = "exit" <=> pcW[v] = "exit"
    BY <1>4, <1>a DEF WorkerSleep, WorkerRun, Spurious
  <2>2. UNCHANGED <<isStop, tasks, owner>>
    BY <1>4 DEF WorkerSleep, WorkerRun, Spurious
  <2> QED
    BY <2>1, <2>2
<1>5. ASSUME NEW w \in Workers, WorkerExit(w) PROVE DtorInv'
  BY <1>5, <1>a DEF WorkerExit
<1>6. ASSUME NEW w \in Workers, WorkerTake(w) PROVE DtorInv'
  <2>1. \A v \in Workers : pcW[v] # "exit"
    BY <1>6 DEF WorkerTake
  <2>2. \A v \in Workers : pcW'[v] # "exit"
    BY <1>6, <1>a, <2>1 DEF WorkerTake
  <2>3. owner # "deleted"
    BY <1>6, <2>1
  <2> QED
    BY <1>6, <2>2, <2>3 DEF WorkerTake
<1>7. CASE DtorStop
  BY <1>7 DEF DtorStop
<1>8. CASE DtorNotify
  <2>1. \A w \in Workers : pcW'[w] = "exit" <=> pcW[w] = "exit"
    BY <1>8 DEF DtorNotify
  <2> QED
    BY <1>8, <2>1 DEF DtorNotify
<1>9. CASE DtorJoin
  BY <1>9 DEF DtorJoin
<1>10. CASE UNCHANGED poolVars
  BY <1>10 DEF poolVars
<1> QED
  BY <1>1, <1>2, <1>3, <1>4, <1>5, <1>6, <1>7, <1>8, <1>9, <1>10
  DEF PoolNext, CallerStep, WorkerStep, DtorStep

(* When the destructor has returned every accepted task has been run.  (A   *)
(* pool without workers would be deleted with its queue.)                   *)
THEOREM DeletedPoolDrained ==
  ASSUME Workers # {}
  PROVE  PoolSpec => []DeletedDrained
<1>1. PoolInit => DtorInv
  BY DEF PoolInit, DtorInv
<1>2. ASSUME PoolTypeOK, QueueInv, RunInv, DtorInv PROVE DeletedDrained
  <2> SUFFICES ASSUME owner = "deleted"
               PROVE  \A i \in 1 .. Len(accepted) : accepted[i] \in finished
    BY DEF DeletedDrained
  <2>1. tasks = << >> /\ \A w \in Workers : pcW[w] # "run"
    BY <1>2 DEF DtorInv
  <2>2. accepted = started
    BY <1>2, <2>1, ConcatEmptySeq DEF PoolTypeOK, QueueInv, StartedInOrder
  <2> QED
    BY <1>2, <2>1, <2>2 DEF RunInv, RunByOneWorker
<1>3. PoolTypeOK /\ DtorInv /\ [PoolNext]_poolVars => DtorInv'
  BY DtorInvStep
<1> QED
  BY <1>1, <1>2, <1>3, RunInvariant, PTL DEF PoolSpec

-----------------------------------------------------------------------------
(* Waking workers                                                           *)

Awake == {w \in Workers : pcW[w] = "lock"}

Notifiers == {c \in Callers : pcK[c] = "notify"}

(* Counting who can still come for a task.                                  *)
LEMMA Counted ==
  /\ IsFiniteSet(Awake) /\ IsFiniteSet(Notifiers)
  /\ Cardinality(Awake) \in Nat /\ Cardinality(Notifiers) \in Nat
<1>1. Awake \in SUBSET Workers /\ Notifiers \in SUBSET Callers
  BY DEF Awake, Notifiers
<1>2. IsFiniteSet(Awake) /\ IsFiniteSet(Notifiers)
  BY <1>1, PoolConfig, FS_Subset
<1> QED
  BY <1>2, FS_CardinalityType

LEMMA OneMore ==
  ASSUME NEW S, IsFiniteSet(S), NEW x, x \notin S
  PROVE  Cardinality(S \cup {x}) = Cardinality(S) + 1
BY FS_AddElement

LEMMA OneLess ==
  ASSUME NEW S, IsFiniteSet(S), NEW x \in S
  PROVE  Cardinality(S \ {x}) = Cardinality(S) - 1
BY FS_RemoveElement

LEMMA IdleStep == PoolTypeOK /\ NoIdleWorker /\ [PoolNext]_poolVars => NoIdleWorker'
<1> SUFFICES ASSUME PoolTypeOK, NoIdleWorker, [PoolNext]_poolVars PROVE NoIdleWorker'
  OBVIOUS
<1>a. /\ pcW \in [Workers -> {"lock", "sleep", "run", "exit"}]
      /\ pcK \in [Callers -> {"idle", "notify", "get"}]
      /\ tasks \in Seq(Task) /\ Len(tasks) \in Nat
  BY LenProperties DEF PoolTypeOK
<1>n. /\ IsFiniteSet(Awake) /\ IsFiniteSet(Notifiers)
      /\ Cardinality(Awake) \in Nat /\ Cardinality(Notifiers) \in Nat
  BY Counted
<1>p. Cardinality(Awake)' \in Nat /\ Cardinality(Notifiers)' \in Nat
  <2>1. Awake' \in SUBSET Workers /\ Notifiers' \in SUBSET Callers
    BY DEF Awake, Notifiers
  <2>2. IsFiniteSet(Awake') /\ IsFiniteSet(Notifiers')
    BY <2>1, PoolConfig, FS_Subset
  <2> QED
    BY <2>2, FS_CardinalityType
<1>i. Sleepers # {} => Len(tasks) <= Cardinality(Awake) + Cardinality(Notifiers)
  BY DEF NoIdleWorker, Awake, Notifiers
<1>g. ASSUME Sleepers' # {} => Len(tasks') <= Cardinality(Awake') + Cardinality(Notifiers')
      PROVE  NoIdleWorker'
  BY <1>g DEF NoIdleWorker, Awake, Notifiers
<1>e. ASSUME tasks = << >> /\ tasks' = tasks PROVE NoIdleWorker'
  <2>1. Len(tasks') = 0
    BY <1>e
  <2> QED
    BY <1>g, <1>p, <2>1
<1>b. ASSUME UNCHANGED <<tasks, pcW>>, Notifiers' = Notifiers PROVE NoIdleWorker'
  <2>1. Awake' = Awake /\ Sleepers' = Sleepers
    BY <1>b DEF Awake, Sleepers
  <2> QED
    BY <1>b, <1>g, <1>i, <2>1
(* A worker comes for the mutex, be it from a task or from its sleep.       *)
<1>w. ASSUME NEW w \in Workers, pcW[w] # "lock", pcW' = [pcW EXCEPT ![w] = "lock"],
             UNCHANGED tasks
      PROVE  /\ Cardinality(Awake') = Cardinality(Awake) + 1
             /\ Sleepers' \subseteq Sleepers
  <2>1. Awake' = Awake \cup {w} /\ w \notin Awake
    BY <1>a, <1>w DEF Awake
  <2>2. Cardinality(Awake \cup {w}) = Cardinality(Awake) + 1
    BY <1>n, <2>1, OneMore
  <2>3. Sleepers' \subseteq Sleepers
    BY <1>a, <1>w DEF Sleepers
  <2> QED
    BY <2>1, <2>2, <2>3
<1>1. ASSUME NEW c \in Callers, Enqueue(c) PROVE NoIdleWorker'
  <2> DEFINE t == CurrentTask(c)'
  <2>1. /\ pcK[c] = "idle" /\ pcK' = [pcK EXCEPT ![c] = "notify"]
        /\ tasks' = Append(tasks, t) /\ UNCHANGED pcW
    BY <1>1 DEF Enqueue
  <2>2. Len(tasks') = Len(tasks) + 1
    <3>1. PoolTypeOK'
      BY TypeStep
    <3>2. tasks' \in Seq(Task)
      BY <3>1 DEF PoolTypeOK
    <3> HIDE DEF t
    <3> QED
      BY <1>a, <2>1, <3>2, LenProperties
  <2>3. Notifiers' = Notifiers \cup {c} /\ c \notin Notifiers
    BY <1>a, <2>1 DEF Notifiers
  <2>4. Cardinality(Notifiers') = Cardinality(Notifiers) + 1
    BY <1>n, <2>3, OneMore
  <2>5. Awake' = Awake /\ Sleepers' = Sleepers
    BY <2>1 DEF Awake, Sleepers
  <2>6. Sleepers' # {} => Len(tasks') <= Cardinality(Awake') + Cardinality(Notifiers')
    BY <1>a, <1>n, <1>i, <2>2, <2>4, <2>5
  <2> QED
    BY <1>g, <2>6
<1>2. ASSUME NEW c \in Callers, EnqueueThrows(c) PROVE NoIdleWorker'
  BY <1>2, <1>b DEF EnqueueThrows, Notifiers
<1>3. ASSUME NEW c \in Callers, EnqueueNotify(c) PROVE NoIdleWorker'
  <2>1. /\ pcK[c] = "notify" /\ pcK' = [pcK EXCEPT ![c] = "get"] /\ UNCHANGED tasks
        /\ WakeOneWorker
    BY <1>3 DEF EnqueueNotify
  <2>2. Notifiers' = Notifiers \ {c} /\ c \in Notifiers
    BY <1>a, <2>1 DEF Notifiers
  <2>3. Cardinality(Notifiers') = Cardinality(Notifiers) - 1
    BY <1>n, <2>2, OneLess
  <2>4. CASE Sleepers = {}
    <3>1. Sleepers' = {}
      BY <2>1, <2>4 DEF WakeOneWorker, Sleepers
    <3> QED
      BY <1>g, <3>1
  <2>5. CASE Sleepers # {}
    <3>1. PICK w \in Sleepers : pcW' = [pcW EXCEPT ![w] = "lock"]
      BY <2>1, <2>5 DEF WakeOneWorker
    <3>2. w \in Workers /\ pcW[w] # "lock"
      BY <3>1 DEF Sleepers
    <3>3. Cardinality(Awake') = Cardinality(Awake) + 1
      BY <1>w, <2>1, <3>1, <3>2
    <3>4. Len(tasks') <= Cardinality(Awake') + Cardinality(Notifiers')
      BY <1>a, <1>n, <1>i, <2>1, <2>3, <2>5, <3>3
    <3> QED
      BY <1>g, <3>4
  <2> QED
    BY <2>4, <2>5
<1>4. ASSUME NEW c \in Callers, Get(c) PROVE NoIdleWorker'
  <2>1. Notifiers' = Notifiers
    BY <1>4, <1>a DEF Get, Notifiers
  <2> QED
    BY <1>4, <1>b, <2>1 DEF Get
<1>5. ASSUME NEW w \in Workers, WorkerSleep(w) \/ WorkerExit(w) PROVE NoIdleWorker'
  BY <1>5, <1>e DEF WorkerSleep, WorkerExit
<1>6. ASSUME NEW w \in Workers, WorkerTake(w) PROVE NoIdleWorker'
  <2>1. /\ pcW[w] = "lock" /\ pcW' = [pcW EXCEPT ![w] = "run"] /\ tasks # << >>
        /\ tasks' = Tail(tasks) /\ UNCHANGED pcK
    BY <1>6 DEF WorkerTake
  <2>2. Awake' = Awake \ {w} /\ w \in Awake
    BY <1>a, <2>1 DEF Awake
  <2>3. Cardinality(Awake') = Cardinality(Awake) - 1
    BY <1>n, <2>2, OneLess
  <2>4. Notifiers' = Notifiers /\ Sleepers' = Sleepers
    BY <1>a, <2>1 DEF Notifiers, Sleepers
  <2>5. Len(tasks') = Len(tasks) - 1
    BY <1>a, <2>1, HeadTailProperties
  <2>6. Sleepers' # {} => Len(tasks') <= Cardinality(Awake') + Cardinality(Notifiers')
    BY <1>a, <1>n, <1>i, <2>3, <2>4, <2>5
  <2> QED
    BY <1>g, <2>6
<1>7. ASSUME NEW w \in Workers, WorkerRun(w) \/ Spurious(w) PROVE NoIdleWorker'
  <2>1. /\ pcW[w] # "lock" /\ pcW' = [pcW EXCEPT ![w] = "lock"] /\ UNCHANGED <<tasks, pcK>>
    BY <1>7 DEF WorkerRun, Spurious
  <2>2. Cardinality(Awake') = Cardinality(Awake) + 1 /\ Sleepers' \subseteq Sleepers
    BY <1>w, <2>1
  <2>3. Notifiers' = Notifiers
    BY <2>1 DEF Notifiers
  <2>4. Sleepers' # {} => Len(tasks') <= Cardinality(Awake') + Cardinality(Notifiers')
    BY <1>a, <1>n, <1>i, <2>1, <2>2, <2>3
  <2> QED
    BY <1>g, <2>4
<1>8. CASE DtorStop \/ DtorJoin
  BY <1>8, <1>b DEF DtorStop, DtorJoin, Notifiers
<1>9. CASE DtorNotify
  <2>1. Sleepers' = {}
    BY <1>9 DEF DtorNotify, Sleepers
  <2> QED
    BY <1>g, <2>1
<1>10. CASE UNCHANGED poolVars
  BY <1>10, <1>b DEF poolVars, Notifiers
<1> QED
  BY <1>1, <1>2, <1>3, <1>4, <1>5, <1>6, <1>7, <1>8, <1>9, <1>10
  DEF PoolNext, CallerStep, WorkerStep, DtorStep

(* Notifying after the unlock loses no parallelism: while some worker       *)
(* sleeps, no more tasks wait than workers are on their way to the queue    *)
(* and callers about to wake one.                                           *)
THEOREM WorkersComeForTasks == PoolSpec => []NoIdleWorker
<1>1. PoolInit => NoIdleWorker
  BY DEF PoolInit, NoIdleWorker, Sleepers
<1>2. PoolTypeOK /\ NoIdleWorker /\ [PoolNext]_poolVars => NoIdleWorker'
  BY IdleStep
<1> QED
  BY <1>1, <1>2, TypeInit, TypeStep, PTL DEF PoolSpec

-----------------------------------------------------------------------------
(* A task is run once                                                       *)

(* What has finished had started, and what is being run has not finished.   *)
FreshInv ==
  /\ \A t \in finished : \E i \in 1 .. Len(started) : started[i] = t
  /\ \A w \in Workers : pcW[w] = "run" => task[w] \notin finished

LEMMA FreshStep ==
  PoolTypeOK /\ QueueInv /\ RunInv /\ FreshInv /\ [PoolNext]_poolVars => FreshInv'
<1> SUFFICES ASSUME PoolTypeOK, QueueInv, RunInv, FreshInv, [PoolNext]_poolVars
             PROVE  FreshInv'
  OBVIOUS
<1> USE DEF FreshInv
<1>a. /\ pcW \in [Workers -> {"lock", "sleep", "run", "exit"}]
      /\ task \in [Workers -> Task \cup {NoTask}]
      /\ started \in Seq(Task) /\ tasks \in Seq(Task)
  BY DEF PoolTypeOK
<1>b. ASSUME UNCHANGED <<task, started, finished>>,
             \A w \in Workers : pcW'[w] = "run" <=> pcW[w] = "run"
      PROVE  FreshInv'
  BY <1>b
<1>1. ASSUME NEW c \in Callers, Enqueue(c) \/ EnqueueThrows(c) \/ Get(c)
      PROVE  FreshInv'
  BY <1>1, <1>b DEF Enqueue, EnqueueThrows, Get
<1>2. ASSUME NEW c \in Callers, EnqueueNotify(c) PROVE FreshInv'
  <2>1. \A w \in Workers : pcW'[w] = "run" <=> pcW[w] = "run"
    BY <1>2, <1>a DEF EnqueueNotify, WakeOneWorker, Sleepers
  <2> QED
    BY <1>2, <2>1, <1>b DEF EnqueueNotify
<1>3. ASSUME NEW w \in Workers, WorkerSleep(w) \/ WorkerExit(w) \/ Spurious(w)
      PROVE  FreshInv'
  <2>1. \A v \in Workers : pcW'[v] = "run" <=> pcW[v] = "run"
    BY <1>3, <1>a DEF WorkerSleep, WorkerExit, Spurious
  <2> QED
    BY <1>3, <2>1, <1>b DEF WorkerSleep, WorkerExit, Spurious
<1>4. ASSUME NEW w \in Workers, WorkerTake(w) PROVE FreshInv'
  <2>1. /\ pcW'[w] = "run" /\ task'[w] = Head(tasks) /\ tasks # << >>
        /\ \A v \in Workers : v # w => pcW'[v] = pcW[v] /\ task'[v] = task[v]
        /\ UNCHANGED finished
    BY <1>4, <1>a DEF WorkerTake
  <2>2. Head(tasks) \in Task
    BY <1>a, <2>1, MoveHead
  <2>3. /\ Len(started') = Len(started) + 1
        /\ \A i \in 1 .. Len(started) : started'[i] = started[i]
        /\ Len(started) \in Nat
    BY <1>4, <1>a, <2>2, AppendTask, LenProperties DEF WorkerTake
  <2>4. Head(tasks) \notin finished
    BY <2>1, HeadIsNew
  <2>5. \A t \in finished' : \E i \in 1 .. Len(started') : started'[i] = t
    <3> SUFFICES ASSUME NEW t \in finished
                 PROVE  \E i \in 1 .. Len(started') : started'[i] = t
      BY <2>1
    <3>1. PICK i \in 1 .. Len(started) : started[i] = t
      OBVIOUS
    <3>2. i \in 1 .. Len(started')
      BY <2>3
    <3> QED
      BY <2>3, <3>1, <3>2
  <2> QED
    BY <2>1, <2>4, <2>5
<1>5. ASSUME NEW w \in Workers, WorkerRun(w) PROVE FreshInv'
  <2>1. /\ pcW[w] = "run" /\ pcW'[w] = "lock" /\ UNCHANGED started
        /\ \A v \in Workers : v # w => pcW'[v] = pcW[v] /\ task'[v] = task[v]
        /\ finished' = finished \cup {task[w]}
    BY <1>5, <1>a DEF WorkerRun
  <2>2. \E i \in 1 .. Len(started) : started[i] = task[w]
    BY <2>1 DEF RunInv
  <2>3. \A v \in Workers : pcW[v] = "run" /\ v # w => task[v] # task[w]
    BY <2>1 DEF RunInv, RunByOneWorker
  <2> QED
    BY <2>1, <2>2, <2>3
<1>6. CASE DtorStop \/ DtorJoin
  BY <1>6, <1>b DEF DtorStop, DtorJoin
<1>7. CASE DtorNotify
  <2>1. \A w \in Workers : pcW'[w] = "run" <=> pcW[w] = "run"
    BY <1>7 DEF DtorNotify
  <2> QED
    BY <1>7, <2>1, <1>b DEF DtorNotify
<1>8. CASE UNCHANGED poolVars
  BY <1>8, <1>b DEF poolVars
<1> QED
  BY <1>1, <1>2, <1>3, <1>4, <1>5, <1>6, <1>7, <1>8
  DEF PoolNext, CallerStep, WorkerStep, DtorStep

LEMMA FreshInvariant == PoolSpec => [](PoolTypeOK /\ QueueInv /\ RunInv /\ FreshInv)
<1>1. PoolInit => FreshInv
  BY DEF PoolInit, FreshInv
<1>2. PoolTypeOK /\ QueueInv /\ RunInv /\ FreshInv /\ [PoolNext]_poolVars => FreshInv'
  BY FreshStep
<1> QED
  BY <1>1, <1>2, RunInvariant, PTL DEF PoolSpec

-----------------------------------------------------------------------------
(* Who waits for whom                                                       *)

(* A caller waits for a task that was queued, and the destructor's          *)
(* notification left nobody asleep.                                         *)
WaitInv ==
  /\ \A c \in Callers : pcK[c] \in {"notify", "get"} =>
       \E i \in 1 .. Len(accepted) : accepted[i] = CurrentTask(c)
  /\ owner = "join" => Sleepers = {}

LEMMA WaitStep == PoolTypeOK /\ DtorInv /\ WaitInv /\ [PoolNext]_poolVars => WaitInv'
<1> SUFFICES ASSUME PoolTypeOK, DtorInv, WaitInv, [PoolNext]_poolVars PROVE WaitInv'
  OBVIOUS
<1> USE DEF WaitInv
<1>a. /\ pcW \in [Workers -> {"lock", "sleep", "run", "exit"}]
      /\ pcK \in [Callers -> {"idle", "notify", "get"}]
      /\ calls \in [Callers -> 0 .. MaxCalls]
      /\ accepted \in Seq(Task)
  BY DEF PoolTypeOK
<1>b. ASSUME UNCHANGED <<accepted, calls>>,
             \A c \in Callers : pcK'[c] \in {"notify", "get"} => pcK[c] \in {"notify", "get"},
             owner' = "join" => Sleepers' = {}
      PROVE  WaitInv'
  BY <1>b DEF CurrentTask
<1>c. ASSUME UNCHANGED owner,
             \A w \in Workers : pcW'[w] = "sleep" => pcW[w] = "sleep"
      PROVE  owner' = "join" => Sleepers' = {}
  BY <1>c DEF Sleepers
<1>1. ASSUME NEW c \in Callers, Enqueue(c) PROVE WaitInv'
  <2> DEFINE t == CurrentTask(c)'
  <2>1. /\ calls' = [calls EXCEPT ![c] = @ + 1] /\ calls[c] < MaxCalls
        /\ pcK' = [pcK EXCEPT ![c] = "notify"]
        /\ accepted' = Append(accepted, t)
        /\ UNCHANGED <<owner, pcW>>
    BY <1>1 DEF Enqueue
  <2>2. t \in Task
    <3>1. calls'[c] \in 1 .. MaxCalls
      BY <1>a, <2>1, PoolConfig
    <3> QED
      BY <3>1 DEF CurrentTask, Task
  <2> HIDE DEF t
  <2>3. /\ Len(accepted') = Len(accepted) + 1 /\ Len(accepted) \in Nat
        /\ \A i \in 1 .. Len(accepted) : accepted'[i] = accepted[i]
        /\ accepted'[Len(accepted) + 1] = t
    BY <1>a, <2>1, <2>2, AppendTask, LenProperties
  <2>4. ASSUME NEW d \in Callers, pcK'[d] \in {"notify", "get"}
        PROVE  \E i \in 1 .. Len(accepted') : accepted'[i] = CurrentTask(d)'
    <3>1. CASE d = c
      <4>1. Len(accepted) + 1 \in 1 .. Len(accepted')
        BY <2>3
      <4> QED
        BY <2>3, <3>1, <4>1 DEF t
    <3>2. CASE d # c
      <4>1. CurrentTask(d)' = CurrentTask(d) /\ pcK[d] \in {"notify", "get"}
        BY <1>a, <2>1, <2>4, <3>2 DEF CurrentTask
      <4>2. PICK i \in 1 .. Len(accepted) : accepted[i] = CurrentTask(d)
        BY <4>1
      <4>3. i \in 1 .. Len(accepted') /\ accepted'[i] = CurrentTask(d)
        BY <2>3, <4>2
      <4> QED
        BY <4>1, <4>3
    <3> QED
      BY <3>1, <3>2
  <2>5. owner' = "join" => Sleepers' = {}
    BY <1>c, <2>1
  <2> QED
    BY <2>4, <2>5
<1>2. ASSUME NEW c \in Callers, EnqueueThrows(c) PROVE WaitInv'
  <2>1. /\ pcK[c] = "idle" /\ calls' = [calls EXCEPT ![c] = @ + 1]
        /\ UNCHANGED <<pcK, accepted, owner, pcW>>
    BY <1>2 DEF EnqueueThrows
  <2>2. \A d \in Callers : pcK'[d] \in {"notify", "get"} =>
          pcK[d] = pcK'[d] /\ CurrentTask(d)' = CurrentTask(d)
    BY <1>a, <2>1 DEF CurrentTask
  <2>3. owner' = "join" => Sleepers' = {}
    BY <1>c, <2>1
  <2> QED
    BY <2>1, <2>2, <2>3
<1>3. ASSUME NEW c \in Callers, EnqueueNotify(c) PROVE WaitInv'
  <2>1. /\ pcK[c] = "notify" /\ pcK' = [pcK EXCEPT ![c] = "get"] /\ WakeOneWorker
        /\ UNCHANGED <<accepted, calls, owner>>
    BY <1>3 DEF EnqueueNotify
  <2>2. \A w \in Workers : pcW'[w] = "sleep" => pcW[w] = "sleep"
    BY <1>a, <2>1 DEF WakeOneWorker, Sleepers
  <2>3. \A d \in Callers : pcK'[d] \in {"notify", "get"} => pcK[d] \in {"notify", "get"}
    BY <1>a, <2>1
  <2> QED
    BY <1>b, <1>c, <2>1, <2>2, <2>3
<1>4. ASSUME NEW c \in Callers, Get(c) PROVE WaitInv'
  <2>1. \A d \in Callers : pcK'[d] \in {"notify", "get"} => pcK[d] \in {"notify", "get"}
    BY <1>4, <1>a DEF Get
  <2> QED
    BY <1>4, <1>b, <1>c, <2>1 DEF Get
<1>5. ASSUME NEW w \in Workers, WorkerSleep(w) PROVE WaitInv'
  <2>1. owner # "join" /\ UNCHANGED <<accepted, calls, pcK, owner>>
    BY <1>5 DEF WorkerSleep, DtorInv
  <2> QED
    BY <1>b, <2>1
<1>6. ASSUME NEW w \in Workers,
             WorkerExit(w) \/ WorkerTake(w) \/ WorkerRun(w) \/ Spurious(w)
      PROVE  WaitInv'
  <2>1. UNCHANGED <<accepted, calls, pcK, owner>>
    BY <1>6 DEF WorkerExit, WorkerTake, WorkerRun, Spurious
  <2>2. \A v \in Workers : pcW'[v] = "sleep" => pcW[v] = "sleep"
    BY <1>6, <1>a DEF WorkerExit, WorkerTake, WorkerRun, Spurious
  <2> QED
    BY <1>b, <1>c, <2>1, <2>2
<1>7. CASE DtorStop \/ DtorJoin
  BY <1>7, <1>b DEF DtorStop, DtorJoin
<1>8. CASE DtorNotify
  <2>1. Sleepers' = {} /\ UNCHANGED <<accepted, calls, pcK>>
    BY <1>8 DEF DtorNotify, Sleepers
  <2> QED
    BY <1>b, <2>1
<1>9. CASE UNCHANGED poolVars
  BY <1>9, <1>b, <1>c DEF poolVars
<1> QED
  BY <1>1, <1>2, <1>3, <1>4, <1>5, <1>6, <1>7, <1>8, <1>9
  DEF PoolNext, CallerStep, WorkerStep, DtorStep

(* A task that was accepted has been run, is being run, or is in the queue. *)
LEMMA WhereTasksAre ==
  ASSUME PoolTypeOK, QueueInv, RunInv, NEW i \in 1 .. Len(accepted),
         accepted[i] \notin finished
  PROVE  (\E w \in Workers : pcW[w] = "run") \/ tasks # << >>
<1>1. CASE tasks = << >>
  <2>1. accepted = started
    BY <1>1, ConcatEmptySeq DEF PoolTypeOK, QueueInv, StartedInOrder
  <2> QED
    BY <2>1 DEF RunInv, RunByOneWorker
<1> QED
  BY <1>1

(* The pool, its callers and its destructor never all wait for one another: *)
(* whenever a caller waits for a task that has not been run, or the         *)
(* destructor for a worker, somebody is awake.  (In a pool without workers  *)
(* nobody would ever run a task.)                                           *)
THEOREM PoolNeverDeadlocks ==
  ASSUME Workers # {}
  PROVE  PoolSpec => []NeverAllWait
<1>1. PoolInit => WaitInv /\ DtorInv /\ NoIdleWorker
  BY DEF PoolInit, WaitInv, DtorInv, NoIdleWorker, Sleepers
<1>2. ASSUME PoolTypeOK, QueueInv, RunInv, DtorInv, WaitInv, NoIdleWorker
      PROVE  NeverAllWait
  <2> DEFINE Running == \/ \E w \in Workers : pcW[w] \in {"lock", "run"}
                        \/ \E c \in Callers : pcK[c] = "notify"
  <2>a. pcW \in [Workers -> {"lock", "sleep", "run", "exit"}]
    BY <1>2 DEF PoolTypeOK
  <2>1. ASSUME NEW c \in Callers, pcK[c] = "get", CurrentTask(c) \notin finished
        PROVE  Running
    <3>1. PICK i \in 1 .. Len(accepted) : accepted[i] = CurrentTask(c)
      BY <1>2, <2>1 DEF WaitInv
    <3>2. CASE tasks # << >>
      <4>1. PICK w \in Workers : TRUE
        OBVIOUS
      <4>2. pcW[w] # "exit"
        BY <1>2, <3>2 DEF DtorInv
      <4>3. CASE pcW[w] = "sleep"
        <5>1. Sleepers # {}
          BY <4>3 DEF Sleepers
        <5>2. Len(tasks) <= Cardinality(Awake) + Cardinality(Notifiers)
          BY <1>2, <5>1 DEF NoIdleWorker, Awake, Notifiers
        <5>3. Len(tasks) \in Nat /\ Len(tasks) # 0
          BY <1>2, <3>2, EmptySeq, LenProperties DEF PoolTypeOK
        <5>4. Cardinality({}) = 0
          BY FS_EmptySet
        <5>5. ASSUME Awake = {}, Notifiers = {} PROVE FALSE
          <6>1. Cardinality(Awake) = 0 /\ Cardinality(Notifiers) = 0
            BY <5>4, <5>5
          <6> QED
            BY <5>2, <5>3, <6>1
        <5> QED
          BY <5>5 DEF Awake, Notifiers
      <4> QED
        BY <2>a, <4>2, <4>3
    <3> QED
      BY <1>2, <2>1, <3>1, <3>2, WhereTasksAre
  <2>2. ASSUME owner = "join", NEW w \in Workers, pcW[w] # "exit" PROVE Running
    BY <1>2, <2>a, <2>2 DEF WaitInv, Sleepers
  <2> QED
    BY <2>1, <2>2 DEF NeverAllWait
<1>3. /\ PoolTypeOK /\ DtorInv /\ [PoolNext]_poolVars => DtorInv'
      /\ PoolTypeOK /\ DtorInv /\ WaitInv /\ [PoolNext]_poolVars => WaitInv'
      /\ PoolTypeOK /\ NoIdleWorker /\ [PoolNext]_poolVars => NoIdleWorker'
  BY DtorInvStep, WaitStep, IdleStep
<1> QED
  BY <1>1, <1>2, <1>3, RunInvariant, PTL DEF PoolSpec
=============================================================================
