------------------------------ MODULE ThreadPool ------------------------------
(***************************************************************************)
(* ThreadPool (ThreadPool.hpp): callers enqueue tasks and wait for their    *)
(* futures, worker threads run them in the order of the queue, the          *)
(* destructor lets the workers empty the queue and joins them.              *)
(*                                                                          *)
(* Grain of atomicity.  A critical section of _m_mtx is one step, and so is *)
(* wait's test of its predicate with the sleep that follows a failed one:   *)
(* every write of _m_isStop and _m_tasks holds the mutex, so nothing that   *)
(* the predicate reads can change in between.  The notifications come after *)
(* the unlock and are steps of their own.                                   *)
(***************************************************************************)
EXTENDS Integers, Sequences, FiniteSets

CONSTANTS
  Workers,     \* the threads of _m_workers
  Callers,     \* threads that enqueue a task and get its future
  MaxCalls     \* bound: tasks per caller

ASSUME PoolConfig ==
  /\ IsFiniteSet(Workers)
  /\ IsFiniteSet(Callers)
  /\ MaxCalls \in Nat

VARIABLES
  isStop,      \* _m_isStop
  tasks,       \* _m_tasks, the front first
  pcW,         \* where each worker stands in its loop
  task,        \* the task each worker is running
  pcK,         \* where each caller stands in enqueue and get
  calls,       \* tasks each caller has created
  owner,       \* where the owner stands: running, in ~ThreadPool, deleted
  accepted,    \* history: tasks put into the queue, in order
  started,     \* history: tasks taken by a worker, in order
  finished     \* history: tasks that have been run

poolVars == <<isStop, tasks, pcW, task, pcK, calls, owner, accepted, started,
              finished>>

(***************************************************************************)
(* A task is named by its caller and the number of the call.                *)
(***************************************************************************)
Task == [from : Callers, num : 1 .. MaxCalls]

(***************************************************************************)
(* A worker that runs no task.                                              *)
(***************************************************************************)
NoTask == << >>

PoolInit ==
  /\ isStop = FALSE
  /\ tasks = << >>
  /\ pcW = [w \in Workers |-> "lock"]
  /\ task = [w \in Workers |-> NoTask]
  /\ pcK = [c \in Callers |-> "idle"]
  /\ calls = [c \in Callers |-> 0]
  /\ owner = "run"
  /\ accepted = << >>
  /\ started = << >>
  /\ finished = {}

-----------------------------------------------------------------------------
(* Callers: enqueue and future::get                                         *)

CurrentTask(c) == [from |-> c, num |-> calls[c]]

(* Faulty variant: the stop flag is not looked at. *)
EnqueueAlways(c) ==
  /\ pcK[c] = "idle" /\ calls[c] < MaxCalls
  /\ owner # "deleted"
  /\ calls' = [calls EXCEPT ![c] = @ + 1]
  /\ tasks' = Append(tasks, CurrentTask(c)')
  /\ accepted' = Append(accepted, CurrentTask(c)')
  /\ pcK' = [pcK EXCEPT ![c] = "notify"]
  /\ UNCHANGED <<isStop, pcW, task, owner, started, finished>>

Enqueue(c) ==
  /\ pcK[c] = "idle" /\ calls[c] < MaxCalls
  /\ owner # "deleted"
  /\ ~isStop
  /\ calls' = [calls EXCEPT ![c] = @ + 1]
  /\ tasks' = Append(tasks, CurrentTask(c)')
  /\ accepted' = Append(accepted, CurrentTask(c)')
  /\ pcK' = [pcK EXCEPT ![c] = "notify"]
  /\ UNCHANGED <<isStop, pcW, task, owner, started, finished>>

(***************************************************************************)
(* enqueue throws std::runtime_error: the task was created, never queued.   *)
(***************************************************************************)
EnqueueThrows(c) ==
  /\ pcK[c] = "idle" /\ calls[c] < MaxCalls
  /\ owner # "deleted"
  /\ isStop
  /\ calls' = [calls EXCEPT ![c] = @ + 1]
  /\ UNCHANGED <<isStop, tasks, pcW, task, pcK, owner, accepted, started,
                 finished>>

Sleepers == {w \in Workers : pcW[w] = "sleep"}

(* Faulty variant: nobody is notified. *)
WakeNoWorker == UNCHANGED pcW

WakeOneWorker ==
  IF Sleepers = {}
  THEN UNCHANGED pcW
  ELSE \E w \in Sleepers : pcW' = [pcW EXCEPT ![w] = "lock"]

(***************************************************************************)
(* The pool may have been deleted since the unlock (see README): then there *)
(* are no sleepers and the call finds nobody to wake.                       *)
(***************************************************************************)
EnqueueNotify(c) ==
  /\ pcK[c] = "notify"
  /\ WakeOneWorker
  /\ pcK' = [pcK EXCEPT ![c] = "get"]
  /\ UNCHANGED <<isStop, tasks, task, calls, owner, accepted, started, finished>>

Get(c) ==
  /\ pcK[c] = "get"
  /\ CurrentTask(c) \in finished
  /\ pcK' = [pcK EXCEPT ![c] = "idle"]
  /\ UNCHANGED <<isStop, tasks, pcW, task, calls, owner, accepted, started,
                 finished>>

-----------------------------------------------------------------------------
(* Workers                                                                  *)

WorkerSleep(w) ==
  /\ pcW[w] = "lock"
  /\ ~isStop /\ tasks = << >>
  /\ pcW' = [pcW EXCEPT ![w] = "sleep"]
  /\ UNCHANGED <<isStop, tasks, task, pcK, calls, owner, accepted, started,
                 finished>>

(* Faulty variant: a stopped worker leaves tasks behind. *)
WorkerExitAtOnce(w) ==
  /\ pcW[w] = "lock"
  /\ isStop
  /\ pcW' = [pcW EXCEPT ![w] = "exit"]
  /\ UNCHANGED <<isStop, tasks, task, pcK, calls, owner, accepted, started,
                 finished>>

WorkerExit(w) ==
  /\ pcW[w] = "lock"
  /\ isStop /\ tasks = << >>
  /\ pcW' = [pcW EXCEPT ![w] = "exit"]
  /\ UNCHANGED <<isStop, tasks, task, pcK, calls, owner, accepted, started,
                 finished>>

(* Faulty variant: front() without pop(). *)
WorkerPeek(w) ==
  /\ pcW[w] = "lock"
  /\ tasks # << >>
  /\ task' = [task EXCEPT ![w] = Head(tasks)]
  /\ started' = Append(started, Head(tasks))
  /\ pcW' = [pcW EXCEPT ![w] = "run"]
  /\ UNCHANGED <<isStop, tasks, pcK, calls, owner, accepted, finished>>

WorkerTake(w) ==
  /\ pcW[w] = "lock"
  /\ tasks # << >>
  /\ task' = [task EXCEPT ![w] = Head(tasks)]
  /\ started' = Append(started, Head(tasks))
  /\ tasks' = Tail(tasks)
  /\ pcW' = [pcW EXCEPT ![w] = "run"]
  /\ UNCHANGED <<isStop, pcK, calls, owner, accepted, finished>>

(***************************************************************************)
(* The task returns and makes its future ready.  The step may come at any   *)
(* time after WorkerTake: a task may take long.                             *)
(***************************************************************************)
WorkerRun(w) ==
  /\ pcW[w] = "run"
  /\ finished' = finished \cup {task[w]}
  /\ task' = [task EXCEPT ![w] = NoTask]
  /\ pcW' = [pcW EXCEPT ![w] = "lock"]
  /\ UNCHANGED <<isStop, tasks, pcK, calls, owner, accepted, started>>

(***************************************************************************)
(* condition_variable::wait may return for no reason.                       *)
(***************************************************************************)
Spurious(w) ==
  /\ pcW[w] = "sleep"
  /\ pcW' = [pcW EXCEPT ![w] = "lock"]
  /\ UNCHANGED <<isStop, tasks, task, pcK, calls, owner, accepted, started,
                 finished>>

-----------------------------------------------------------------------------
(* The owner: ~ThreadPool                                                   *)

DtorStop ==
  /\ owner = "run"
  /\ isStop' = TRUE
  /\ owner' = "notify"
  /\ UNCHANGED <<tasks, pcW, task, pcK, calls, accepted, started, finished>>

(* Faulty variant: notify_one for all workers. *)
DtorNotifyOne ==
  /\ owner = "notify"
  /\ WakeOneWorker
  /\ owner' = "join"
  /\ UNCHANGED <<isStop, tasks, task, pcK, calls, accepted, started, finished>>

DtorNotify ==
  /\ owner = "notify"
  /\ pcW' = [w \in Workers |-> IF pcW[w] = "sleep" THEN "lock" ELSE pcW[w]]
  /\ owner' = "join"
  /\ UNCHANGED <<isStop, tasks, task, pcK, calls, accepted, started, finished>>

DtorJoin ==
  /\ owner = "join"
  /\ \A w \in Workers : pcW[w] = "exit"
  /\ owner' = "deleted"
  /\ UNCHANGED <<isStop, tasks, pcW, task, pcK, calls, accepted, started,
                 finished>>

-----------------------------------------------------------------------------
CallerStep(c) == EnqueueNotify(c) \/ Get(c)

WorkerStep(w) == WorkerSleep(w) \/ WorkerExit(w) \/ WorkerTake(w) \/ WorkerRun(w)

DtorStep == DtorNotify \/ DtorJoin

PoolNext ==
  \/ \E c \in Callers : Enqueue(c) \/ EnqueueThrows(c) \/ CallerStep(c)
  \/ \E w \in Workers : WorkerStep(w) \/ Spurious(w)
  \/ DtorStop \/ DtorStep

PoolSpec == PoolInit /\ [][PoolNext]_poolVars

(***************************************************************************)
(* The operating system runs every runnable thread and every task returns.  *)
(* Nobody has to enqueue, to delete the pool, or to be woken for no reason. *)
(***************************************************************************)
PoolFairness ==
  /\ \A c \in Callers : WF_poolVars(CallerStep(c))
  /\ \A w \in Workers : WF_poolVars(WorkerStep(w))
  /\ WF_poolVars(DtorStep)

FairPoolSpec == PoolSpec /\ PoolFairness

-----------------------------------------------------------------------------
(* Type invariant: the variables have the shapes the code gives them.       *)
PoolTypeOK ==
  /\ isStop \in BOOLEAN
  /\ tasks \in Seq(Task)
  /\ pcW \in [Workers -> {"lock", "sleep", "run", "exit"}]
  /\ task \in [Workers -> Task \cup {NoTask}]
  /\ \A w \in Workers : pcW[w] = "run" => task[w] \in Task
  /\ pcK \in [Callers -> {"idle", "notify", "get"}]
  /\ calls \in [Callers -> 0 .. MaxCalls]
  /\ owner \in {"run", "notify", "join", "deleted"}
  /\ accepted \in Seq(Task)
  /\ started \in Seq(Task)
  /\ finished \subseteq Task

(* Tasks start in the order they were queued, each once, and none is lost:  *)
(* the queue is what was accepted and has not started (lines 35-36, 63-70). *)
StartedInOrder == accepted = started \o tasks

(* A task that started either has finished or is being run, and no two      *)
(* workers run the same task.                                               *)
RunByOneWorker ==
  /\ \A i \in 1 .. Len(started) :
       \/ started[i] \in finished
       \/ \E w \in Workers : pcW[w] = "run" /\ task[w] = started[i]
  /\ \A v, w \in Workers :
       pcW[v] = "run" /\ pcW[w] = "run" /\ task[v] = task[w] => v = w

(* Notifications after the unlock lose no parallelism: while some worker    *)
(* sleeps, every waiting task has a worker on its way to the queue or a     *)
(* caller about to notify one (lines 29, 72).                               *)
NoIdleWorker ==
  Sleepers # {} =>
    Len(tasks) <= Cardinality({w \in Workers : pcW[w] = "lock"})
                    + Cardinality({c \in Callers : pcK[c] = "notify"})

(* Once the destructor has returned every accepted task has been run, also  *)
(* those enqueued while it was starting (lines 31-33, 76-86).               *)
DeletedDrained ==
  owner = "deleted" =>
    \A i \in 1 .. Len(accepted) : accepted[i] \in finished

(* Callers, workers and the destructor never all wait for one another:      *)
(* while a caller waits for a task that has not been run, or the destructor *)
(* for a worker, there is a worker that does not sleep or a caller that is  *)
(* about to wake one, although the destructor sets the flag and notifies in *)
(* two steps and callers notify after the unlock (lines 27-42, 72, 76-86).  *)
NeverAllWait ==
  \/ \E c \in Callers : pcK[c] = "get" /\ CurrentTask(c) \notin finished
  \/ owner = "join" /\ \E w \in Workers : pcW[w] # "exit"
  => \/ \E w \in Workers : pcW[w] \in {"lock", "run"}
     \/ \E c \in Callers : pcK[c] = "notify"

(* Every future becomes ready, also when the pool is being destroyed.       *)
GetReturns == \A c \in Callers : pcK[c] = "get" ~> pcK[c] = "idle"

(* The destructor returns.                                                  *)
DtorReturns == owner = "notify" ~> owner = "deleted"
=============================================================================
