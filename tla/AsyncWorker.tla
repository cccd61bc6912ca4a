----------------------------- MODULE AsyncWorker -----------------------------
(***************************************************************************)
(* Chronicle::AsyncWorker (AsyncWorker.hpp): producers Push log lines into  *)
(* one buffer, a single consumer thread swaps it with a second buffer and   *)
(* hands that one to the flush callback, Stop ends the consumer.            *)
(*                                                                          *)
(* Grain of atomicity.  Whatever a thread does between taking _m_mtx and    *)
(* releasing it is one step, except for condition_variable::wait: there the *)
(* predicate is evaluated (the thread keeps the mutex, pc "block") and only *)
(* in a later step the thread goes to sleep and releases the mutex.  The    *)
(* two are told apart because Stop writes _m_isStop and notifies without    *)
(* the mutex, so both can fall between them.  The other reads of _m_isStop  *)
(* in a critical section agree with the first or with a Stop that came just *)
(* before it, so merging them loses no behaviour.                           *)
(***************************************************************************)
EXTENDS AsyncBuffer

CONSTANTS
  Producers,       \* threads that call Push
  ConsumerThread,  \* the thread that runs ConsumerThreadEntry
  NoThread,        \* nobody holds the mutex
  AsyncType,       \* "ASYNC_SAFE" or "ASYNC_UNSAFE"
  Lens,            \* lengths of the lines that may be logged
  StopWhileBusy,   \* FALSE: only ~AsyncWorker stops, after the last Push;
                   \* TRUE: the public Stop() may come at any time
  MaxPush,         \* bound: calls of Push per producer
  MaxSpurious      \* bound: spurious wake-ups in a behaviour

ASSUME Threads ==
  /\ ConsumerThread \notin Producers
  /\ NoThread \notin Producers
  /\ ConsumerThread # NoThread

ASSUME WorkerConfig ==
  /\ AsyncType \in {"ASYNC_SAFE", "ASYNC_UNSAFE"}
  /\ Lens \subseteq Nat \ {0}
  /\ StopWhileBusy \in BOOLEAN
  /\ MaxPush \in Nat
  /\ MaxSpurious \in Nat

VARIABLES
  isStop,      \* _m_isStop
  mtx,         \* holder of _m_mtx across steps
  productor,   \* _m_buffer_productor
  consumer,    \* _m_buffer_consumer
  pcP,         \* where each producer stands in Push
  pcC,         \* where the consumer stands in its loop
  owner,       \* where the owner stands: constructor, running, in Stop
  line,        \* the line each producer logs, or logged last
  spurious,    \* spurious wake-ups so far
  accepted,    \* history: lines written to the buffer, in order
  flushed      \* history: lines handed to the callback, in order

vars == <<isStop, mtx, productor, consumer, pcP, pcC, owner, line, spurious,
          accepted, flushed>>

(***************************************************************************)
(* A line is named by its producer and the number of the call that logs it. *)
(***************************************************************************)
Line == [from : Producers, num : 1 .. MaxPush, len : Lens]

Safe == AsyncType = "ASYNC_SAFE"

Init ==
  /\ isStop = FALSE
  /\ mtx = NoThread
  /\ productor = NewBuffer
  /\ consumer = NewBuffer
  /\ pcP = [p \in Producers |-> "idle"]
  /\ pcC = "lock"
  /\ owner = "ctor"
  /\ line = [p \in Producers |-> [from |-> p, num |-> 0, len |-> 0]]
  /\ spurious = 0
  /\ accepted = << >>
  /\ flushed = << >>

(***************************************************************************)
(* The thread is started by the initialiser of _m_thread, before            *)
(* _m_callback_func is constructed: the consumer may run meanwhile.         *)
(***************************************************************************)
ConstructDone ==
  /\ owner = "ctor"
  /\ owner' = "run"
  /\ UNCHANGED <<isStop, mtx, productor, consumer, pcP, pcC, line, spurious,
                 accepted, flushed>>

-----------------------------------------------------------------------------
(* Producers: Push                                                          *)

(* Faulty variant: callable before the constructor is over. *)
PushCallEarly(p) ==
  /\ pcP[p] = "idle"
  /\ line[p].num < MaxPush
  /\ \E n \in Lens :
       line' = [line EXCEPT ![p] = [from |-> p, num |-> @.num + 1, len |-> n]]
  /\ pcP' = [pcP EXCEPT ![p] = "lock"]
  /\ UNCHANGED <<isStop, mtx, productor, consumer, pcC, owner, spurious,
                 accepted, flushed>>

PushCall(p) ==
  /\ pcP[p] = "idle"
  /\ line[p].num < MaxPush
  /\ owner = "run" \/ (StopWhileBusy /\ owner # "ctor")
  /\ \E n \in Lens :
       line' = [line EXCEPT ![p] = [from |-> p, num |-> @.num + 1, len |-> n]]
  /\ pcP' = [pcP EXCEPT ![p] = "lock"]
  /\ UNCHANGED <<isStop, mtx, productor, consumer, pcC, owner, spurious,
                 accepted, flushed>>

Fits(p) == line[p].len <= WriteableSize(productor)

(***************************************************************************)
(* "lock": first attempt, "woken": after a sleep; both need the mutex.      *)
(***************************************************************************)
TakesMutex(p) == pcP[p] \in {"lock", "woken"} /\ mtx = NoThread

PushWait(p) ==
  /\ TakesMutex(p)
  /\ Safe /\ ~isStop /\ ~Fits(p)
  /\ mtx' = p
  /\ pcP' = [pcP EXCEPT ![p] = "block"]
  /\ UNCHANGED <<isStop, productor, consumer, pcC, owner, line, spurious,
                 accepted, flushed>>

PushSleep(p) ==
  /\ pcP[p] = "block"
  /\ mtx' = NoThread
  /\ pcP' = [pcP EXCEPT ![p] = "sleep"]
  /\ UNCHANGED <<isStop, productor, consumer, pcC, owner, line, spurious,
                 accepted, flushed>>

(***************************************************************************)
(* SAFE mode, stopped: Push returns and the line is dropped.                *)
(***************************************************************************)
PushReturn(p) ==
  /\ TakesMutex(p)
  /\ Safe /\ isStop
  /\ pcP' = [pcP EXCEPT ![p] = "idle"]
  /\ UNCHANGED <<isStop, mtx, productor, consumer, pcC, owner, line, spurious,
                 accepted, flushed>>

(* Faulty variant: the notification is forgotten. *)
WakeNobody == UNCHANGED pcC

WakeConsumer == pcC' = IF pcC = "sleep" THEN "lock" ELSE pcC

PushWrite(p) ==
  /\ TakesMutex(p)
  /\ Safe => ~isStop /\ Fits(p)
  /\ productor' = Push(productor, line[p])
  /\ accepted' = Append(accepted, line[p])
  /\ WakeConsumer
  /\ pcP' = [pcP EXCEPT ![p] = "idle"]
  /\ UNCHANGED <<isStop, mtx, consumer, owner, line, spurious, flushed>>

-----------------------------------------------------------------------------
(* The consumer: ConsumerThreadEntry                                        *)

ConsumerWait ==
  /\ pcC = "lock" /\ mtx = NoThread
  /\ ~isStop /\ IsEmpty(productor)
  /\ mtx' = ConsumerThread
  /\ pcC' = "block"
  /\ UNCHANGED <<isStop, productor, consumer, pcP, owner, line, spurious,
                 accepted, flushed>>

ConsumerSleep ==
  /\ pcC = "block"
  /\ mtx' = NoThread
  /\ pcC' = "sleep"
  /\ UNCHANGED <<isStop, productor, consumer, pcP, owner, line, spurious,
                 accepted, flushed>>

(* Faulty variant: leaves without looking at the buffer. *)
ConsumerExitAtOnce ==
  /\ pcC = "lock" /\ mtx = NoThread
  /\ isStop
  /\ pcC' = "done"
  /\ UNCHANGED <<isStop, mtx, productor, consumer, pcP, owner, line, spurious,
                 accepted, flushed>>

ConsumerExit ==
  /\ pcC = "lock" /\ mtx = NoThread
  /\ isStop /\ IsEmpty(productor)
  /\ pcC' = "done"
  /\ UNCHANGED <<isStop, mtx, productor, consumer, pcP, owner, line, spurious,
                 accepted, flushed>>

Sleepers == {p \in Producers : pcP[p] = "sleep"}

(* Faulty variant: the swap does not notify. *)
WakeNoProducer == UNCHANGED pcP

(***************************************************************************)
(* notify_one: some sleeping producer, if there is one, is woken.           *)
(***************************************************************************)
WakeOneProducer ==
  IF Sleepers = {}
  THEN UNCHANGED pcP
  ELSE \E p \in Sleepers : pcP' = [pcP EXCEPT ![p] = "woken"]

(* Faulty variant: a copy instead of an exchange. *)
ConsumerCopy ==
  /\ pcC = "lock" /\ mtx = NoThread
  /\ ~IsEmpty(productor)
  /\ consumer' = productor
  /\ IF Safe THEN WakeOneProducer ELSE UNCHANGED pcP
  /\ pcC' = "flush"
  /\ UNCHANGED <<isStop, mtx, productor, owner, line, spurious, accepted,
                 flushed>>

ConsumerSwap ==
  /\ pcC = "lock" /\ mtx = NoThread
  /\ ~IsEmpty(productor)
  /\ productor' = consumer
  /\ consumer' = productor
  /\ IF Safe THEN WakeOneProducer ELSE UNCHANGED pcP
  /\ pcC' = "flush"
  /\ UNCHANGED <<isStop, mtx, owner, line, spurious, accepted, flushed>>

(* Faulty variant: Reset is forgotten. *)
ConsumerFlushOnly ==
  /\ pcC = "flush"
  /\ flushed' = flushed \o consumer.data
  /\ pcC' = "lock"
  /\ UNCHANGED <<isStop, mtx, productor, consumer, pcP, owner, line, spurious,
                 accepted>>

(***************************************************************************)
(* The callback and Reset, outside the mutex: nobody else touches consumer. *)
(***************************************************************************)
ConsumerFlush ==
  /\ pcC = "flush"
  /\ flushed' = flushed \o consumer.data
  /\ consumer' = Reset(consumer)
  /\ pcC' = "lock"
  /\ UNCHANGED <<isStop, mtx, productor, pcP, owner, line, spurious, accepted>>

-----------------------------------------------------------------------------
(* The owner: Stop.  No step of it takes the mutex.                         *)

StopSet ==
  /\ owner = "run"
  /\ StopWhileBusy \/ \A p \in Producers : pcP[p] = "idle"
  /\ isStop' = TRUE
  /\ owner' = "notify"
  /\ UNCHANGED <<mtx, productor, consumer, pcP, pcC, line, spurious, accepted,
                 flushed>>

StopNotify ==
  /\ owner = "notify"
  /\ WakeConsumer
  /\ owner' = "join"
  /\ UNCHANGED <<isStop, mtx, productor, consumer, pcP, line, spurious,
                 accepted, flushed>>

StopJoin ==
  /\ owner = "join"
  /\ pcC = "done"
  /\ owner' = "stopped"
  /\ UNCHANGED <<isStop, mtx, productor, consumer, pcP, pcC, line, spurious,
                 accepted, flushed>>

-----------------------------------------------------------------------------
(* condition_variable::wait may return for no reason.                       *)

SpuriousProducer(p) ==
  /\ pcP[p] = "sleep"
  /\ spurious < MaxSpurious
  /\ spurious' = spurious + 1
  /\ pcP' = [pcP EXCEPT ![p] = "woken"]
  /\ UNCHANGED <<isStop, mtx, productor, consumer, pcC, owner, line, accepted,
                 flushed>>

SpuriousConsumer ==
  /\ pcC = "sleep"
  /\ spurious < MaxSpurious
  /\ spurious' = spurious + 1
  /\ pcC' = "lock"
  /\ UNCHANGED <<isStop, mtx, productor, consumer, pcP, owner, line, accepted,
                 flushed>>

-----------------------------------------------------------------------------
PushStep(p) == PushWait(p) \/ PushSleep(p) \/ PushReturn(p) \/ PushWrite(p)

ConsumerStep ==
  ConsumerWait \/ ConsumerSleep \/ ConsumerExit \/ ConsumerSwap \/ ConsumerFlush

StopStep == StopNotify \/ StopJoin

Next ==
  \/ ConstructDone
  \/ \E p \in Producers : PushCall(p) \/ PushStep(p) \/ SpuriousProducer(p)
  \/ ConsumerStep
  \/ StopSet \/ StopStep
  \/ SpuriousConsumer

Spec == Init /\ [][Next]_vars

(***************************************************************************)
(* The operating system runs every runnable thread.  Nobody has to log, to  *)
(* stop the worker, or to be woken for no reason.                           *)
(***************************************************************************)
Fairness ==
  /\ WF_vars(ConstructDone)
  /\ \A p \in Producers : WF_vars(PushStep(p))
  /\ WF_vars(ConsumerStep)
  /\ WF_vars(StopStep)

FairSpec == Spec /\ Fairness

-----------------------------------------------------------------------------
(* Type invariant: the variables have the shapes the code gives them.       *)
BufferType == [size : Nat \ {0}, wpos : Nat, rpos : {0}, data : Seq(Line)]

TypeOK ==
  /\ isStop \in BOOLEAN
  /\ mtx \in Producers \cup {ConsumerThread, NoThread}
  /\ productor \in BufferType
  /\ consumer \in BufferType
  /\ pcP \in [Producers -> {"idle", "lock", "block", "sleep", "woken"}]
  /\ pcC \in {"lock", "block", "sleep", "flush", "done"}
  /\ owner \in {"ctor", "run", "notify", "join", "stopped"}
  /\ line \in [Producers -> [from : Producers, num : 0 .. MaxPush,
                             len : Lens \cup {0}]]
  /\ spurious \in 0 .. MaxSpurious
  /\ accepted \in Seq(Line)
  /\ flushed \in Seq(Line)

(* Nothing is lost, duplicated or reordered between Push and the callback:  *)
(* what was accepted is what was flushed, then what the consumer holds,     *)
(* then what waits in the producers' buffer (Push, Swap, callback, Reset).  *)
Conservation == accepted = flushed \o consumer.data \o productor.data

(* Lines of one thread reach the callback in the order it logged them, even *)
(* when its Push had to sleep and others overtook it (Push, lines 37-46).   *)
FlushedInOrder ==
  \A i, j \in 1 .. Len(flushed) :
    i < j /\ flushed[i].from = flushed[j].from => flushed[i].num < flushed[j].num

(* No lost wake-up of the consumer by producers: while it sleeps, or is     *)
(* about to, the producers' buffer is empty (wait, lines 65-67; notify 46). *)
NoLostWakeup == pcC \in {"block", "sleep"} => IsEmpty(productor)

(* One notify_one per swap is enough: while a producer sleeps and the       *)
(* worker runs, either there is something to swap, which will wake a        *)
(* producer, or a producer woken before is still to write (lines 74-78).    *)
(* It relies on every line fitting an empty buffer.                         *)
NoStrandedProducer ==
  Sleepers # {} /\ ~isStop =>
    \/ ~IsEmpty(productor)
    \/ \E p \in Producers : pcP[p] = "woken"

(* The consumer has ended only after the callback got every accepted line,  *)
(* and none is accepted afterwards: Stop drains (lines 69-72).              *)
StopDrained == pcC = "done" => flushed = accepted

(* No write runs past the buffer; a SAFE buffer never grows (comments at    *)
(* AsyncWorker.hpp:13 and AsyncBuffer.hpp:23).                              *)
WithinCapacity ==
  \A b \in {productor, consumer} :
    /\ b.wpos <= b.size
    /\ Safe => b.size = BufferSize

(* The callback, constructed after the thread started (lines 25-29), is     *)
(* never invoked before its construction is over.                           *)
CallbackReady == pcC = "flush" => owner # "ctor"

(* When Stop has returned, no producer is left blocked inside Push: what    *)
(* the comment at line 20 says of Stop.                                     *)
NoBlockedAfterStop == owner = "stopped" => Sleepers = {}

(* While the worker is not stopped every Push returns, in spite of full     *)
(* buffers, notify_one waking another thread and spurious wake-ups.         *)
PushReturns ==
  \A p \in Producers : pcP[p] # "idle" ~> pcP[p] = "idle" \/ isStop

(* Stop returns: the consumer sees the flag and ends (comment at line 50).  *)
StopReturns == owner = "notify" ~> owner = "stopped"

(* Stop returns if, once the flag is set, the consumer is seen outside the  *)
(* gap between its test of the predicate and its sleep.                     *)
StopReturnsUnlessRaced ==
  owner = "notify" /\ pcC # "block" ~> owner = "stopped"

(* The worker implements the channel of LogChannel, with its liveness.      *)
Channel == INSTANCE LogChannel WITH Lines <- Line, closed <- pcC = "done"

ImplementsChannel == Channel!ChanSpec
=============================================================================
