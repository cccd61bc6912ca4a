-------------------------- MODULE AsyncWorkerProofs ---------------------------
(***************************************************************************)
(* Theorems about AsyncWorker, for any number of producers, any lengths of  *)
(* lines and any bounds.                                                    *)
(***************************************************************************)
EXTENDS AsyncWorker, SequenceTheorems, TLAPS

-----------------------------------------------------------------------------
(* Sequences                                                                *)

(* Appending to the second half of a concatenation.                         *)
LEMMA ConcatAppend ==
  ASSUME NEW S, NEW s \in Seq(S), NEW t \in Seq(S), NEW e \in S
  PROVE  /\ s \o Append(t, e) = Append(s \o t, e)
         /\ Append(t, e) # << >>
<1>1. <<e>> \in Seq(S)
  OBVIOUS
<1>2. s \o t \in Seq(S)
  BY ConcatProperties
<1>3. Append(t, e) = t \o <<e>> /\ Append(s \o t, e) = (s \o t) \o <<e>>
  BY <1>2, AppendIsConcat
<1>4. (s \o t) \o <<e>> = s \o (t \o <<e>>)
  BY <1>1, ConcatAssociative
<1>5. Append(t, e) # << >>
  BY AppendProperties
<1> QED
  BY <1>3, <1>4, <1>5

(* Concatenation of sequences of lines is associative.                      *)
LEMMA LinesAssociate ==
  \A s, t, u \in Seq(Line) : (s \o t) \o u = s \o (t \o u)
BY ConcatAssociative

-----------------------------------------------------------------------------
(* Buffers                                                                  *)

(* Push keeps the shape of a buffer, leaves room untouched below the write  *)
(* position, and appends the line.                                          *)
LEMMA PushType ==
  ASSUME NEW b \in BufferType, NEW l \in Line
  PROVE  /\ Push(b, l) \in BufferType
         /\ Push(b, l).wpos = b.wpos + l.len
         /\ Push(b, l).rpos = b.rpos
         /\ Push(b, l).data = Append(b.data, l)
         /\ Push(b, l).size = CheckAndReserve(b, l.len).size
<1> DEFINE n == IF b.size < Threshold THEN 2 * b.size ELSE b.size + LinearGrowth
           r == CheckAndReserve(b, l.len)
<1>1. l.len \in Nat
  BY WorkerConfig DEF Line
<1>2. n \in Nat \ {0}
  BY BufferConfig DEF BufferType
<1>3. r = b \/ r = [b EXCEPT !.size = n]
  BY DEF CheckAndReserve
<1> HIDE DEF n
<1>4. /\ r \in BufferType
      /\ r.wpos = b.wpos /\ r.rpos = b.rpos /\ r.data = b.data
  BY <1>2, <1>3 DEF BufferType
<1>5. Push(b, l) = [r EXCEPT !.wpos = @ + l.len, !.data = Append(@, l)]
  BY DEF Push
<1> HIDE DEF r
<1>6. r.wpos + l.len \in Nat /\ Append(r.data, l) \in Seq(Line)
  BY <1>1, <1>4 DEF BufferType
<1>7. Push(b, l) = [size |-> r.size, wpos |-> r.wpos + l.len, rpos |-> r.rpos,
                    data |-> Append(r.data, l)]
  BY <1>4, <1>5 DEF BufferType
<1>8. /\ Push(b, l) \in BufferType
      /\ Push(b, l).wpos = r.wpos + l.len
      /\ Push(b, l).rpos = r.rpos
      /\ Push(b, l).data = Append(r.data, l)
      /\ Push(b, l).size = r.size
  BY <1>4, <1>6, <1>7 DEF BufferType
<1> QED
  BY <1>4, <1>8 DEF r

(* A reset buffer is an empty buffer of the same capacity.                  *)
LEMMA ResetType ==
  ASSUME NEW b \in BufferType
  PROVE  /\ Reset(b) \in BufferType
         /\ Reset(b).wpos = 0 /\ Reset(b).rpos = 0 /\ Reset(b).data = << >>
         /\ Reset(b).size = b.size
<1> DEFINE r == [b EXCEPT !.wpos = 0, !.rpos = 0]
<1>1. r \in BufferType /\ r.wpos = 0 /\ r.rpos = 0 /\ r.size = b.size
  BY DEF BufferType
<1>2. Reset(b) = [r EXCEPT !.data = << >>]
  BY DEF Reset
<1> HIDE DEF r
<1>3. << >> \in Seq(Line)
  OBVIOUS
<1> QED
  BY <1>1, <1>2, <1>3 DEF BufferType

(* A new buffer is empty.                                                   *)
LEMMA NewBufferType ==
  /\ NewBuffer \in BufferType
  /\ NewBuffer.wpos = 0 /\ NewBuffer.rpos = 0 /\ NewBuffer.data = << >>
  /\ NewBuffer.size = BufferSize
BY BufferConfig DEF NewBuffer, BufferType

-----------------------------------------------------------------------------
(* Type correctness                                                         *)

(* A producer inside Push has a line of its own to log.                     *)
LineInv ==
  \A p \in Producers :
    /\ line[p].from = p
    /\ pcP[p] # "idle" => line[p] \in Line

TypeInv == TypeOK /\ LineInv

LEMMA TypeInit == Init => TypeInv
<1> SUFFICES ASSUME Init PROVE TypeInv
  OBVIOUS
<1>1. TypeOK
  <2>1. productor \in BufferType /\ consumer \in BufferType
    BY NewBufferType DEF Init
  <2>2. line \in [Producers -> [from : Producers, num : 0 .. MaxPush,
                               len : Lens \cup {0}]]
    BY WorkerConfig DEF Init
  <2>3. accepted \in Seq(Line) /\ flushed \in Seq(Line)
    BY DEF Init
  <2>4. /\ pcP \in [Producers -> {"idle", "lock", "block", "sleep", "woken"}]
        /\ spurious \in 0 .. MaxSpurious
    BY WorkerConfig DEF Init
  <2>5. /\ isStop \in BOOLEAN
        /\ mtx \in Producers \cup {ConsumerThread, NoThread}
        /\ pcC \in {"lock", "block", "sleep", "flush", "done"}
        /\ owner \in {"ctor", "run", "notify", "join", "stopped"}
    BY DEF Init
  <2> QED
    BY <2>1, <2>2, <2>3, <2>4, <2>5 DEF TypeOK
<1>2. LineInv
  BY DEF Init, LineInv
<1> QED
  BY <1>1, <1>2 DEF TypeInv

LEMMA TypeStep == TypeInv /\ [Next]_vars => TypeInv'
<1> SUFFICES ASSUME TypeOK, LineInv, [Next]_vars
             PROVE  TypeOK' /\ LineInv'
  BY DEF TypeInv
<1> USE DEF TypeOK, LineInv
<1>1. CASE ConstructDone
  BY <1>1 DEF ConstructDone
<1>2. ASSUME NEW p \in Producers, PushCall(p)
      PROVE  TypeOK' /\ LineInv'
  <2> PICK n \in Lens :
        line' = [line EXCEPT ![p] = [from |-> p, num |-> @.num + 1, len |-> n]]
    BY <1>2 DEF PushCall
  <2>1. line[p].num + 1 \in 1 .. MaxPush
    BY <1>2, WorkerConfig DEF PushCall
  <2>2. line'[p] \in Line /\ line'[p].from = p
    BY <2>1 DEF Line
  <2>3. /\ line' \in [Producers -> [from : Producers, num : 0 .. MaxPush,
                                    len : Lens \cup {0}]]
        /\ \A q \in Producers : q # p => line'[q] = line[q]
    BY <2>1
  <2>4. TypeOK'
    BY <1>2, <2>3 DEF PushCall
  <2>5. LineInv'
    BY <1>2, <2>2, <2>3 DEF PushCall
  <2> QED
    BY <2>4, <2>5
<1>3. ASSUME NEW p \in Producers, PushWait(p)
      PROVE  TypeOK' /\ LineInv'
  BY <1>3 DEF PushWait, TakesMutex
<1>4. ASSUME NEW p \in Producers, PushSleep(p)
      PROVE  TypeOK' /\ LineInv'
  BY <1>4 DEF PushSleep
<1>5. ASSUME NEW p \in Producers, PushReturn(p)
      PROVE  TypeOK' /\ LineInv'
  BY <1>5 DEF PushReturn, TakesMutex
<1>6. ASSUME NEW p \in Producers, PushWrite(p)
      PROVE  TypeOK' /\ LineInv'
  <2>1. line[p] \in Line
    BY <1>6 DEF PushWrite, TakesMutex
  <2>2. productor' \in BufferType
    BY <1>6, <2>1, PushType DEF PushWrite
  <2>3. accepted' \in Seq(Line)
    BY <1>6, <2>1 DEF PushWrite
  <2> QED
    BY <1>6, <2>2, <2>3 DEF PushWrite, WakeConsumer
<1>7. ASSUME NEW p \in Producers, SpuriousProducer(p)
      PROVE  TypeOK' /\ LineInv'
  BY <1>7, WorkerConfig DEF SpuriousProducer
<1>8. CASE ConsumerWait
  BY <1>8 DEF ConsumerWait
<1>9. CASE ConsumerSleep
  BY <1>9 DEF ConsumerSleep
<1>10. CASE ConsumerExit
  BY <1>10 DEF ConsumerExit
<1>11. CASE ConsumerSwap
  <2>1. /\ pcP' \in [Producers -> {"idle", "lock", "block", "sleep", "woken"}]
        /\ \A p \in Producers : pcP'[p] # "idle" => pcP[p] # "idle"
    BY <1>11 DEF ConsumerSwap, WakeOneProducer, Sleepers
  <2> QED
    BY <1>11, <2>1 DEF ConsumerSwap
<1>12. CASE ConsumerFlush
  <2>1. consumer' \in BufferType
    BY <1>12, ResetType DEF ConsumerFlush
  <2>2. flushed' \in Seq(Line)
    BY <1>12, ConcatProperties DEF ConsumerFlush, BufferType
  <2> QED
    BY <1>12, <2>1, <2>2 DEF ConsumerFlush
<1>13. CASE StopSet
  BY <1>13 DEF StopSet
<1>14. CASE StopNotify
  BY <1>14 DEF StopNotify, WakeConsumer
<1>15. CASE StopJoin
  BY <1>15 DEF StopJoin
<1>16. CASE SpuriousConsumer
  BY <1>16, WorkerConfig DEF SpuriousConsumer
<1>17. CASE UNCHANGED vars
  BY <1>17 DEF vars
<1> QED
  BY <1>1, <1>2, <1>3, <1>4, <1>5, <1>6, <1>7, <1>8, <1>9, <1>10, <1>11, <1>12,
     <1>13, <1>14, <1>15, <1>16, <1>17
  DEF Next, PushStep, ConsumerStep, StopStep

(* The variables keep their types.                                          *)
THEOREM TypeCorrect == Spec => []TypeOK
<1>1. Spec => []TypeInv
  BY TypeInit, TypeStep, PTL DEF Spec
<1>2. TypeInv => TypeOK
  BY DEF TypeInv
<1> QED
  BY <1>1, <1>2, PTL

-----------------------------------------------------------------------------
(* The mutex                                                                *)

(* Between its test and its sleep a thread holds the mutex, and nobody else *)
(* holds it across steps.                                                   *)
MutexInv ==
  /\ \A p \in Producers : pcP[p] = "block" <=> mtx = p
  /\ pcC = "block" <=> mtx = ConsumerThread

LEMMA MutexInit == Init => MutexInv
BY Threads DEF Init, MutexInv

LEMMA MutexStep == TypeInv /\ MutexInv /\ [Next]_vars => MutexInv'
<1> SUFFICES ASSUME TypeOK, MutexInv, [Next]_vars PROVE MutexInv'
  BY DEF TypeInv
<1> USE Threads DEF TypeOK, MutexInv
<1>1. CASE ConstructDone
  BY <1>1 DEF ConstructDone
<1>2. ASSUME NEW p \in Producers, PushCall(p) PROVE MutexInv'
  BY <1>2 DEF PushCall
<1>3. ASSUME NEW p \in Producers, PushWait(p) PROVE MutexInv'
  BY <1>3 DEF PushWait, TakesMutex
<1>4. ASSUME NEW p \in Producers, PushSleep(p) PROVE MutexInv'
  BY <1>4 DEF PushSleep
<1>5. ASSUME NEW p \in Producers, PushReturn(p) PROVE MutexInv'
  BY <1>5 DEF PushReturn, TakesMutex
<1>6. ASSUME NEW p \in Producers, PushWrite(p) PROVE MutexInv'
  BY <1>6 DEF PushWrite, TakesMutex, WakeConsumer
<1>7. ASSUME NEW p \in Producers, SpuriousProducer(p) PROVE MutexInv'
  BY <1>7 DEF SpuriousProducer
<1>8. CASE ConsumerWait
  BY <1>8 DEF ConsumerWait
<1>9. CASE ConsumerSleep
  BY <1>9 DEF ConsumerSleep
<1>10. CASE ConsumerExit
  BY <1>10 DEF ConsumerExit
<1>11. CASE ConsumerSwap
  BY <1>11 DEF ConsumerSwap, WakeOneProducer, Sleepers
<1>12. CASE ConsumerFlush
  BY <1>12 DEF ConsumerFlush
<1>13. CASE StopSet
  BY <1>13 DEF StopSet
<1>14. CASE StopNotify
  BY <1>14 DEF StopNotify, WakeConsumer
<1>15. CASE StopJoin
  BY <1>15 DEF StopJoin
<1>16. CASE SpuriousConsumer
  BY <1>16 DEF SpuriousConsumer
<1>17. CASE UNCHANGED vars
  BY <1>17 DEF vars
<1> QED
  BY <1>1, <1>2, <1>3, <1>4, <1>5, <1>6, <1>7, <1>8, <1>9, <1>10, <1>11, <1>12,
     <1>13, <1>14, <1>15, <1>16, <1>17
  DEF Next, PushStep, ConsumerStep, StopStep

-----------------------------------------------------------------------------
(* The contents of the buffers                                              *)

(* The write position and the contents agree on emptiness; the consumer's   *)
(* buffer holds lines only while they are being flushed; nothing is lost;   *)
(* the consumer sleeps on an empty buffer only.                             *)
BufferInv ==
  /\ productor.wpos = 0 <=> productor.data = << >>
  /\ consumer.wpos = 0 <=> consumer.data = << >>
  /\ pcC = "flush" <=> consumer.data # << >>
  /\ Conservation
  /\ NoLostWakeup

LEMMA BufferInit == Init => BufferInv
<1> SUFFICES ASSUME Init PROVE BufferInv
  OBVIOUS
<1>1. << >> = << >> \o << >> \o << >>
  BY ConcatEmptySeq, EmptySeq
<1> QED
  BY <1>1, NewBufferType DEF Init, BufferInv, Conservation, NoLostWakeup

LEMMA BufferStep == TypeInv /\ MutexInv /\ BufferInv /\ [Next]_vars => BufferInv'
<1> SUFFICES ASSUME TypeInv, TypeOK, MutexInv, BufferInv, [Next]_vars
             PROVE  BufferInv'
  BY DEF TypeInv
<1> USE DEF BufferInv, Conservation, NoLostWakeup, IsEmpty
<1>a. /\ productor.rpos = 0 /\ consumer.rpos = 0
      /\ productor.wpos \in Nat /\ consumer.wpos \in Nat
      /\ productor.data \in Seq(Line) /\ consumer.data \in Seq(Line)
      /\ flushed \in Seq(Line) /\ accepted \in Seq(Line)
  BY DEF TypeOK, BufferType
<1>1. CASE ConstructDone
  BY <1>1 DEF ConstructDone
<1>2. ASSUME NEW p \in Producers, PushCall(p) PROVE BufferInv'
  BY <1>2 DEF PushCall
<1>3. ASSUME NEW p \in Producers, PushWait(p) PROVE BufferInv'
  BY <1>3 DEF PushWait
<1>4. ASSUME NEW p \in Producers, PushSleep(p) PROVE BufferInv'
  BY <1>4 DEF PushSleep
<1>5. ASSUME NEW p \in Producers, PushReturn(p) PROVE BufferInv'
  BY <1>5 DEF PushReturn
<1>6. ASSUME NEW p \in Producers, PushWrite(p) PROVE BufferInv'
  <2>1. line[p] \in Line /\ line[p].len \in Nat \ {0}
    BY <1>6, WorkerConfig DEF PushWrite, TakesMutex, TypeInv, LineInv, Line
  <2>2. /\ productor'.wpos = productor.wpos + line[p].len
        /\ productor'.rpos = productor.rpos
        /\ productor'.data = Append(productor.data, line[p])
    BY <1>6, <2>1, PushType DEF PushWrite, TypeOK
  <2>3. productor'.wpos # 0
    BY <1>a, <2>1, <2>2
  <2> DEFINE fc == flushed \o consumer.data
  <2>4. /\ accepted' = fc \o productor'.data
        /\ productor'.data # << >>
    <3>1. fc \in Seq(Line)
      BY <1>a, ConcatProperties
    <3>2. accepted' = Append(fc \o productor.data, line[p])
      BY <1>6 DEF PushWrite
    <3> HIDE DEF fc
    <3>3. /\ fc \o Append(productor.data, line[p]) = Append(fc \o productor.data, line[p])
          /\ Append(productor.data, line[p]) # << >>
      <4> SUFFICES ASSUME NEW d, d = productor.data, NEW e, e = line[p]
                   PROVE  fc \o Append(d, e) = Append(fc \o d, e) /\ Append(d, e) # << >>
        OBVIOUS
      <4>1. d \in Seq(Line) /\ e \in Line
        BY <1>a, <2>1
      <4> QED
        BY <4>1, <3>1, ConcatAppend
    <3> QED
      BY <2>2, <3>2, <3>3
  <2>5. pcC # "block" /\ pcC' \notin {"block", "sleep"} /\ (pcC' = "flush" <=> pcC = "flush")
    BY <1>6, Threads DEF PushWrite, TakesMutex, WakeConsumer, MutexInv
  <2>6. UNCHANGED <<consumer, flushed>>
    BY <1>6 DEF PushWrite
  <2> QED
    BY <2>3, <2>4, <2>5, <2>6
<1>7. ASSUME NEW p \in Producers, SpuriousProducer(p) PROVE BufferInv'
  BY <1>7 DEF SpuriousProducer
<1>8. CASE ConsumerWait
  BY <1>8 DEF ConsumerWait
<1>9. CASE ConsumerSleep
  BY <1>9 DEF ConsumerSleep
<1>10. CASE ConsumerExit
  BY <1>10 DEF ConsumerExit
<1>11. CASE ConsumerSwap
  <2>1. /\ productor' = consumer /\ consumer' = productor
        /\ pcC = "lock" /\ pcC' = "flush"
        /\ UNCHANGED <<accepted, flushed>>
        /\ productor.data # << >>
    BY <1>11, <1>a DEF ConsumerSwap
  <2>2. consumer.data = << >>
    BY <2>1
  <2>3. flushed \o << >> \o productor.data = flushed \o productor.data \o << >>
    BY <1>a, ConcatEmptySeq, ConcatProperties
  <2> QED
    BY <2>1, <2>2, <2>3
<1>12. CASE ConsumerFlush
  <2>1. /\ flushed' = flushed \o consumer.data
        /\ consumer'.wpos = 0 /\ consumer'.data = << >>
        /\ pcC' = "lock"
        /\ UNCHANGED <<accepted, productor>>
    BY <1>12, ResetType DEF ConsumerFlush, TypeOK
  <2>2. flushed' \in Seq(Line)
    BY <1>a, <2>1, ConcatProperties
  <2>3. flushed' \o << >> = flushed'
    BY <2>2, ConcatEmptySeq
  <2> QED
    BY <2>1, <2>3
<1>13. CASE StopSet
  BY <1>13 DEF StopSet
<1>14. CASE StopNotify
  BY <1>14 DEF StopNotify, WakeConsumer
<1>15. CASE StopJoin
  BY <1>15 DEF StopJoin
<1>16. CASE SpuriousConsumer
  BY <1>16 DEF SpuriousConsumer
<1>17. CASE UNCHANGED vars
  BY <1>17 DEF vars
<1> QED
  BY <1>1, <1>2, <1>3, <1>4, <1>5, <1>6, <1>7, <1>8, <1>9, <1>10, <1>11, <1>12,
     <1>13, <1>14, <1>15, <1>16, <1>17
  DEF Next, PushStep, ConsumerStep, StopStep

(* What is inductive about the worker, whatever its mode and its callers.   *)
WorkerInv == TypeInv /\ MutexInv /\ BufferInv

LEMMA WorkerInvariant == Spec => []WorkerInv
<1>1. Init => WorkerInv
  BY TypeInit, MutexInit, BufferInit DEF WorkerInv
<1>2. WorkerInv /\ [Next]_vars => WorkerInv'
  BY TypeStep, MutexStep, BufferStep DEF WorkerInv
<1> QED
  BY <1>1, <1>2, PTL DEF Spec

(* Nothing accepted is lost, duplicated or reordered.                       *)
THEOREM NothingLost == Spec => []Conservation
<1>1. WorkerInv => Conservation
  BY DEF WorkerInv, BufferInv
<1> QED
  BY <1>1, WorkerInvariant, PTL

(* The consumer never sleeps on a buffer with lines in it.                  *)
THEOREM ConsumerWoken == Spec => []NoLostWakeup
<1>1. WorkerInv => NoLostWakeup
  BY DEF WorkerInv, BufferInv
<1> QED
  BY <1>1, WorkerInvariant, PTL

-----------------------------------------------------------------------------
(* Stop and the constructor                                                 *)

(* The regimes in which the end of the consumer is the end of the worker:   *)
(* SAFE mode, where Push looks at the flag, and a destructor that comes     *)
(* after the last Push.                                                     *)
Drains == Safe \/ ~StopWhileBusy

(* The flag is set exactly from Stop's first step on; before the worker is  *)
(* constructed nobody uses it; a destructor finds no Push in progress; a    *)
(* consumer that has ended left an empty buffer and it stays so.            *)
StopInv ==
  /\ isStop <=> owner \in {"notify", "join", "stopped"}
  /\ owner = "ctor" => accepted = << >> /\ \A p \in Producers : pcP[p] = "idle"
  /\ ~StopWhileBusy /\ isStop => \A p \in Producers : pcP[p] = "idle"
  /\ Drains /\ pcC = "done" => isStop /\ IsEmpty(productor)

LEMMA StopInit == Init => StopInv
BY DEF Init, StopInv

LEMMA StopInvStep == WorkerInv /\ StopInv /\ [Next]_vars => StopInv'
<1> SUFFICES ASSUME TypeOK, MutexInv, StopInv, [Next]_vars PROVE StopInv'
  BY DEF WorkerInv, TypeInv
<1> USE DEF StopInv
<1>1. CASE ConstructDone
  BY <1>1 DEF ConstructDone
<1>2. ASSUME NEW p \in Producers, PushCall(p) PROVE StopInv'
  BY <1>2, WorkerConfig DEF PushCall, TypeOK
<1>3. ASSUME NEW p \in Producers, PushWait(p) PROVE StopInv'
  BY <1>3 DEF PushWait, TakesMutex, TypeOK
<1>4. ASSUME NEW p \in Producers, PushSleep(p) PROVE StopInv'
  BY <1>4 DEF PushSleep, TypeOK
<1>5. ASSUME NEW p \in Producers, PushReturn(p) PROVE StopInv'
  BY <1>5 DEF PushReturn, TakesMutex, TypeOK
<1>6. ASSUME NEW p \in Producers, PushWrite(p) PROVE StopInv'
  <2>1. pcP[p] # "idle" /\ (Safe => ~isStop)
    BY <1>6 DEF PushWrite, TakesMutex
  <2>2. ~(Drains /\ pcC = "done")
    BY <2>1 DEF Drains
  <2>3. pcC' = "done" => pcC = "done"
    BY <1>6 DEF PushWrite, WakeConsumer
  <2>4. owner # "ctor" /\ (StopWhileBusy \/ ~isStop)
    BY <2>1
  <2>5. UNCHANGED <<owner, isStop>>
    BY <1>6 DEF PushWrite
  <2> QED
    BY <2>2, <2>3, <2>4, <2>5
<1>7. ASSUME NEW p \in Producers, SpuriousProducer(p) PROVE StopInv'
  BY <1>7 DEF SpuriousProducer, TypeOK
<1>8. CASE ConsumerWait
  BY <1>8 DEF ConsumerWait
<1>9. CASE ConsumerSleep
  BY <1>9 DEF ConsumerSleep
<1>10. CASE ConsumerExit
  BY <1>10 DEF ConsumerExit
<1>11. CASE ConsumerSwap
  <2>1. \A p \in Producers : pcP[p] = "idle" => pcP'[p] = "idle"
    BY <1>11 DEF ConsumerSwap, WakeOneProducer, Sleepers, TypeOK
  <2> QED
    BY <1>11, <2>1 DEF ConsumerSwap
<1>12. CASE ConsumerFlush
  BY <1>12 DEF ConsumerFlush
<1>13. CASE StopSet
  BY <1>13 DEF StopSet
<1>14. CASE StopNotify
  BY <1>14 DEF StopNotify, WakeConsumer
<1>15. CASE StopJoin
  BY <1>15 DEF StopJoin
<1>16. CASE SpuriousConsumer
  BY <1>16 DEF SpuriousConsumer
<1>17. CASE UNCHANGED vars
  BY <1>17 DEF vars
<1> QED
  BY <1>1, <1>2, <1>3, <1>4, <1>5, <1>6, <1>7, <1>8, <1>9, <1>10, <1>11, <1>12,
     <1>13, <1>14, <1>15, <1>16, <1>17
  DEF Next, PushStep, ConsumerStep, StopStep

LEMMA StopInvariant == Spec => [](WorkerInv /\ StopInv)
<1>1. WorkerInv /\ StopInv /\ [Next]_vars => StopInv'
  BY StopInvStep
<1> QED
  BY <1>1, StopInit, WorkerInvariant, PTL DEF Spec

(* With both buffers empty everything accepted has been flushed.            *)
LEMMA AllFlushed ==
  ASSUME TypeInv, BufferInv, IsEmpty(productor), pcC # "flush"
  PROVE  flushed = accepted
<1>1. productor.data = << >> /\ consumer.data = << >>
  BY DEF TypeInv, TypeOK, BufferType, BufferInv, IsEmpty
<1>2. flushed \in Seq(Line)
  BY DEF TypeInv, TypeOK
<1>3. flushed \o << >> = flushed
  BY <1>2, ConcatEmptySeq
<1> QED
  BY <1>1, <1>3 DEF BufferInv, Conservation

(* The consumer ends only when every accepted line has been flushed, and    *)
(* none is accepted afterwards.                                             *)
THEOREM DrainedAtEnd ==
  ASSUME Drains
  PROVE  Spec => []StopDrained
<1>1. WorkerInv /\ StopInv => StopDrained
  BY AllFlushed DEF WorkerInv, StopInv, StopDrained
<1> QED
  BY <1>1, StopInvariant, PTL

(* The callback is never called before its construction is over.            *)
THEOREM CallbackConstructed == Spec => []CallbackReady
<1>1. ASSUME WorkerInv, StopInv, pcC = "flush", owner = "ctor"
      PROVE  FALSE
  <2>1. /\ consumer.data \in Seq(Line) /\ productor.data \in Seq(Line)
        /\ flushed \in Seq(Line)
    BY <1>1 DEF WorkerInv, TypeInv, TypeOK, BufferType
  <2>2. /\ consumer.data # << >>
        /\ flushed \o consumer.data \o productor.data = << >>
    BY <1>1 DEF WorkerInv, BufferInv, StopInv, Conservation
  <2>3. flushed \o consumer.data \in Seq(Line)
    BY <2>1, ConcatProperties
  <2>4. flushed \o consumer.data = << >>
    BY <2>1, <2>2, <2>3, ConcatEqualIffEmpty
  <2> QED
    BY <2>1, <2>2, <2>4, ConcatEqualIffEmpty
<1>2. WorkerInv /\ StopInv => CallbackReady
  BY <1>1 DEF CallbackReady
<1> QED
  BY <1>2, StopInvariant, PTL

-----------------------------------------------------------------------------
(* Order                                                                    *)

(* Lines were accepted in the order of their producer's calls, and the line *)
(* a producer is about to write is later than all it has written.           *)
OrderInv ==
  /\ \A i, j \in 1 .. Len(accepted) :
       i < j /\ accepted[i].from = accepted[j].from
         => accepted[i].num < accepted[j].num
  /\ \A i \in 1 .. Len(accepted) :
       LET p == accepted[i].from
       IN  /\ accepted[i].num <= line[p].num
           /\ pcP[p] # "idle" => accepted[i].num < line[p].num

LEMMA OrderStep == TypeInv /\ OrderInv /\ [Next]_vars => OrderInv'
<1> SUFFICES ASSUME TypeOK, LineInv, OrderInv, [Next]_vars PROVE OrderInv'
  BY DEF TypeInv
<1>a. ASSUME NEW i \in 1 .. Len(accepted)
      PROVE  /\ accepted[i] \in Line /\ accepted[i].from \in Producers
             /\ accepted[i].num \in Nat
  <2>1. accepted[i] \in Line
    BY DEF TypeOK
  <2> QED
    BY <2>1, WorkerConfig DEF Line
<1>b. ASSUME NEW p \in Producers PROVE line[p].num \in Nat
  BY WorkerConfig DEF TypeOK
<1>c. ASSUME UNCHANGED <<accepted, line>>,
             \A p \in Producers : pcP'[p] # "idle" => pcP[p] # "idle"
      PROVE  OrderInv'
  BY <1>a, <1>c DEF OrderInv
<1>1. CASE ConstructDone
  BY <1>1, <1>c DEF ConstructDone
<1>2. ASSUME NEW p \in Producers, PushCall(p) PROVE OrderInv'
  <2>1. /\ line'[p].num = line[p].num + 1
        /\ \A q \in Producers : q # p => line'[q] = line[q] /\ pcP'[q] = pcP[q]
        /\ UNCHANGED accepted
    BY <1>2 DEF PushCall, TypeOK
  <2> QED
    BY <2>1, <1>a, <1>b DEF OrderInv
<1>3. ASSUME NEW p \in Producers, PushWait(p) PROVE OrderInv'
  BY <1>3, <1>c DEF PushWait, TakesMutex, TypeOK
<1>4. ASSUME NEW p \in Producers, PushSleep(p) PROVE OrderInv'
  BY <1>4, <1>c DEF PushSleep, TypeOK
<1>5. ASSUME NEW p \in Producers, PushReturn(p) PROVE OrderInv'
  BY <1>5, <1>c DEF PushReturn, TakesMutex, TypeOK
<1>6. ASSUME NEW p \in Producers, PushWrite(p) PROVE OrderInv'
  <2>1. line[p] \in Line /\ line[p].from = p /\ pcP[p] # "idle"
    BY <1>6 DEF PushWrite, TakesMutex, LineInv
  <2>2. /\ Len(accepted') = Len(accepted) + 1
        /\ \A i \in 1 .. Len(accepted) : accepted'[i] = accepted[i]
        /\ accepted'[Len(accepted) + 1] = line[p]
        /\ Len(accepted) \in Nat
    BY <1>6, <2>1, AppendProperties, LenProperties DEF PushWrite, TypeOK
  <2>3. /\ pcP'[p] = "idle"
        /\ \A q \in Producers : q # p => pcP'[q] = pcP[q]
        /\ UNCHANGED line
    BY <1>6 DEF PushWrite, TypeOK
  <2>4. ASSUME NEW i \in 1 .. Len(accepted'), NEW j \in 1 .. Len(accepted'),
               i < j, accepted'[i].from = accepted'[j].from
        PROVE  accepted'[i].num < accepted'[j].num
    <3>1. i \in 1 .. Len(accepted) /\ accepted'[i] = accepted[i]
      BY <2>2, <2>4
    <3>2. CASE j = Len(accepted) + 1
      BY <2>1, <2>2, <2>4, <3>1, <3>2 DEF OrderInv
    <3>3. CASE j # Len(accepted) + 1
      BY <2>2, <2>4, <3>1, <3>3 DEF OrderInv
    <3> QED
      BY <3>2, <3>3
  <2>5. ASSUME NEW i \in 1 .. Len(accepted')
        PROVE  LET q == accepted'[i].from
               IN  /\ accepted'[i].num <= line'[q].num
                   /\ pcP'[q] # "idle" => accepted'[i].num < line'[q].num
    <3>1. CASE i = Len(accepted) + 1
      BY <1>b, <2>1, <2>2, <2>3, <3>1
    <3>2. CASE i \in 1 .. Len(accepted)
      BY <1>a, <2>2, <2>3, <3>2 DEF OrderInv
    <3> QED
      BY <2>2, <3>1, <3>2
  <2> QED
    BY <2>4, <2>5 DEF OrderInv
<1>7. ASSUME NEW p \in Producers, SpuriousProducer(p) PROVE OrderInv'
  BY <1>7, <1>c DEF SpuriousProducer, TypeOK
<1>8. CASE ConsumerWait
  BY <1>8, <1>c DEF ConsumerWait
<1>9. CASE ConsumerSleep
  BY <1>9, <1>c DEF ConsumerSleep
<1>10. CASE ConsumerExit
  BY <1>10, <1>c DEF ConsumerExit
<1>11. CASE ConsumerSwap
  <2>1. \A p \in Producers : pcP'[p] # "idle" => pcP[p] # "idle"
    BY <1>11 DEF ConsumerSwap, WakeOneProducer, Sleepers, TypeOK
  <2> QED
    BY <1>11, <2>1, <1>c DEF ConsumerSwap
<1>12. CASE ConsumerFlush
  BY <1>12, <1>c DEF ConsumerFlush
<1>13. CASE StopSet
  BY <1>13, <1>c DEF StopSet
<1>14. CASE StopNotify
  BY <1>14, <1>c DEF StopNotify
<1>15. CASE StopJoin
  BY <1>15, <1>c DEF StopJoin
<1>16. CASE SpuriousConsumer
  BY <1>16, <1>c DEF SpuriousConsumer
<1>17. CASE UNCHANGED vars
  BY <1>17, <1>c DEF vars
<1> QED
  BY <1>1, <1>2, <1>3, <1>4, <1>5, <1>6, <1>7, <1>8, <1>9, <1>10, <1>11, <1>12,
     <1>13, <1>14, <1>15, <1>16, <1>17
  DEF Next, PushStep, ConsumerStep, StopStep

(* Lines of one thread reach the callback in the order it logged them.      *)
THEOREM OrderKept == Spec => []FlushedInOrder
<1>1. Init => OrderInv
  BY DEF Init, OrderInv
<1>2. WorkerInv /\ OrderInv /\ [Next]_vars => OrderInv'
  BY OrderStep DEF WorkerInv
<1>3. ASSUME WorkerInv, OrderInv
      PROVE  FlushedInOrder
  <2> DEFINE rest == consumer.data \o productor.data
  <2>1. /\ consumer.data \in Seq(Line) /\ productor.data \in Seq(Line)
        /\ flushed \in Seq(Line) /\ accepted \in Seq(Line)
    BY <1>3 DEF WorkerInv, TypeInv, TypeOK, BufferType
  <2>2. rest \in Seq(Line) /\ accepted = flushed \o rest
    <3>1. rest \in Seq(Line)
      BY <2>1, ConcatProperties
    <3>2. (flushed \o consumer.data) \o productor.data = flushed \o rest
      <4> SUFFICES ASSUME NEW c, c = consumer.data, NEW d, d = productor.data
                   PROVE  (flushed \o c) \o d = flushed \o (c \o d)
        OBVIOUS
      <4>1. flushed \in Seq(Line) /\ c \in Seq(Line) /\ d \in Seq(Line)
        BY <2>1
      <4> QED
        BY <4>1, LinesAssociate
    <3> QED
      BY <1>3, <3>1, <3>2 DEF WorkerInv, BufferInv, Conservation
  <2> HIDE DEF rest
  <2>3. /\ Len(accepted) = Len(flushed) + Len(rest)
        /\ Len(flushed) \in Nat /\ Len(rest) \in Nat
        /\ \A i \in 1 .. Len(flushed) : accepted[i] = flushed[i]
    BY <2>1, <2>2, ConcatProperties, LenProperties
  <2> QED
    BY <1>3, <2>3 DEF OrderInv, FlushedInOrder
<1>4. Spec => []OrderInv
  BY <1>1, <1>2, WorkerInvariant, PTL DEF Spec
<1> QED
  BY <1>3, <1>4, WorkerInvariant, PTL

-----------------------------------------------------------------------------
(* Capacity                                                                 *)

(* One enlargement makes room for any line: by doubling a buffer gains at   *)
(* least BufferSize, else LinearGrowth.                                     *)
GrowthSuffices == \A n \in Lens : n <= BufferSize /\ n <= LinearGrowth

Bounded(b) ==
  /\ BufferSize <= b.size
  /\ Safe => b.size = BufferSize
  /\ Safe \/ GrowthSuffices => b.wpos <= b.size

CapacityInv == Bounded(productor) /\ Bounded(consumer)

(* A Push that found room, or whose one enlargement suffices, stays within  *)
(* the buffer.                                                              *)
LEMMA PushBounded ==
  ASSUME NEW b \in BufferType, Bounded(b), NEW l \in Line,
         Safe => l.len <= WriteableSize(b)
  PROVE  Bounded(Push(b, l))
<1>1. l.len \in Nat /\ l.len \in Lens
  BY WorkerConfig DEF Line
<1>2. /\ Push(b, l).wpos = b.wpos + l.len
      /\ Push(b, l).size = CheckAndReserve(b, l.len).size
  BY PushType
<1>3. b.size \in Nat /\ b.wpos \in Nat
  BY DEF BufferType
<1>4. CASE l.len <= WriteableSize(b)
  BY <1>1, <1>2, <1>3, <1>4, BufferConfig DEF CheckAndReserve, WriteableSize, Bounded
<1>5. CASE ~(l.len <= WriteableSize(b))
  <2>1. \/ CheckAndReserve(b, l.len).size = 2 * b.size
        \/ CheckAndReserve(b, l.len).size = b.size + LinearGrowth
    BY <1>5 DEF CheckAndReserve, BufferType
  <2>2. ~Safe
    BY <1>5
  <2>3. GrowthSuffices => l.len <= BufferSize /\ l.len <= LinearGrowth
    BY <1>1 DEF GrowthSuffices
  <2> QED
    BY <1>1, <1>2, <1>3, <2>1, <2>2, <2>3, BufferConfig DEF Bounded
<1> QED
  BY <1>4, <1>5

LEMMA CapacityStep == TypeInv /\ CapacityInv /\ [Next]_vars => CapacityInv'
<1> SUFFICES ASSUME TypeInv, CapacityInv, [Next]_vars PROVE CapacityInv'
  OBVIOUS
<1>a. ASSUME UNCHANGED <<productor, consumer>> PROVE CapacityInv'
  BY <1>a DEF CapacityInv, Bounded
<1>1. ASSUME NEW p \in Producers, PushWrite(p) PROVE CapacityInv'
  <2>1. line[p] \in Line
    BY <1>1 DEF PushWrite, TakesMutex, TypeInv, LineInv
  <2>2. /\ Safe => line[p].len <= WriteableSize(productor)
        /\ productor' = Push(productor, line[p]) /\ consumer' = consumer
    BY <1>1 DEF PushWrite, Fits
  <2>3. productor \in BufferType
    BY DEF TypeInv, TypeOK
  <2>4. Bounded(Push(productor, line[p]))
    BY <2>1, <2>2, <2>3, PushBounded DEF CapacityInv
  <2> QED
    BY <2>2, <2>4 DEF CapacityInv, Bounded
<1>2. CASE ConsumerSwap
  BY <1>2 DEF ConsumerSwap, CapacityInv, Bounded
<1>3. CASE ConsumerFlush
  <2>1. /\ consumer'.size = consumer.size /\ consumer'.wpos = 0
        /\ productor' = productor
    BY <1>3, ResetType DEF ConsumerFlush, TypeInv, TypeOK
  <2> QED
    BY <2>1, BufferConfig DEF CapacityInv, Bounded, TypeInv, TypeOK, BufferType
<1>4. ASSUME NEW p \in Producers,
             \/ PushCall(p) \/ PushWait(p) \/ PushSleep(p) \/ PushReturn(p)
             \/ SpuriousProducer(p)
      PROVE  CapacityInv'
  BY <1>4, <1>a DEF PushCall, PushWait, PushSleep, PushReturn, SpuriousProducer
<1>5. CASE ConstructDone \/ ConsumerWait \/ ConsumerSleep \/ ConsumerExit
           \/ StopSet \/ StopNotify \/ StopJoin \/ SpuriousConsumer
  BY <1>5, <1>a DEF ConstructDone, ConsumerWait, ConsumerSleep, ConsumerExit,
                    StopSet, StopNotify, StopJoin, SpuriousConsumer
<1>6. CASE UNCHANGED vars
  BY <1>6, <1>a DEF vars
<1> QED
  BY <1>1, <1>2, <1>3, <1>4, <1>5, <1>6
  DEF Next, PushStep, ConsumerStep, StopStep

(* No write runs past a buffer and a SAFE buffer never grows: always in     *)
(* SAFE mode, and in UNSAFE mode when one enlargement makes room for any    *)
(* line.                                                                    *)
THEOREM CapacityKept ==
  ASSUME Safe \/ GrowthSuffices
  PROVE  Spec => []WithinCapacity
<1>1. Init => CapacityInv
  BY NewBufferType, BufferConfig DEF Init, CapacityInv, Bounded
<1>2. CapacityInv => WithinCapacity
  BY DEF CapacityInv, Bounded, WithinCapacity
<1>3. WorkerInv /\ CapacityInv /\ [Next]_vars => CapacityInv'
  BY CapacityStep DEF WorkerInv
<1> QED
  BY <1>1, <1>2, <1>3, WorkerInvariant, PTL DEF Spec

-----------------------------------------------------------------------------
(* Blocked producers                                                        *)

LinesFit == \A n \in Lens : n <= BufferSize

(* A producer about to sleep has found lines in the buffer.                 *)
BlockedInv ==
  /\ \A p \in Producers : pcP[p] = "block" => ~IsEmpty(productor)
  /\ NoStrandedProducer

LEMMA BlockedStep ==
  ASSUME LinesFit, Safe
  PROVE  WorkerInv /\ CapacityInv /\ BlockedInv /\ [Next]_vars => BlockedInv'
<1> SUFFICES ASSUME TypeOK, LineInv, MutexInv, CapacityInv, BlockedInv, [Next]_vars
             PROVE  BlockedInv'
  BY DEF WorkerInv, TypeInv
<1> USE DEF BlockedInv, NoStrandedProducer, Sleepers
<1>a. /\ pcP \in [Producers -> {"idle", "lock", "block", "sleep", "woken"}]
      /\ productor.wpos \in Nat /\ productor.rpos = 0 /\ productor.size \in Nat
  BY DEF TypeOK, BufferType
<1>1. CASE ConstructDone
  BY <1>1 DEF ConstructDone
<1>2. ASSUME NEW p \in Producers, PushCall(p) PROVE BlockedInv'
  BY <1>2, <1>a DEF PushCall
<1>3. ASSUME NEW p \in Producers, PushWait(p) PROVE BlockedInv'
  <2>1. line[p] \in Line
    BY <1>3 DEF PushWait, TakesMutex, LineInv
  <2>2. line[p].len <= BufferSize /\ line[p].len \in Nat
    BY <2>1, WorkerConfig, LinesFit DEF LinesFit, Line
  <2>3. productor.size = BufferSize /\ ~(line[p].len <= productor.size - productor.wpos)
    BY <1>3 DEF PushWait, Fits, WriteableSize, CapacityInv, Bounded
  <2>4. ~IsEmpty(productor)
    BY <1>a, <2>2, <2>3 DEF IsEmpty
  <2> QED
    BY <1>3, <1>a, <2>4 DEF PushWait
<1>4. ASSUME NEW p \in Producers, PushSleep(p) PROVE BlockedInv'
  BY <1>4, <1>a DEF PushSleep
<1>5. ASSUME NEW p \in Producers, PushReturn(p) PROVE BlockedInv'
  BY <1>5, <1>a DEF PushReturn
<1>6. ASSUME NEW p \in Producers, PushWrite(p) PROVE BlockedInv'
  <2>1. line[p] \in Line /\ line[p].len \in Nat \ {0}
    BY <1>6, WorkerConfig DEF PushWrite, TakesMutex, LineInv, Line
  <2>2. /\ productor'.wpos = productor.wpos + line[p].len
        /\ productor'.rpos = productor.rpos
    BY <1>6, <2>1, PushType DEF PushWrite, TypeOK
  <2>3. ~IsEmpty(productor')
    BY <1>a, <2>1, <2>2 DEF IsEmpty
  <2> QED
    BY <2>3
<1>7. ASSUME NEW p \in Producers, SpuriousProducer(p) PROVE BlockedInv'
  BY <1>7, <1>a DEF SpuriousProducer
<1>8. CASE ConsumerWait
  BY <1>8 DEF ConsumerWait
<1>9. CASE ConsumerSleep
  BY <1>9 DEF ConsumerSleep
<1>10. CASE ConsumerExit
  BY <1>10 DEF ConsumerExit
<1>11. CASE ConsumerSwap
  <2>1. \A p \in Producers : pcP[p] # "block"
    BY <1>11, Threads DEF ConsumerSwap, MutexInv
  <2>2. CASE Sleepers # {}
    <3>1. PICK p \in Sleepers : pcP' = [pcP EXCEPT ![p] = "woken"]
      BY <1>11, <2>2 DEF ConsumerSwap, WakeOneProducer
    <3> QED
      BY <1>a, <2>1, <3>1
  <2>3. CASE Sleepers = {}
    BY <1>11, <2>1, <2>3 DEF ConsumerSwap, WakeOneProducer
  <2> QED
    BY <2>2, <2>3
<1>12. CASE ConsumerFlush
  BY <1>12 DEF ConsumerFlush
<1>13. CASE StopSet
  BY <1>13 DEF StopSet
<1>14. CASE StopNotify
  BY <1>14 DEF StopNotify
<1>15. CASE StopJoin
  BY <1>15 DEF StopJoin
<1>16. CASE SpuriousConsumer
  BY <1>16 DEF SpuriousConsumer
<1>17. CASE UNCHANGED vars
  BY <1>17 DEF vars
<1> QED
  BY <1>1, <1>2, <1>3, <1>4, <1>5, <1>6, <1>7, <1>8, <1>9, <1>10, <1>11, <1>12,
     <1>13, <1>14, <1>15, <1>16, <1>17
  DEF Next, PushStep, ConsumerStep, StopStep

(* One notify_one per swap strands nobody, when every line fits an empty    *)
(* buffer.                                                                  *)
THEOREM NobodyStranded ==
  ASSUME LinesFit, Safe
  PROVE  Spec => []NoStrandedProducer
<1>1. Init => CapacityInv /\ BlockedInv
  BY NewBufferType, BufferConfig
  DEF Init, CapacityInv, Bounded, BlockedInv, NoStrandedProducer, Sleepers
<1>2. WorkerInv /\ CapacityInv /\ BlockedInv /\ [Next]_vars => CapacityInv' /\ BlockedInv'
  BY CapacityStep, BlockedStep DEF WorkerInv
<1>3. BlockedInv => NoStrandedProducer
  BY DEF BlockedInv
<1> QED
  BY <1>1, <1>2, <1>3, WorkerInvariant, PTL DEF Spec

-----------------------------------------------------------------------------
(* Refinement                                                               *)

(* Two halves of three concatenated sequences, cut at the second seam.      *)
LEMMA PrefixOfLines ==
  \A s, t, u \in Seq(Line) :
    /\ SubSeq((s \o t) \o u, 1, Len(s \o t)) = s \o t
    /\ t # << >> => Len(s \o t) \in (Len(s) + 1) .. Len((s \o t) \o u)
<1> SUFFICES ASSUME NEW s \in Seq(Line), NEW t \in Seq(Line), NEW u \in Seq(Line)
             PROVE  /\ SubSeq((s \o t) \o u, 1, Len(s \o t)) = s \o t
                    /\ t # << >> => Len(s \o t) \in (Len(s) + 1) .. Len((s \o t) \o u)
  OBVIOUS
<1>1. s \o t \in Seq(Line) /\ Len(s \o t) = Len(s) + Len(t)
  BY ConcatProperties
<1>2. (s \o t) \o u \in Seq(Line) /\ Len((s \o t) \o u) = Len(s \o t) + Len(u)
  BY <1>1, ConcatProperties
<1>3. Len(s) \in Nat /\ Len(t) \in Nat /\ Len(u) \in Nat
  BY LenProperties
<1>4. t # << >> => Len(t) \in Nat \ {0}
  BY EmptySeq
<1>5. t # << >> => Len(s \o t) \in (Len(s) + 1) .. Len((s \o t) \o u)
  BY <1>1, <1>2, <1>3, <1>4
<1>6. SubSeq((s \o t) \o u, 1, Len(s \o t)) = s \o t
  <2> DEFINE v == s \o t
             n == Len(v)
  <2>1. v \in Seq(Line) /\ n \in Nat /\ n = Len(v)
    BY <1>1, LenProperties
  <2>2. /\ v \o u \in Seq(Line)
        /\ Len(v \o u) = n + Len(u)
        /\ \A i \in 1 .. n : (v \o u)[i] = v[i]
    BY <2>1, <1>3, ConcatProperties
  <2> HIDE DEF v, n
  <2>3. \A i \in 1 .. n : (v \o u)[i] \in Line
    BY <2>1, <2>2, ElementOfSeq
  <2>4. /\ SubSeq(v \o u, 1, n) \in Seq(Line)
        /\ Len(SubSeq(v \o u, 1, n)) = n
        /\ \A i \in 1 .. n : SubSeq(v \o u, 1, n)[i] = (v \o u)[i]
    <3>1. /\ SubSeq(v \o u, 1, n) \in Seq(Line)
          /\ Len(SubSeq(v \o u, 1, n)) = IF 1 <= n THEN n - 1 + 1 ELSE 0
          /\ \A i \in 1 .. n - 1 + 1 : SubSeq(v \o u, 1, n)[i] = (v \o u)[1 + i - 1]
      BY <2>1, <2>3, SubSeqProperties, 1 \in Int
    <3> QED
      BY <2>1, <3>1
  <2>5. SubSeq(v \o u, 1, n) = v
    BY <2>1, <2>2, <2>4, SeqEqual
  <2> QED
    BY <2>5 DEF v, n
<1> QED
  BY <1>5, <1>6

(* Each step of the worker is a step of the channel or leaves it alone.     *)
LEMMA ChannelStep ==
  ASSUME Drains
  PROVE  WorkerInv /\ StopInv /\ [Next]_vars
         => [Channel!ChanNext]_(Channel!chanVars)
<1> SUFFICES ASSUME TypeInv, TypeOK, BufferInv, StopInv, [Next]_vars
             PROVE  [Channel!ChanNext]_(Channel!chanVars)
  BY DEF WorkerInv, TypeInv
<1>a. ASSUME UNCHANGED <<accepted, flushed>>, pcC' = "done" <=> pcC = "done"
      PROVE  [Channel!ChanNext]_(Channel!chanVars)
  <2>1. (pcC' = "done") = (pcC = "done")
    BY <1>a
  <2> QED
    BY <1>a, <2>1 DEF Channel!chanVars
<1>b. WakeConsumer => (pcC' = "done" <=> pcC = "done")
  BY DEF WakeConsumer
<1>1. ASSUME NEW p \in Producers, PushWrite(p)
      PROVE  [Channel!ChanNext]_(Channel!chanVars)
  <2>1. line[p] \in Line
    BY <1>1 DEF PushWrite, TakesMutex, TypeInv, LineInv
  <2>2. pcC # "done"
    BY <1>1 DEF PushWrite, TakesMutex, StopInv, Drains
  <2>3. pcC' # "done"
    BY <1>1, <1>b, <2>2 DEF PushWrite
  <2>4. (pcC' = "done") = (pcC = "done")
    BY <2>2, <2>3
  <2>5. Channel!Accept(line[p])
    BY <1>1, <2>2, <2>4 DEF PushWrite, Channel!Accept
  <2> QED
    BY <2>1, <2>5 DEF Channel!ChanNext
<1>2. CASE ConsumerFlush
  <2>1. /\ flushed \in Seq(Line)
        /\ consumer.data \in Seq(Line)
        /\ productor.data \in Seq(Line)
    BY DEF TypeOK, BufferType
  <2>2. consumer.data # << >> /\ flushed' = flushed \o consumer.data
    BY <1>2 DEF ConsumerFlush, BufferInv
  <2>3. accepted = (flushed \o consumer.data) \o productor.data
    BY DEF BufferInv, Conservation
  <2>4. /\ Len(flushed') \in (Len(flushed) + 1) .. Len(accepted)
        /\ flushed' = SubSeq(accepted, 1, Len(flushed'))
    BY <2>1, <2>2, <2>3, PrefixOfLines
  <2>5. (pcC' = "done") = (pcC = "done")
    BY <1>2 DEF ConsumerFlush
  <2>6. Channel!Flush
    BY <1>2, <2>4, <2>5 DEF ConsumerFlush, Channel!Flush
  <2> QED
    BY <2>6 DEF Channel!ChanNext
<1>3. CASE ConsumerExit
  <2>1. flushed = accepted
    BY <1>3, AllFlushed DEF ConsumerExit
  <2>2. (pcC = "done") = FALSE /\ (pcC' = "done") = TRUE
    BY <1>3 DEF ConsumerExit
  <2>3. Channel!Close
    BY <1>3, <2>1, <2>2 DEF ConsumerExit, Channel!Close
  <2> QED
    BY <2>3 DEF Channel!ChanNext
<1>4. ASSUME NEW p \in Producers,
             \/ PushCall(p) \/ PushWait(p) \/ PushSleep(p) \/ PushReturn(p)
             \/ SpuriousProducer(p)
      PROVE  [Channel!ChanNext]_(Channel!chanVars)
  BY <1>4, <1>a DEF PushCall, PushWait, PushSleep, PushReturn, SpuriousProducer
<1>5. CASE ConstructDone \/ ConsumerWait \/ ConsumerSleep \/ ConsumerSwap
           \/ StopSet \/ StopJoin \/ SpuriousConsumer
  BY <1>5, <1>a DEF ConstructDone, ConsumerWait, ConsumerSleep, ConsumerSwap,
                    StopSet, StopJoin, SpuriousConsumer
<1>6. CASE StopNotify
  BY <1>6, <1>a, <1>b DEF StopNotify
<1>7. CASE UNCHANGED vars
  BY <1>7, <1>a DEF vars
<1> QED
  BY <1>1, <1>2, <1>3, <1>4, <1>5, <1>6, <1>7
  DEF Next, PushStep, ConsumerStep, StopStep

(* The worker is a first-in first-out channel that closes when drained.     *)
THEOREM WorkerIsChannel ==
  ASSUME Drains
  PROVE  Spec => Channel!ChanSafety
<1>1. Init => Channel!ChanInit
  <2>1. Init => (pcC = "done") = FALSE
    BY DEF Init
  <2> QED
    BY <2>1 DEF Init, Channel!ChanInit
<1>2. WorkerInv /\ StopInv /\ [Next]_vars => [Channel!ChanNext]_(Channel!chanVars)
  BY ChannelStep
<1> QED
  BY <1>1, <1>2, StopInvariant, PTL DEF Spec, Channel!ChanSafety
=============================================================================
