----------------------------- MODULE LogChannel ------------------------------
(***************************************************************************)
(* What the asynchronous worker promises to a logger: a first-in first-out  *)
(* channel.  A line whose Push returned normally is handed to the flush     *)
(* callback exactly once, in the order of acceptance, in batches; after the *)
(* worker has shut down nothing is pending and nothing more is accepted.    *)
(***************************************************************************)
EXTENDS Integers, Sequences

CONSTANT Lines     \* the lines that may be logged

VARIABLES
  accepted,        \* lines taken, in order
  flushed,         \* lines handed to the callback, in order
  closed           \* the worker has shut down

chanVars == <<accepted, flushed, closed>>

ChanTypeOK ==
  /\ accepted \in Seq(Lines)
  /\ flushed \in Seq(Lines)
  /\ closed \in BOOLEAN

ChanInit ==
  /\ accepted = << >>
  /\ flushed = << >>
  /\ closed = FALSE

Accept(line) ==
  /\ ~closed
  /\ accepted' = Append(accepted, line)
  /\ UNCHANGED <<flushed, closed>>

(***************************************************************************)
(* A batch is a nonempty run of the oldest pending lines.                   *)
(***************************************************************************)
Flush ==
  /\ \E n \in (Len(flushed) + 1) .. Len(accepted) :
       flushed' = SubSeq(accepted, 1, n)
  /\ UNCHANGED <<accepted, closed>>

Close ==
  /\ ~closed
  /\ flushed = accepted
  /\ closed' = TRUE
  /\ UNCHANGED <<accepted, flushed>>

ChanNext == (\E line \in Lines : Accept(line)) \/ Flush \/ Close

ChanSafety == ChanInit /\ [][ChanNext]_chanVars

ChanSpec == ChanSafety /\ WF_chanVars(Flush)
=============================================================================
