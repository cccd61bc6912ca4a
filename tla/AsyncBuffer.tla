----------------------------- MODULE AsyncBuffer -----------------------------
(***************************************************************************)
(* Chronicle::Buffer (AsyncBuffer.hpp): the byte buffer that producers      *)
(* fill and the flushing thread empties.  A buffer is a value, so that the  *)
(* worker's Swap is an exchange of two variables:                           *)
(*   size  _m_buffer.size(), the capacity in bytes                          *)
(*   wpos  _m_write_pos        rpos  _m_read_pos                            *)
(*   data  the lines copied in since the last Reset, oldest first; a line   *)
(*         is a record whose field len is the number of bytes it takes      *)
(* A byte position is kept apart from the contents because the code does:   *)
(* capacity tests look at positions, the callback reads the contents.       *)
(***************************************************************************)
EXTENDS Integers, Sequences

CONSTANTS
  BufferSize,     \* config.conf buffer_size: initial capacity
  Threshold,      \* config.conf threshold: below it a buffer doubles
  LinearGrowth    \* config.conf linear_growth: at or above it, added once

ASSUME BufferConfig ==
  /\ BufferSize \in Nat \ {0}
  /\ Threshold \in Nat
  /\ LinearGrowth \in Nat \ {0}

NewBuffer == [size |-> BufferSize, wpos |-> 0, rpos |-> 0, data |-> << >>]

(***************************************************************************)
(* size_t arithmetic in the code: the difference is exact as long as the    *)
(* write position stays inside the buffer (WithinCapacity in AsyncWorker).  *)
(***************************************************************************)
WriteableSize(b) == b.size - b.wpos

ReadableSize(b) == b.wpos - b.rpos

IsEmpty(b) == b.wpos = b.rpos

(* Faulty variant: the room a buffer would have if it were empty. *)
CheckWholeCapacity(b, len) ==
  IF len <= b.size
  THEN b
  ELSE [b EXCEPT !.size = IF @ < Threshold THEN 2 * @ ELSE @ + LinearGrowth]

(***************************************************************************)
(* One enlargement at most, whatever len is.                                *)
(***************************************************************************)
CheckAndReserve(b, len) ==
  IF len <= WriteableSize(b)
  THEN b
  ELSE [b EXCEPT !.size = IF @ < Threshold THEN 2 * @ ELSE @ + LinearGrowth]

Push(b, line) ==
  [CheckAndReserve(b, line.len) EXCEPT !.wpos = @ + line.len,
                                       !.data = Append(@, line)]

(* Faulty variant: marks the data as read, without rewinding. *)
ResetByReading(b) == [b EXCEPT !.rpos = b.wpos, !.data = << >>]

(***************************************************************************)
(* The capacity survives a Reset; the contents are no longer readable.      *)
(***************************************************************************)
Reset(b) == [b EXCEPT !.wpos = 0, !.rpos = 0, !.data = << >>]
=============================================================================
