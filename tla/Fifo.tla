-------------------------------- MODULE Fifo --------------------------------
(***************************************************************************)
(* The buffers of the sockets: ForeignFifoBuffer (util) with the memory of *)
(* SliceFifoBuffer (memory), as operators on a record.                     *)
(*                                                                         *)
(* cap is the size of the memory, 0 for a null buffer; head is where the   *)
(* data starts; data are the bytes between head and tail.                  *)
(***************************************************************************)
EXTENDS Integers, Sequences

CONSTANT BufferSize     \* FB_SIZE (the source: 65536)

ASSUME BufferAssumption == BufferSize \in Nat \ {0}

Null == [cap |-> 0, head |-> 0, data |-> <<>>]

IsNull(b) == b.cap = 0
IsEmptyFifo(b) == b.data = <<>>
TailOf(b) == b.head + Len(b.data)
IsFull(b) == ~IsNull(b) /\ b.head = 0 /\ Len(b.data) = b.cap

AllocateIfNull(b) == IF IsNull(b) THEN [Null EXCEPT !.cap = BufferSize] ELSE b
FreeIfEmpty(b) == IF IsEmptyFifo(b) THEN Null ELSE b

Shift(b) == [b EXCEPT !.head = 0]

\* Write() prepares the buffer for appending: an empty one starts over, one
\* whose tail is at the end is shifted; RoomAtTail is the size of the span.
PrepareWrite_NoShift(b) == IF IsEmptyFifo(b) THEN Shift(b) ELSE b
PrepareWrite(b) ==
  IF IsEmptyFifo(b) \/ TailOf(b) = b.cap THEN Shift(b) ELSE b

RoomAtTail(b) == b.cap - TailOf(b)

\* Append(), once the caller has written s to the span.
AppendTo(b, s) == [b EXCEPT !.data = @ \o s]

\* Consume() asserts n <= tail - head.
Consume(b, n) == [b EXCEPT !.head = @ + n, !.data = SubSeq(@, n + 1, Len(@))]
=============================================================================
