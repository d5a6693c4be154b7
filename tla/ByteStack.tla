------------------------------ MODULE ByteStack ------------------------------
(***************************************************************************)
(* internal::Stack (stack.h) and the StringBuffer (stringbuffer.h) that is *)
(* one: what has been pushed, and the capacity it was pushed into.  A push *)
(* that is "unsafe" relies on an earlier Reserve; `overrun` records that   *)
(* one found no room, where the source asserts.                            *)
(***************************************************************************)
EXTENDS Naturals, Sequences

CONSTANT InitialCapacity    \* kDefaultCapacity: 256 for a StringBuffer
ASSUME CapacityAssumption == InitialCapacity \in Nat

\* A stack allocates nothing before the first push.
EmptyStack == [data |-> <<>>, capacity |-> 0, allocated |-> FALSE, overrun |-> FALSE]

GetSize(b) == Len(b.data)

Resize(b, newCapacity) == [b EXCEPT !.capacity = newCapacity, !.allocated = TRUE]

\* Expand: half as much again, or what is needed when that is more.
Expand(b, count) ==
  LET grown == IF b.allocated THEN b.capacity + (b.capacity + 1) \div 2
                              ELSE InitialCapacity
      newSize == GetSize(b) + count IN
  Resize(b, IF grown < newSize THEN newSize ELSE grown)

Reserve(b, count) ==
  IF count > b.capacity - GetSize(b) THEN Expand(b, count) ELSE b

PushUnsafe(b, units) ==
  [b EXCEPT !.data = @ \o units,
            !.overrun = @ \/ Len(units) > b.capacity - GetSize(b)]

Push(b, units) == PushUnsafe(Reserve(b, Len(units)), units)

Pop(b, count) == [b EXCEPT !.data = SubSeq(@, 1, Len(@) - count)]

Clear(b) == [b EXCEPT !.data = <<>>]

ShrinkToFit(b) == IF b.data = <<>> THEN EmptyStack ELSE Resize(b, GetSize(b))

\* GenericStringBuffer::GetString: a NUL is pushed and popped again.
GetString(b) == Pop(Push(b, <<0>>), 1)
=============================================================================
