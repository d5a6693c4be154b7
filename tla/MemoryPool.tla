----------------------------- MODULE MemoryPool -----------------------------
(***************************************************************************)
(* MemoryPoolAllocator (allocators.h): memory comes out of chunks, a block *)
(* is never given back, and the last block of the head chunk can grow in   *)
(* place.  A pool is the sequence of its chunks, chunkHead_ last, and      *)
(* whether the first is the user's buffer; an address is a chunk's place   *)
(* and an offset in it.  Sizes are in units of the alignment.              *)
(***************************************************************************)
EXTENDS Integers, Sequences

CONSTANT ChunkCapacity          \* chunk_capacity_

ASSUME ChunkAssumption == ChunkCapacity \in Nat \ {0}

NullPtr == <<>>

NewPool == [chunks |-> <<>>, user |-> FALSE]
UserPool(size) == [chunks |-> <<[capacity |-> size, size |-> 0]>>, user |-> TRUE]

chunkHead(p) == p.chunks[Len(p.chunks)]

AddChunk(p, capacity) ==
  [p EXCEPT !.chunks = Append(@, [capacity |-> capacity, size |-> 0])]

Extended(p, n) == [p EXCEPT !.chunks[Len(p.chunks)].size = @ + n]

\* The result of an allocation: the pool after it, and the address.
Malloc(p, n) ==
  LET full == p.chunks = <<>> \/ chunkHead(p).size + n > chunkHead(p).capacity
      q == IF full THEN AddChunk(p, IF ChunkCapacity > n THEN ChunkCapacity ELSE n) ELSE p IN
  IF n = 0 THEN [pool |-> p, at |-> NullPtr]
  ELSE [pool |-> Extended(q, n), at |-> <<Len(q.chunks), chunkHead(q).size>>]

ReallocAnywhere(p, at, old, new) ==     \* mutant: any block grows in place while there is room
  IF at = NullPtr THEN Malloc(p, new)
  ELSE IF new = 0 THEN [pool |-> p, at |-> NullPtr]
  ELSE IF old >= new THEN [pool |-> p, at |-> at]
  ELSE IF at[1] = Len(p.chunks) /\ chunkHead(p).size + new - old <= chunkHead(p).capacity
  THEN [pool |-> Extended(p, new - old), at |-> at]
  ELSE Malloc(p, new)

\* The caller's cells are copied when the address changes.
Realloc(p, at, old, new) ==
  LET last == at = <<Len(p.chunks), chunkHead(p).size - old>> IN
  IF at = NullPtr THEN Malloc(p, new)
  ELSE IF new = 0 THEN [pool |-> p, at |-> NullPtr]
  ELSE IF old >= new THEN [pool |-> p, at |-> at]
  ELSE IF last /\ chunkHead(p).size + new - old <= chunkHead(p).capacity
  THEN [pool |-> Extended(p, new - old), at |-> at]
  ELSE Malloc(p, new)

\* Every chunk but the user's buffer is freed.
Clear(p) ==
  IF p.user THEN UserPool(p.chunks[1].capacity) ELSE NewPool

Total(p, Of(_)) ==
  LET sum[k \in 0 .. Len(p.chunks)] == IF k = 0 THEN 0 ELSE sum[k - 1] + Of(p.chunks[k]) IN
  sum[Len(p.chunks)]
Size(p)     == Total(p, LAMBDA c : c.size)
Capacity(p) == Total(p, LAMBDA c : c.capacity)
=============================================================================
