------------------------------ MODULE JsonValue ------------------------------
(***************************************************************************)
(* GenericValue (document.h) in the memory of a pool.  A value is one      *)
(* cell; the cell of a container holds the address of a block of cells in  *)
(* the pool, two for a member of an object.  A heap is the pool and the    *)
(* cells by their address: heap.pool, heap.mem.                            *)
(***************************************************************************)
EXTENDS JsonReader, MemoryPool, SequencesExt

CONSTANTS
  DefaultCapacity,  \* kDefaultObjectCapacity and kDefaultArrayCapacity: 16
  ShortSize,        \* ShortString::MaxSize
  CellUnits         \* how many units of a string a cell of the pool takes

\* The value that a call builds of its arguments.
Temp == <<0, 2>>

--------------------------------------------------------------------------
(* Cells. *)

Null == [t |-> "Null"]
Bool(b) == [t |-> IF b THEN "True" ELSE "False"]
NumberCell(flags, n) == [t |-> "Number", f |-> flags, n |-> n]
Scope(type, at, size) == [t |-> type, at |-> at, size |-> size, capacity |-> size]
EmptyScope(type) == Scope(type, NullPtr, 0)
ConstString(s) == [t |-> "String", f |-> "Const", s |-> s]
IsScope(v) == v.t \in {"Object", "Array"}
Width(v) == IF v.t = "Object" THEN 2 ELSE 1

\* The flags of a number, by the constructor that made it.
IntFlags(i) == {"Int", "Int64"} \union IF i >= 0 THEN {"Uint", "Uint64"} ELSE {}
UintFlags(u) ==
  {"Uint", "Uint64", "Int64"} \union IF u > MaxUint \div 2 THEN {} ELSE {"Int"}
Int64Flags(i) ==
  {"Int64"} \union
  IF i >= 0
  THEN {"Uint64"} \union (IF i <= MaxUint THEN {"Uint"} ELSE {})
                  \union (IF i <= MaxUint \div 2 THEN {"Int"} ELSE {})
  ELSE IF i >= -(MaxUint \div 2) - 1 THEN {"Int"} ELSE {}
Uint64Flags(u) ==
  {"Uint64"} \union (IF u <= MaxUint64 \div 2 THEN {"Int64"} ELSE {})
             \union (IF u <= MaxUint THEN {"Uint"} ELSE {})
             \union (IF u <= MaxUint \div 2 THEN {"Int"} ELSE {})

--------------------------------------------------------------------------
(* The heap. *)

Cells(heap, at, n) == [k \in 1 .. n |-> heap.mem[<<at[1], at[2] + k - 1>>]]
Poke(heap, at, cells) ==
  LET new == [a \in {<<at[1], at[2] + k - 1>> : k \in DOMAIN cells} |-> cells[a[2] - at[2] + 1]] IN
  [heap EXCEPT !.mem = new @@ @]
Place(v, i) == <<v.at[1], v.at[2] + Width(v) * i - 1>>       \* the i-th element, or member's value
NamePlace(v, i) == <<v.at[1], v.at[2] + 2 * i - 2>>

\* A block for these cells; no block for none.
Allocated(heap, cells) ==
  LET m == Malloc(heap.pool, Len(cells)) IN
  [h |-> Poke([heap EXCEPT !.pool = m.pool], m.at, cells), at |-> m.at]

\* SetStringRaw with an allocator: inline when it is short, else copied into the pool.
SetStringRaw(heap, at, s) ==
  LET cells == [k \in 1 .. Len(s) \div CellUnits + 1 |-> [t |-> "Chars", s |-> s, k |-> k]]
      block == Allocated(heap, cells) IN
  IF Len(s) <= ShortSize THEN Poke(heap, at, <<[t |-> "String", f |-> "Short", s |-> s]>>)
  ELSE Poke(block.h, at,
            <<[t |-> "String", f |-> "Copy", at |-> block.at, length |-> Len(s)]>>)

\* GetString: the characters a cell stands for.
GetString(heap, v) ==
  IF v.f = "Copy" THEN SubSeq(heap.mem[v.at].s, 1, v.length) ELSE v.s
StringEqual(heap, v, w) == GetString(heap, v) = GetString(heap, w)

RawAssign(heap, dst, src) == Poke(Poke(heap, dst, <<heap.mem[src]>>), src, <<Null>>)

\* operator=: the destructor has nothing to do, the pool does not take memory back.
AssignFrom(heap, dst, src) == IF dst = src THEN heap ELSE RawAssign(heap, dst, src)
AssignCell(heap, dst, cell) == RawAssign(Poke(heap, Temp, <<cell>>), dst, Temp)
SwapCells(heap, a, b) ==
  RawAssign(RawAssign(RawAssign(heap, Temp, a), a, b), b, Temp)

--------------------------------------------------------------------------
(* Objects and arrays: the value is the cell at p. *)

\* MemberReserve and Reserve: a block that has moved takes its cells along.
Reserve(heap, p, newCapacity) ==
  LET v == heap.mem[p]
      w == Width(v)
      r == Realloc(heap.pool, v.at, w * v.capacity, w * newCapacity)
      moved == IF r.at = v.at \/ v.at = NullPtr THEN <<>> ELSE Cells(heap, v.at, w * v.size) IN
  IF newCapacity <= v.capacity THEN heap
  ELSE Poke(Poke([heap EXCEPT !.pool = r.pool], r.at, moved),
            p, <<[v EXCEPT !.at = r.at, !.capacity = newCapacity]>>)

\* Room for one more: 16, then half as much again.
Grown(heap, p) ==
  LET v == heap.mem[p] IN
  IF v.size < v.capacity THEN heap
  ELSE Reserve(heap, p, IF v.capacity = 0 THEN DefaultCapacity
                        ELSE v.capacity + (v.capacity + 1) \div 2)

Lengthened(heap, p) == [heap EXCEPT !.mem[p].size = @ + 1]

AddMember(heap, p, name, src) ==
  LET g == Grown(heap, p)
      v == g.mem[p]
      named == Poke(g, NamePlace(v, v.size + 1), <<name>>) IN
  Lengthened(RawAssign(named, Place(v, v.size + 1), src), p)

PushBack(heap, p, src) ==
  LET g == Grown(heap, p) IN
  Lengthened(RawAssign(g, Place(g.mem[p], g.mem[p].size + 1), src), p)

\* The place of the first member of that name, one past the last when there is none.
FindMember(heap, v, name) ==
  CHOOSE i \in 1 .. v.size + 1 :
    /\ i = v.size + 1 \/ StringEqual(heap, heap.mem[NamePlace(v, i)], name)
    /\ \A j \in 1 .. i - 1 : ~StringEqual(heap, heap.mem[NamePlace(v, j)], name)
HasMember(heap, v, name) == FindMember(heap, v, name) # v.size + 1

\* The last member takes the place of the one removed.
RemoveMember(heap, p, i) ==
  LET v == heap.mem[p]
      shortened(g) == [g EXCEPT !.mem[p].size = @ - 1] IN
  IF i = v.size THEN shortened(heap)
  ELSE shortened(AssignFrom(AssignFrom(heap, NamePlace(v, i), NamePlace(v, v.size)),
                            Place(v, i), Place(v, v.size)))

\* EraseMember and Erase, of the i-th to the j-th: the ones behind them move up.
Erase(heap, p, i, j) ==
  LET v == heap.mem[p]
      w == Width(v)
      from(k) == <<v.at[1], v.at[2] + w * (k - 1)>>
      moved == IF v.at = NullPtr THEN <<>> ELSE Cells(heap, from(j + 1), w * (v.size - j)) IN
  [Poke(heap, from(i), moved) EXCEPT !.mem[p].size = @ - (j - i + 1)]

\* RemoveAllMembers and Clear: the block stays.
RemoveAll(heap, p) == [heap EXCEPT !.mem[p].size = 0]
PopBack(heap, p) == [heap EXCEPT !.mem[p].size = @ - 1]

--------------------------------------------------------------------------
(* Whole trees. *)

RECURSIVE CopyTo(_, _, _), CopyCells(_, _, _, _), Equal(_, _, _), Accept(_, _)

\* The copying constructor: the block first, then what is in it, cell by cell.
CopyTo(heap, dst, v) ==
  LET n == Width(v) * v.size
      block == Allocated(heap, [k \in 1 .. n |-> Null]) IN
  CASE IsScope(v) -> CopyCells(Poke(block.h, dst, <<Scope(v.t, block.at, v.size)>>),
                               block.at, v.at, n)
    [] v.t = "String" /\ v.f # "Const" -> SetStringRaw(heap, dst, GetString(heap, v))
    [] OTHER -> Poke(heap, dst, <<v>>)
CopyCells(heap, to, from, n) ==
  IF n = 0 THEN heap
  ELSE CopyCells(CopyTo(heap, to, heap.mem[from]),
                 <<to[1], to[2] + 1>>, <<from[1], from[2] + 1>>, n - 1)

GetDouble(v) == v.n
Unsigned64(n) == n % (MaxUint64 + 1)

Equal(heap, v, w) ==
  LET child(x, i) == heap.mem[Place(x, i)]
      name(i) == heap.mem[NamePlace(v, i)]
      found(i) == FindMember(heap, w, name(i)) IN
  CASE v.t # w.t -> FALSE
    [] v.t = w.t /\ v.t = "Object" ->
         /\ v.size = w.size
         /\ \A i \in 1 .. v.size :
              found(i) # w.size + 1 /\ Equal(heap, child(v, i), child(w, found(i)))
    [] v.t = w.t /\ v.t = "Array" ->
         v.size = w.size /\ \A i \in 1 .. v.size : Equal(heap, child(v, i), child(w, i))
    [] v.t = w.t /\ v.t = "String" -> StringEqual(heap, v, w)
    [] v.t = w.t /\ v.t = "Number" ->
         IF "Double" \in v.f \union w.f THEN GetDouble(v) = GetDouble(w)
         ELSE Unsigned64(v.n) = Unsigned64(w.n)
    [] OTHER -> TRUE

\* The events a value sends to a handler.
Accept(heap, v) ==
  LET Concat(events(_)) == FlattenSeq([i \in 1 .. v.size |-> events(i)])
      value(i) == Accept(heap, heap.mem[Place(v, i)])
      key(i) == [ev |-> "Key", v |-> GetString(heap, heap.mem[NamePlace(v, i)])]
      type == CHOOSE f \in {"Double", "Int", "Uint", "Int64", "Uint64"} :
                /\ f \in v.f
                /\ f = "Double" \/ "Double" \notin v.f
                /\ f \in {"Double", "Int"} \/ "Int" \notin v.f
                /\ f \in {"Double", "Int", "Uint"} \/ "Uint" \notin v.f
                /\ f # "Uint64" \/ "Int64" \notin v.f
      one(kind, x) == <<[ev |-> kind, v |-> x]>> IN
  CASE v.t = "Null" -> one("Null", <<>>)
    [] v.t \in {"True", "False"} -> one("Bool", IF v.t = "True" THEN <<1>> ELSE <<0>>)
    [] v.t = "Number" -> one(type, <<v.n>>)
    [] v.t = "String" -> one("String", GetString(heap, v))
    [] v.t = "Object" -> one("StartObject", <<>>) \o Concat(LAMBDA i : <<key(i)>> \o value(i))
                         \o one("EndObject", <<v.size>>)
    [] v.t = "Array"  -> one("StartArray", <<>>) \o Concat(value) \o one("EndArray", <<v.size>>)
=============================================================================
