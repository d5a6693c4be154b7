---------------------------- MODULE JsonDocument ----------------------------
(***************************************************************************)
(* GenericDocument (document.h) and the operations a program calls on the  *)
(* values in it.  The document is the cell at Doc; Local is a value of the *)
(* caller's that shares the document's allocator.  A text is read by the   *)
(* recursive parser of JsonReader, whose handler the document is.  What a  *)
(* caller moves into a container is not a part of that container: the      *)
(* contract of AddMember and PushBack, which take it by reference.         *)
(***************************************************************************)
EXTENDS JsonValue

CONSTANTS
  Texts,            \* what is parsed
  Added,            \* the cells of the values a caller adds
  NameSet,          \* the names it uses
  Strings,          \* the strings it sets with the allocator
  Reserved,         \* the capacities it reserves
  MaxSize,          \* how long an erased range is at most
  Scalars,          \* the trees of Added and Strings
  Meaning,          \* the tree of each text, NoTree for what is no JSON
  NoTree,
  MaxOps            \* how many calls there are

VARIABLES
  heap, answer, ops,
  tree              \* what the cells stand for: it is always Trees(heap)

vars == <<heap, answer, ops, tree>>

Doc == <<0, 0>>   Local == <<0, 1>>

--------------------------------------------------------------------------
(* The handler: values pushed on stack_, popped when their container ends. *)

NumberOf(event) ==
  LET n == event.v[1] IN
  CASE event.ev = "Int"    -> NumberCell(IntFlags(n), n)
    [] event.ev = "Uint"   -> NumberCell(UintFlags(n), n)
    [] event.ev = "Int64"  -> NumberCell(Int64Flags(n), n)
    [] event.ev = "Uint64" -> NumberCell(Uint64Flags(n), n)
    [] event.ev = "Double" -> NumberCell({"Double"}, n * event.v[2] * 10 ^ event.v[3])

\* SetObjectRaw and SetArrayRaw: the top cells become a block of the pool.
EndScope(d, type, n) ==
  LET below == SubSeq(d.stack, 1, Len(d.stack) - n - 1)
      block == Allocated(d.heap, SubSeq(d.stack, Len(d.stack) - n + 1, Len(d.stack))) IN
  [heap |-> block.h,
   stack |-> Append(below, Scope(type, block.at, IF type = "Object" THEN n \div 2 ELSE n))]

Handle(d, event) ==
  LET push(cell) == [d EXCEPT !.stack = Append(@, cell)]
      copied == SetStringRaw(d.heap, Temp, event.v) IN
  CASE event.ev = "Null" -> push(Null)
    [] event.ev = "Bool" -> push(Bool(event.v = <<1>>))
    [] event.ev \in {"Int", "Uint", "Int64", "Uint64", "Double"} -> push(NumberOf(event))
    [] event.ev \in {"String", "Key"} ->
         [heap |-> [copied EXCEPT !.mem[Temp] = Null], stack |-> Append(d.stack, copied.mem[Temp])]
    [] event.ev = "StartObject" -> push(EmptyScope("Object"))
    [] event.ev = "StartArray"  -> push(EmptyScope("Array"))
    [] event.ev = "EndObject"   -> EndScope(d, "Object", 2 * event.v[1])
    [] event.ev = "EndArray"    -> EndScope(d, "Array", event.v[1])

--------------------------------------------------------------------------
(* Where the values are. *)

RECURSIVE Inside(_, _)
Inside(g, p) ==
  {p} \union (IF ~IsScope(g.mem[p]) THEN {}
              ELSE UNION {Inside(g, Place(g.mem[p], i)) : i \in 1 .. g.mem[p].size})

\* The tree a value stands for.
RECURSIVE TreeAt(_, _)
TreeAt(g, p) ==
  LET v == g.mem[p]
      child(i) == TreeAt(g, Place(v, i))
      name(i)  == GetString(g, g.mem[NamePlace(v, i)]) IN
  CASE v.t = "Object" ->
         [k |-> "object", m |-> [i \in 1 .. v.size |-> [name |-> name(i), value |-> child(i)]]]
    [] v.t = "Array"  -> [k |-> "array", m |-> [i \in 1 .. v.size |-> child(i)]]
    [] v.t = "Number" -> [k |-> "number", n |-> v.n, double |-> "Double" \in v.f]
    [] v.t = "String" -> [k |-> "string", s |-> GetString(g, v)]
    [] v.t = "Null"   -> [k |-> "null"]
    [] OTHER -> [k |-> "bool", b |-> v.t = "True"]

Trees(g) == [doc |-> TreeAt(g, Doc), local |-> TreeAt(g, Local)]

Is(p, types) == heap.mem[p].t \in types
Scopes == {"Object", "Array"}

Init ==
  /\ heap = [pool |-> NewPool, mem |-> [a \in {Doc, Local, Temp} |-> Null]]
  /\ tree = Trees(heap)
  /\ answer = <<>>
  /\ ops = 0

Call == ops' = ops + 1
Does(g) == Call /\ heap' = g /\ tree' = Trees(g) /\ answer' = <<>>
\* A question changes nothing: it is the last call.
Answers(kind, a) ==
  /\ ops' = MaxOps
  /\ answer' = <<kind, a>>
  /\ UNCHANGED <<heap, tree>>

\* ParseStream: the value on the stack becomes the document's, unless there was an error.
ParseStream(text) ==
  LET r == Parse(Start(text, {}, -1))
      d == FoldLeft(Handle, [heap |-> heap, stack |-> <<>>], r.ev) IN
  /\ Call
  /\ heap' = IF Failed(r) THEN d.heap ELSE AssignCell(d.heap, Doc, d.stack[1])
  /\ tree' = Trees(heap')
  /\ answer' = <<"parsed", text, ~Failed(r)>>

\* The argument is a value of its own, or the caller's.
Argument(cell) == Poke(heap, Temp, <<cell>>)

AddMemberOf(p, name, cell) ==
  Is(p, {"Object"}) /\ Does(AddMember(Argument(cell), p, ConstString(name), Temp))
AddMemberMoved(p, name) ==
  Is(p, {"Object"}) /\ Does(AddMember(heap, p, ConstString(name), Local))
PushBackOf(p, cell) == Is(p, {"Array"}) /\ Does(PushBack(Argument(cell), p, Temp))
PushBackMoved(p)    == Is(p, {"Array"}) /\ Does(PushBack(heap, p, Local))

RemoveMemberNamed(p, name) ==
  /\ Is(p, {"Object"})
  /\ HasMember(heap, heap.mem[p], ConstString(name))
  /\ Does(RemoveMember(heap, p, FindMember(heap, heap.mem[p], ConstString(name))))

EraseRange(p, i, j) ==
  /\ Is(p, Scopes)
  /\ i <= j /\ j <= heap.mem[p].size
  /\ Does(Erase(heap, p, i, j))
RemoveAllOf(p) == Is(p, Scopes) /\ Does(RemoveAll(heap, p))
PopBackOf(p)   == Is(p, {"Array"}) /\ heap.mem[p].size > 0 /\ Does(PopBack(heap, p))
ReserveOf(p, n) == Is(p, Scopes) /\ Does(Reserve(heap, p, n))

\* operator= with a number, a string literal, an empty container; SetString with the allocator.
Set(p, cell) == Does(AssignCell(heap, p, cell))
SetString(p, s) == Does(SetStringRaw(heap, p, s))

\* document["addAs"] = "1": an assertion fails when there is no such member.
SetMember(p, name, cell) ==
  LET v == heap.mem[p]
      i == FindMember(heap, v, ConstString(name)) IN
  /\ Is(p, {"Object"}) /\ HasMember(heap, v, ConstString(name))
  /\ Does(AssignCell(heap, Place(v, i), cell))

TakeOut(p)  == Does(AssignFrom(heap, Local, p))
SwapWith(p) == Does(SwapCells(heap, Local, p))
CopyFrom(p) == Does(CopyTo(heap, Local, heap.mem[p]))

AskMember(p, name) ==
  /\ Is(p, {"Object"})
  /\ Answers("member", HasMember(heap, heap.mem[p], ConstString(name)))
AskTypes(p)  == Is(p, {"Number"}) /\ Answers("types", heap.mem[p].f)
AskEqual(p)  == Answers("equal", Equal(heap, heap.mem[p], heap.mem[Local]))
AskEvents(p) == Answers("events", Accept(heap, heap.mem[p]))

Asks(p) == AskTypes(p) \/ AskEqual(p) \/ AskEvents(p) \/ \E name \in NameSet : AskMember(p, name)
Moves(p) ==
  \/ TakeOut(p) \/ SwapWith(p) \/ CopyFrom(p) \/ PushBackMoved(p)
  \/ \E name \in NameSet : AddMemberMoved(p, name) \/ RemoveMemberNamed(p, name)
Sets(p, cell) ==
  \/ Set(p, cell) \/ PushBackOf(p, cell)
  \/ \E name \in NameSet : AddMemberOf(p, name, cell) \/ SetMember(p, name, cell)
Shrinks(p) ==
  \/ RemoveAllOf(p) \/ PopBackOf(p) \/ \E n \in Reserved : ReserveOf(p, n)
  \/ \E i, j \in 1 .. MaxSize : EraseRange(p, i, j)

Next ==
  /\ ops < MaxOps
  /\ \/ \E text \in Texts : ParseStream(text)
     \/ \E p \in Inside(heap, Doc) : Moves(p)
     \/ \E p \in Inside(heap, Doc) \union Inside(heap, Local) :
          \/ Asks(p) \/ Shrinks(p)
          \/ \E cell \in Added : Sets(p, cell)
          \/ \E s \in Strings : SetString(p, s)

Spec == Init /\ [][Next]_vars

--------------------------------------------------------------------------
Promised == INSTANCE JsonTree WITH
  Names <- NameSet, MaxU <- MaxUint, MaxU64 <- MaxUint64

(***************************************************************************)
(* The document is a tree.  However values are added, removed, moved and   *)
(* copied, and whatever the pool, the capacities and the short strings     *)
(* make of it in memory, the document and the caller's value are the trees *)
(* the calls say: no call changes a value it was not called on, no block   *)
(* is handed out twice, and the answers are those of the trees.            *)
(***************************************************************************)
ImplementsTree == Promised!Spec
=============================================================================
