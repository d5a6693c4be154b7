------------------------------ MODULE JsonTree ------------------------------
(***************************************************************************)
(* What a document promises: it is a tree of values, and an operation      *)
(* changes the value at its path and nothing else.  There are no cells, no *)
(* pool and no capacities.  Two trees: the document, and a value of the    *)
(* caller's that subtrees move to and from.  A path starts with the name   *)
(* of its tree; every step after that is the place of an element or of a   *)
(* member's value.                                                         *)
(***************************************************************************)
EXTENDS Integers, Sequences, FiniteSets, TLC

CONSTANTS
  Meaning,        \* the tree of each text that is parsed, or NoTree when it is no JSON
  NoTree,
  Scalars,        \* the trees of the values a caller adds
  Names,          \* the names it uses
  MaxU, MaxU64    \* the largest unsigned integers

VARIABLES tree, answer

vars == <<tree, answer>>

Roots == {"doc", "local"}
NullTree == [k |-> "null"]
Tree(members) == [k |-> "object", m |-> members]
List(elements) == [k |-> "array", m |-> elements]
IsContainer(t) == t.k \in {"object", "array"}

\* The child at a place of a container, and the container with another one there.
Child(t, i) == IF t.k = "object" THEN t.m[i].value ELSE t.m[i]
WithChild(t, i, c) ==
  IF t.k = "object" THEN [t EXCEPT !.m[i].value = c] ELSE [t EXCEPT !.m[i] = c]

RECURSIVE Sub(_, _), WithSub(_, _, _), Inside(_)
Sub(t, path) == IF path = <<>> THEN t ELSE Sub(Child(t, Head(path)), Tail(path))
WithSub(t, path, new) ==
  IF path = <<>> THEN new
  ELSE WithChild(t, Head(path), WithSub(Child(t, Head(path)), Tail(path), new))
Inside(t) ==
  {<<>>} \union
  (IF ~IsContainer(t) THEN {}
   ELSE UNION {{<<i>> \o p : p \in Inside(Child(t, i))} : i \in DOMAIN t.m})

Paths == UNION {{<<r>> \o p : p \in Inside(tree[r])} : r \in Roots}
At(path) == Sub(tree[path[1]], Tail(path))
Becomes(path, new) == [tree EXCEPT ![path[1]] = WithSub(@, Tail(path), new)]

Change(path, new) == tree' = Becomes(path, new) /\ answer' = <<>>
Of(kind) == {path \in Paths : At(path).k = kind}

Without(s, i, j) == SubSeq(s, 1, i - 1) \o SubSeq(s, j + 1, Len(s))
Member(name, value) == [name |-> name, value |-> value]

--------------------------------------------------------------------------
Init ==
  /\ tree = [r \in Roots |-> NullTree]
  /\ answer = <<>>

\* A text that is no JSON leaves the document as it was.
Parse ==
  \E text \in DOMAIN Meaning :
    /\ tree' = IF Meaning[text] = NoTree THEN tree ELSE [tree EXCEPT !.doc = Meaning[text]]
    /\ answer' = <<"parsed", text, Meaning[text] # NoTree>>

AddMember ==
  \E path \in Of("object"), name \in Names, value \in Scalars :
    Change(path, Tree(Append(At(path).m, Member(name, value))))

PushBack ==
  \E path \in Of("array"), value \in Scalars : Change(path, List(Append(At(path).m, value)))

\* The caller's value is moved in: it is null afterwards.
Into(path, new) ==
  /\ path[1] = "doc"
  /\ tree' = [Becomes(path, new) EXCEPT !.local = NullTree]
  /\ answer' = <<>>
AddMemberMoved ==
  \E path \in Of("object"), name \in Names :
    Into(path, Tree(Append(At(path).m, Member(name, tree.local))))
PushBackMoved ==
  \E path \in Of("array") : Into(path, List(Append(At(path).m, tree.local)))

\* RemoveMember may reorder the members that stay; EraseMember may not.
RemoveMember ==
  \E path \in Of("object") : \E i \in DOMAIN At(path).m :
    LET rest == Without(At(path).m, i, i) IN
    \E p \in Permutations(DOMAIN rest) :
      Change(path, Tree([k \in DOMAIN rest |-> rest[p[k]]]))

Erase ==
  \E path \in Of("object") \union Of("array") : \E i, j \in DOMAIN At(path).m :
    i <= j /\ Change(path, [At(path) EXCEPT !.m = Without(@, i, j)])

Empty ==
  \E path \in Of("object") \union Of("array") : Change(path, [At(path) EXCEPT !.m = <<>>])

Reserve == answer' = <<>> /\ UNCHANGED tree

Assign == \E path \in Paths, value \in Scalars : Change(path, value)

\* A value moves out of the document, changes places with the caller's, or is copied to it.
Take ==
  \E path \in Paths :
    /\ path[1] = "doc"
    /\ tree' = [Becomes(path, NullTree) EXCEPT !.local = At(path)]
    /\ answer' = <<>>
Swap ==
  \E path \in Paths :
    /\ path[1] = "doc"
    /\ tree' = [Becomes(path, tree.local) EXCEPT !.local = At(path)]
    /\ answer' = <<>>
Copy ==
  \E path \in Paths :
    /\ path[1] = "doc"
    /\ tree' = [tree EXCEPT !.local = At(path)]
    /\ answer' = <<>>

--------------------------------------------------------------------------
(* Questions. *)

NumberTypes(t) ==
  IF t.double THEN {"Double"}
  ELSE {type \in {"Int", "Uint", "Int64", "Uint64"} :
     LET max == IF type \in {"Int", "Uint"} THEN MaxU ELSE MaxU64 IN
     t.n \in IF type \in {"Int", "Int64"} THEN (-(max \div 2) - 1) .. (max \div 2) ELSE 0 .. max}

\* Two trees without duplicate names are equal: members in any order, integers modulo 2^64.
RECURSIVE Same(_, _), Distinct(_)
Same(s, t) ==
  /\ s.k = t.k
  /\ CASE s.k = "object" ->
            /\ Len(s.m) = Len(t.m)
            /\ \A i \in DOMAIN s.m : \E j \in DOMAIN t.m :
                 s.m[i].name = t.m[j].name /\ Same(s.m[i].value, t.m[j].value)
       [] s.k = "array" -> Len(s.m) = Len(t.m) /\ \A i \in DOMAIN s.m : Same(s.m[i], t.m[i])
       [] s.k = "number" -> IF s.double \/ t.double THEN s.n = t.n
                            ELSE s.n % (MaxU64 + 1) = t.n % (MaxU64 + 1)
       [] s.k = "string" -> s.s = t.s
       [] OTHER -> TRUE
Distinct(t) ==
  IsContainer(t) =>
    /\ \A i \in DOMAIN t.m : Distinct(Child(t, i))
    /\ t.k = "object" =>
         \A i, j \in DOMAIN t.m : t.m[i].name = t.m[j].name => i = j

Answered(kind, a) == answer' = <<kind, a>> /\ UNCHANGED tree

AskMember ==
  \E path \in Of("object"), name \in Names :
    Answered("member", \E i \in DOMAIN At(path).m : At(path).m[i].name = name)
AskType ==
  \E path \in Of("number") : Answered("types", NumberTypes(At(path)))
AskEqual ==
  \E path \in Paths :
    IF Distinct(At(path)) /\ Distinct(tree.local) THEN Answered("equal", Same(At(path), tree.local))
    ELSE \E a \in BOOLEAN : Answered("equal", a)

\* What the value sends to a handler: a number goes by the first type that holds it.
NumberType(t) ==
  CHOOSE type \in NumberTypes(t) :
    \/ t.double \/ type = "Int"
    \/ "Int" \notin NumberTypes(t) /\ type = "Uint"
    \/ {"Int", "Uint"} \intersect NumberTypes(t) = {} /\ type = "Int64"
    \/ NumberTypes(t) = {"Uint64"}
RECURSIVE Events(_), EventsOf(_)
Events(t) ==
  LET event(kind, v) == [ev |-> kind, v |-> v]
      all(open, close) == <<event(open, <<>>)>> \o EventsOf(t.m) \o <<event(close, <<Len(t.m)>>)>> IN
  CASE t.k = "null"   -> <<event("Null", <<>>)>>
    [] t.k = "bool"   -> <<event("Bool", IF t.b THEN <<1>> ELSE <<0>>)>>
    [] t.k = "number" -> <<event(NumberType(t), <<t.n>>)>>
    [] t.k = "string" -> <<event("String", t.s)>>
    [] t.k = "object" -> all("StartObject", "EndObject")
    [] t.k = "array"  -> all("StartArray", "EndArray")
\* Of the elements, or the members with their names.
EventsOf(items) ==
  IF items = <<>> THEN <<>>
  ELSE (IF "name" \in DOMAIN Head(items)
        THEN <<[ev |-> "Key", v |-> Head(items).name]>> \o Events(Head(items).value)
        ELSE Events(Head(items))) \o EventsOf(Tail(items))

AskEvents == \E path \in Paths : Answered("events", Events(At(path)))

Next ==
  \/ Parse \/ AddMember \/ PushBack \/ AddMemberMoved \/ PushBackMoved \/ RemoveMember \/ Erase
  \/ Empty \/ Reserve \/ Assign \/ Take \/ Swap \/ Copy \/ AskMember \/ AskType \/ AskEqual
  \/ AskEvents

Spec == Init /\ [][Next]_vars
=============================================================================
