---------------------------- MODULE JsonPointer ----------------------------
(***************************************************************************)
(* GenericPointer (pointer.h): a JSON Pointer, or its URI fragment form,   *)
(* parsed into tokens, written back, compared, extended, and resolved in a *)
(* tree of values.                                                         *)
(*                                                                         *)
(* A pointer is the result of a parse: the error (or "None"), its offset,  *)
(* and the tokens, each a name and an index.  An index is a SizeType, a    *)
(* number of 0 .. MaxUint; the last one stands for "no index".  `high` is  *)
(* how many units of the name buffer were written, `room` its length.      *)
(***************************************************************************)
EXTENDS Utf8, SequencesExt, FiniteSetsExt

CONSTANT MaxUint      \* 2^32 - 1

Invalid == MaxUint    \* kPointerInvalidIndex
Hash == 35   Percent == 37   Hyphen == 45   Solidus == 47   Zero == 48   One == 49   Tilde == 126
Digits == 48 .. 57

NeedPercentEncode(c) ==
  c \notin Digits \union (65 .. 90) \union (97 .. 122) \union {Hyphen, 46, 95, Tilde}

--------------------------------------------------------------------------
(* Parsing. *)

HexDigit(c) ==
  CASE c \in Digits     -> c - 48
    [] c \in 65 .. 70   -> c - 55
    [] c \in 97 .. 102  -> c - 87
    [] OTHER            -> 16

(***************************************************************************)
(* PercentDecodeStream: the units that the triplets %XY from position i on *)
(* stand for.  A Take that finds no triplet gives 0 and marks the stream,  *)
(* and what is taken from a marked stream is refused.                      *)
(***************************************************************************)
IsTriplet(s, i) ==
  i + 2 <= Len(s) /\ s[i] = Percent /\ HexDigit(s[i + 1]) < 16 /\ HexDigit(s[i + 2]) < 16
PercentDecoded(s, i, n) ==
  LET valid(k) == \A j \in 1 .. k : IsTriplet(s, i + 3 * (j - 1)) IN
  [k \in 1 .. n |-> IF valid(k)
                    THEN 16 * HexDigit(s[i + 3 * k - 2]) + HexDigit(s[i + 3 * k - 1]) ELSE 0]

(***************************************************************************)
(* One well-formed UTF-8 sequence behind triplets: a single unit goes on   *)
(* as if it stood in the source, the units of a longer one go to the name. *)
(***************************************************************************)
Sequence(s, i, v) ==
  LET n == Len(v.copied) IN
  [ok    |-> v.ok /\ \A k \in 1 .. n : IsTriplet(s, i + 3 * (k - 1)),
   units |-> v.copied,
   next  |-> i + 3 * n]
PercentDecode(s, i) == Sequence(s, i, Validate(PercentDecoded(s, i, 4), 1))

\* A parse in progress: the position, the name read so far, the tokens, and the buffer.
PointerFail(p, code, offset) == [p EXCEPT !.err = code, !.off = offset]
Reached(p, n) == [p EXCEPT !.high = Max({@, n})]

\* The rest of the loop's body for the unit c, read from before position i.
NameUnit(p, s, c, i) ==
  LET put(u, next) == Reached([p EXCEPT !.name = Append(@, u), !.at = next, !.used = @ + 1],
                              p.used + 1) IN
  CASE c # Tilde -> put(c, i)
    [] c = Tilde /\ At(s, i) = Zero /\ i <= Len(s) -> put(Tilde, i + 1)
    [] c = Tilde /\ At(s, i) = One /\ i <= Len(s)  -> put(Solidus, i + 1)
    [] OTHER -> PointerFail(p, "InvalidEscape", i - 1)

PutSequence(p, s, d) ==
  LET n == Len(d.units)
      q == Reached(p, p.used + n) IN
  CASE ~d.ok -> PointerFail(q, "InvalidPercentEncoding", p.at - 1)
    [] d.ok /\ n = 1 -> NameUnit(q, s, d.units[1], d.next)
    [] OTHER -> [q EXCEPT !.name = @ \o d.units, !.at = d.next, !.used = @ + n]
ParsePercent(p, s) == PutSequence(p, s, PercentDecode(s, p.at))

\* The units of a name, up to the next '/'.
RECURSIVE ParseName(_, _, _)
ParseName(p, s, uriFragment) ==
  IF p.err # "None" \/ p.at > Len(s) \/ At(s, p.at) = Solidus THEN p
  ELSE LET c == At(s, p.at) IN
       ParseName(CASE uriFragment /\ c = Percent -> ParsePercent(p, s)
                   [] uriFragment /\ c # Percent /\ NeedPercentEncode(c) ->
                        PointerFail(p, "CharacterMustPercentEncode", p.at - 1)
                   [] OTHER -> NameUnit(p, s, c, p.at + 1),
                 s, uriFragment)

(***************************************************************************)
(* The string to a SizeType: the number wraps, and only a wrapped number   *)
(* that is less than the one before it is noticed.                         *)
(***************************************************************************)
RECURSIVE IndexOf(_, _)
IndexOf(digits, n) ==
  IF digits = <<>> THEN n
  ELSE LET m == (n * 10 + Head(digits) - 48) % (MaxUint + 1) IN
       IF m < n THEN Invalid ELSE IndexOf(Tail(digits), m)

IsNumber(name) ==
  /\ name # <<>> /\ \A k \in DOMAIN name : name[k] \in Digits
  /\ Len(name) = 1 \/ name[1] # Zero

Token(name) == [name |-> name, index |-> IF IsNumber(name) THEN IndexOf(name, 0) ELSE Invalid]

EndName(p) ==
  IF p.err # "None" THEN [p EXCEPT !.tokens = <<>>]
  ELSE Reached([p EXCEPT !.tokens = Append(@, Token(p.name)), !.used = @ + 1], p.used + 1)

RECURSIVE ParseTokens(_, _, _)
ParseTokens(p, s, uriFragment) ==
  IF p.err # "None" \/ p.at > Len(s) THEN p
  ELSE ParseTokens(EndName(ParseName([p EXCEPT !.at = @ + 1, !.name = <<>>], s, uriFragment)),
                   s, uriFragment)

ParsePointer(s) ==
  LET uriFragment == At(s, 1) = Hash
      first == IF uriFragment THEN 2 ELSE 1
      p == [err |-> "None", off |-> 0, at |-> first, name |-> <<>>, tokens |-> <<>>,
            used |-> 0, high |-> 0, room |-> Len(s)] IN
  IF first <= Len(s) /\ s[first] # Solidus
  THEN PointerFail(p, "TokenMustBeginWithSolidus", first - 1)
  ELSE ParseTokens(p, s, uriFragment)

IsValid(p) == p.err = "None"

--------------------------------------------------------------------------
(* Writing and comparing. *)

HexUnit(x) == IF x < 10 THEN 48 + x ELSE 55 + x
PercentEncode(u) == <<Percent, HexUnit(u \div 16), HexUnit(u % 16)>>

\* Stringify of the name from its unit j on; ok is false for a name that is not UTF-8.
RECURSIVE StringifyName(_, _, _)
StringifyUnits(name, j, uriFragment, v, encoded) ==
  LET put == CASE encoded           -> FlattenSeq([k \in DOMAIN v.copied |-> PercentEncode(v.copied[k])])
               [] name[j] = Tilde   -> <<Tilde, Zero>>
               [] name[j] = Solidus -> <<Tilde, One>>
               [] OTHER             -> <<name[j]>> IN
  IF encoded /\ ~v.ok THEN [ok |-> FALSE, units |-> put]
  ELSE [StringifyName(name, j + (IF encoded THEN Len(v.copied) ELSE 1), uriFragment)
          EXCEPT !.units = put \o @]
StringifyName(name, j, uriFragment) ==
  IF j > Len(name) THEN [ok |-> TRUE, units |-> <<>>]
  ELSE StringifyUnits(name, j, uriFragment, Validate(name, j),
                      uriFragment /\ name[j] # Solidus /\ NeedPercentEncode(name[j]))

Stringified(names, uriFragment) ==
  [ok    |-> \A k \in DOMAIN names : names[k].ok,
   units |-> (IF uriFragment THEN <<Hash>> ELSE <<>>)
             \o FlattenSeq([k \in DOMAIN names |-> <<Solidus>> \o names[k].units])]
Stringify(tokens, uriFragment) ==
  Stringified([k \in DOMAIN tokens |-> StringifyName(tokens[k].name, 1, uriFragment)], uriFragment)

Equal(p, q) == IsValid(p) /\ IsValid(q) /\ p.tokens = q.tokens

\* The three comparisons of operator< for a token, and the first that is not a draw.
Keys(t) == <<t.index, Len(t.name)>> \o t.name
FirstDifference(a, b) == {k \in DOMAIN a \cap DOMAIN b : a[k] # b[k]}
TokenLess(t, u) ==
  LET d == FirstDifference(Keys(t), Keys(u)) IN
  d # {} /\ Keys(t)[Min(d)] < Keys(u)[Min(d)]
Less(p, q) ==
  /\ IsValid(p)
  /\ IsValid(q) =>
       IF Len(p.tokens) # Len(q.tokens) THEN Len(p.tokens) < Len(q.tokens)
       ELSE \E k \in DOMAIN p.tokens :
              /\ \A j \in 1 .. k - 1 : p.tokens[j] = q.tokens[j]
              /\ TokenLess(p.tokens[k], q.tokens[k])

\* Append: a token of a name has no index, a token of an index has its digits as name.
AppendToken(p, t) == [p EXCEPT !.tokens = Append(@, t)]
AppendName(p, name) == AppendToken(p, [name |-> name, index |-> Invalid])
AppendIndex(p, digits, index) == AppendToken(p, [name |-> digits, index |-> index])

--------------------------------------------------------------------------
(* Resolving, in trees [k |-> kind, m |-> elements or members]. *)

NullTree == [k |-> "null", m |-> <<>>]
Member(name, value) == [name |-> name, value |-> value]

\* FindMember: the first member with the name, or 0.
FindMember(tree, name) ==
  LET at == {i \in DOMAIN tree.m : tree.m[i].name = name} IN IF at = {} THEN 0 ELSE Min(at)

\* Where a token leads in a value, or 0.
Resolve(tree, t) ==
  CASE tree.k = "object" -> FindMember(tree, t.name)
    [] tree.k = "array"  -> IF t.index # Invalid /\ t.index < Len(tree.m) THEN t.index + 1 ELSE 0
    [] OTHER -> 0

Child(tree, i) == IF tree.k = "object" THEN tree.m[i].value ELSE tree.m[i]
WithChild(tree, i, c) ==
  IF tree.k = "object" THEN [tree EXCEPT !.m[i].value = c] ELSE [tree EXCEPT !.m[i] = c]

\* Get: the value, or the number of the token that could not be resolved.
RECURSIVE Get(_, _, _)
GetFrom(tree, i, tokens, n) ==
  IF i = 0 THEN [found |-> FALSE, value |-> NullTree, unresolved |-> n]
  ELSE Get(Child(tree, i), tokens, n + 1)
Get(tree, tokens, n) ==
  IF tokens = <<>> THEN [found |-> TRUE, value |-> tree, unresolved |-> 0]
  ELSE GetFrom(tree, Resolve(tree, Head(tokens)), Tail(tokens), n)

\* The value made ready for a token: its type changed where it must be.
Prepared(tree, t) ==
  CASE t.index = Invalid /\ tree.k # "object" -> [k |-> "object", m |-> <<>>]
    [] t.index # Invalid /\ tree.k \notin {"object", "array"} -> [k |-> "array", m |-> <<>>]
    [] OTHER -> tree

\* Room for a token: the tree with its child, where that is, and whether it was there.
IsEndOfArray(tree, t) == tree.k = "array" /\ t.name = <<Hyphen>>
WithRoom(v, t, i) ==
  CASE i # 0 -> [tree |-> v, at |-> i, exist |-> TRUE]
    [] i = 0 /\ v.k = "object" ->
         [tree |-> [v EXCEPT !.m = Append(@, Member(t.name, NullTree))],
          at |-> Len(v.m) + 1, exist |-> FALSE]
    [] OTHER ->
         [tree |-> [v EXCEPT !.m = @ \o [k \in 1 .. t.index + 1 - Len(@) |-> NullTree]],
          at |-> t.index + 1, exist |-> FALSE]
Resolvable(v, t) == WithRoom(v, t, Resolve(v, t))
Extended(tree, t) ==
  IF IsEndOfArray(tree, t)
  THEN [tree |-> [tree EXCEPT !.m = Append(@, NullTree)], at |-> Len(tree.m) + 1, exist |-> FALSE]
  ELSE Resolvable(Prepared(tree, t), t)

\* Create and Set: the tree with `value` put in the place that Create made, and its alreadyExist.
RECURSIVE Set(_, _, _)
SetIn(e, below) ==
  [tree |-> WithChild(e.tree, e.at, below.tree), exist |-> e.exist /\ below.exist]
SetBelow(e, tokens, value) == SetIn(e, Set(Child(e.tree, e.at), tokens, value))
Set(tree, tokens, value) ==
  IF tokens = <<>> THEN [tree |-> value, exist |-> TRUE]
  ELSE SetBelow(Extended(tree, Head(tokens)), Tail(tokens), value)

\* Erase: the root cannot be erased.
RECURSIVE Erase(_, _)
EraseFrom(tree, i, tokens) ==
  CASE i = 0 -> [tree |-> tree, erased |-> FALSE]
    [] i # 0 /\ tokens = <<>> -> [tree |-> [tree EXCEPT !.m = RemoveAt(@, i)], erased |-> TRUE]
    [] OTHER -> [Erase(Child(tree, i), tokens) EXCEPT !.tree = WithChild(tree, i, @)]
Erase(tree, tokens) ==
  IF tokens = <<>> THEN [tree |-> tree, erased |-> FALSE]
  ELSE EraseFrom(tree, Resolve(tree, Head(tokens)), Tail(tokens))
=============================================================================
