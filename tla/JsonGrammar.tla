---------------------------- MODULE JsonGrammar ----------------------------
(***************************************************************************)
(* The reference the readers are held against: the grammar of JSON (RFC    *)
(* 8259, which the comments of reader.h cite rule by rule) as sets.  For a *)
(* nonterminal and a position, the set of the positions after it.  Nothing *)
(* here is translated from the source.                                     *)
(***************************************************************************)
EXTENDS JsonReader

\* The alternatives that follow each of a set of positions.
After(ends, Ends(_)) == UNION {Ends(i) : i \in ends}

Symbol(s, i, set) == IF i <= Len(s) /\ s[i] \in set THEN {i + 1} ELSE {}

Word(s, i, word) ==
  IF i + Len(word) - 1 <= Len(s) /\ SubSeq(s, i, i + Len(word) - 1) = word
  THEN {i + Len(word)} ELSE {}

\* A comment, where the flags allow them: to the first */, or to the end of the line.
Comment(s, i) ==
  After(Word(s, i, <<47, 42>>), LAMBDA j :
    {k \in j + 2 .. Len(s) + 1 : /\ SubSeq(s, k - 2, k - 1) = <<42, 47>>
                                 /\ \A m \in j + 2 .. k - 1 : SubSeq(s, m - 2, m - 1) # <<42, 47>>})
  \union
  After(Word(s, i, <<47, 47>>), LAMBDA j :
    {k \in j .. Len(s) + 1 : /\ k = Len(s) + 1 \/ (k > j /\ s[k - 1] = 10)
                             /\ \A m \in j .. k - 2 : s[m] # 10})

RECURSIVE Gap(_, _, _)
Gap(s, i, flags) ==
  {i} \union After(Symbol(s, i, {32, 9, 10, 13}), LAMBDA j : Gap(s, j, flags))
  \union (IF "comments" \in flags THEN After(Comment(s, i), LAMBDA j : Gap(s, j, flags)) ELSE {})

\* One or more digits: any number of those that are there.
DigitRun(s, i) == {j \in i + 1 .. Len(s) + 1 : \A k \in i .. j - 1 : s[k] \in Digits}
Optional(i, ends) == {i} \union ends

Whole(s, i) ==
  Word(s, i, <<48>>) \union
  After(Symbol(s, i, 49 .. 57), LAMBDA j : Optional(j, DigitRun(s, j)))
Frac(s, i) == After(Symbol(s, i, {46}), LAMBDA j : DigitRun(s, j))
Exp(s, i) ==
  After(After(Symbol(s, i, {69, 101}), LAMBDA j : Optional(j, Symbol(s, j, {43, 45}))),
        LAMBDA j : DigitRun(s, j))

Number(s, i) ==
  LET unsigned == After(Optional(i, Symbol(s, i, {45})), LAMBDA j : Whole(s, j)) IN
  After(After(unsigned, LAMBDA j : Optional(j, Frac(s, j))),
        LAMBDA j : Optional(j, Exp(s, j)))

\* A fraction or an exponent behind NaN or Inf is let through, as the code does.
NanOrInf(s, i) ==
  LET unsigned == Optional(i, Symbol(s, i, {45}))
      words == After(unsigned, LAMBDA j : UNION {Word(s, j, w) :
        w \in {<<78, 97, 78>>, <<73, 110, 102>>, <<73, 110, 102, 105, 110, 105, 116, 121>>}})
      fractions == After(words, LAMBDA j : Optional(j, Frac(s, j))) IN
  After(fractions, LAMBDA j : Optional(j, Exp(s, j)))

Hex == (48 .. 57) \union (65 .. 70) \union (97 .. 102)
IsEscape(s, i) ==
  i + 5 <= Len(s) /\ s[i] = 92 /\ s[i + 1] = 117 /\ \A k \in 2 .. 5 : s[i + k] \in Hex
\* The escape of a first half: \uD800 to \uDBFF.
IsHigh(s, i)  == IsEscape(s, i) /\ s[i + 2] \in {68, 100} /\ s[i + 3] \in {56, 57, 65, 66, 97, 98}
IsLow(s, i)   == IsEscape(s, i) /\ s[i + 2] \in {68, 100} /\ s[i + 3] \in (67 .. 70) \union (99 .. 102)

\* A Unicode scalar value in UTF-8: the shortest form, and no surrogate.
Form == [first |-> <<0, 192, 224, 240>>, span |-> <<128, 32, 16, 8>>,
         least |-> <<0, 128, 2048, 65536>>]
RECURSIVE Point6(_, _)
Point6(units, n) ==
  IF n = 1 THEN units[1] - Form.first[Len(units)] ELSE Point6(units, n - 1) * 64 + units[n] - 128
WellFormed(units) ==
  LET n == Len(units) IN
  /\ n \in 1 .. 4
  /\ units[1] \in Form.first[n] .. Form.first[n] + Form.span[n] - 1
  /\ \A k \in 2 .. n : units[k] \in 128 .. 191
  /\ Point6(units, n) \in Form.least[n] .. 1114111
  /\ Point6(units, n) \notin 55296 .. 57343

\* One character of a string; a second half alone is let through, as the code does.
Character(s, i, flags) ==
  LET plain(n) == {j \in {i + n} : /\ j <= Len(s) + 1 /\ s[i] >= 32 /\ s[i] \notin {34, 92}
                                   /\ n = 1 \/ WellFormed(SubSeq(s, i, j - 1))}
      short == IF i + 1 <= Len(s) /\ s[i] = 92 /\ s[i + 1] \in {34, 47, 92, 98, 102, 110, 114, 116}
               THEN {i + 2} ELSE {} IN
  short
  \union (IF IsEscape(s, i) /\ ~IsHigh(s, i) THEN {i + 6} ELSE {})
  \union (IF IsHigh(s, i) /\ IsLow(s, i + 6) THEN {i + 12} ELSE {})
  \union (IF i > Len(s) THEN {}
          ELSE IF "validate" \notin flags \/ s[i] < 128 THEN plain(1)
          ELSE UNION {plain(n) : n \in 2 .. 4})

RECURSIVE Characters(_, _, _)
Characters(s, i, flags) ==
  Symbol(s, i, {34}) \union After(Character(s, i, flags), LAMBDA j : Characters(s, j, flags))
String(s, i, flags) == After(Symbol(s, i, {34}), LAMBDA j : Characters(s, j, flags))

RECURSIVE Value(_, _, _), Members(_, _, _), Elements(_, _, _)

Member(s, i, flags) ==
  LET colon == After(After(String(s, i, flags), LAMBDA j : Gap(s, j, flags)),
                     LAMBDA j : Symbol(s, j, {58})) IN
  After(After(After(colon, LAMBDA j : Gap(s, j, flags)), LAMBDA j : Value(s, j, flags)),
        LAMBDA j : Gap(s, j, flags))

Element(s, i, flags) == After(Value(s, i, flags), LAMBDA j : Gap(s, j, flags))

\* What follows an item: the closing bracket, or a comma and more items.
More(s, i, flags, close, Items(_)) ==
  LET next == After(Symbol(s, i, {44}), LAMBDA j : Gap(s, j, flags)) IN
  Symbol(s, i, {close})
  \union After(next, LAMBDA j : Items(j))
  \union (IF "trailing" \in flags THEN After(next, LAMBDA j : Symbol(s, j, {close})) ELSE {})

Members(s, i, flags) ==
  After(Member(s, i, flags), LAMBDA j : More(s, j, flags, 125, LAMBDA k : Members(s, k, flags)))
Elements(s, i, flags) ==
  After(Element(s, i, flags), LAMBDA j : More(s, j, flags, 93, LAMBDA k : Elements(s, k, flags)))

Value(s, i, flags) ==
  LET scope(open, close, Items(_)) ==
        After(After(Symbol(s, i, {open}), LAMBDA j : Gap(s, j, flags)),
              LAMBDA j : Symbol(s, j, {close}) \union Items(j)) IN
  Word(s, i, <<110, 117, 108, 108>>) \union Word(s, i, <<116, 114, 117, 101>>)
  \union Word(s, i, <<102, 97, 108, 115, 101>>)
  \union String(s, i, flags) \union Number(s, i)
  \union (IF "nanInf" \in flags THEN NanOrInf(s, i) ELSE {})
  \union scope(123, 125, LAMBDA j : Members(s, j, flags))
  \union scope(91, 93, LAMBDA j : Elements(s, j, flags))

\* The text is one value between blanks.
WellFormedText(s, flags) ==
  Len(s) + 1 \in After(After(Gap(s, 1, flags), LAMBDA j : Value(s, j, flags)),
                       LAMBDA j : Gap(s, j, flags))

--------------------------------------------------------------------------
(* The value of a number, from its text alone. *)

RECURSIVE Natural(_)
Natural(digits) ==
  IF digits = <<>> THEN 0
  ELSE 10 * Natural(SubSeq(digits, 1, Len(digits) - 1)) + digits[Len(digits)] - 48

IsDigitUnit(c) == c \in Digits
Upto(s, i, stop) == SubSeq(s, i, (CHOOSE k \in i .. Len(s) + 1 :
  /\ k = Len(s) + 1 \/ s[k] \in stop
  /\ \A j \in i .. k - 1 : s[j] \notin stop) - 1)

\* A number's text: whether it is negative, an integer, and its mantissa * 10^exp.
Parts(text) ==
  LET minus == text[1] = 45
      body  == IF minus THEN Tail(text) ELSE text
      whole == Upto(body, 1, {46, 69, 101})
      frac  == IF Len(whole) < Len(body) /\ body[Len(whole) + 1] = 46
               THEN Upto(body, Len(whole) + 2, {69, 101}) ELSE <<>>
      point == IF frac = <<>> THEN 0 ELSE 1
      power == SubSeq(body, Len(whole) + point + Len(frac) + 2, Len(body))
      written == Natural(SelectSeq(power, IsDigitUnit)) IN
  [minus |-> minus, integer |-> whole = body, mantissa |-> Natural(whole \o frac),
   decimals |-> Len(frac),
   exponent |-> IF power # <<>> /\ power[1] = 45 THEN -written ELSE written]

Sign(p) == IF p.minus THEN -1 ELSE 1

\* An integer takes the narrowest type that holds it.
IntegerEvent(p) ==
  LET v == <<Sign(p) * p.mantissa>> IN
  CASE ~p.minus /\ p.mantissa <= MaxUint -> [ev |-> "Uint", v |-> v]
    [] p.minus /\ p.mantissa <= MaxUint \div 2 + 1 -> [ev |-> "Int", v |-> v]
    [] ~p.minus /\ p.mantissa \in MaxUint + 1 .. MaxUint64 -> [ev |-> "Uint64", v |-> v]
    [] p.minus /\ p.mantissa \in MaxUint \div 2 + 2 .. MaxUint64 \div 2 + 1 ->
         [ev |-> "Int64", v |-> v]
    [] OTHER -> [ev |-> "Double", v |-> <<Sign(p), p.mantissa, 0>>]

\* A double is exact, or only lost digits it could not have told apart.
DoubleEvents(p) ==
  LET exp == p.exponent - p.decimals
      kept(k) == p.mantissa \div 10 ^ k IN
  IF p.mantissa = 0 \/ exp < -2 * MaxExp10 - p.decimals
  THEN {[ev |-> "Double", v |-> <<Sign(p), 0, 0>>]}
  ELSE {[ev |-> "Double", v |-> <<Sign(p), kept(k), exp + k>>] :
          k \in {k \in 0 .. p.decimals : k = 0 \/ kept(k) >= 10 ^ (MaxDigits - 1)}}
       \union (IF exp < -2 * MaxExp10 THEN {[ev |-> "Double", v |-> <<Sign(p), 0, 0>>]} ELSE {})

NumberEvents(text) ==
  IF Parts(text).integer THEN {IntegerEvent(Parts(text))} ELSE DoubleEvents(Parts(text))

\* Too large for a double; a zero with an exponent too large is refused as well.
TooBig(text) ==
  LET p == Parts(text)
      exp == p.exponent - p.decimals IN
  /\ ~p.integer
  /\ \/ p.mantissa = 0 /\ p.exponent > MaxExp10 + p.decimals
     \/ p.mantissa # 0 /\ exp > MaxExp10
     \/ p.mantissa # 0 /\ exp \in 0 .. MaxExp10 /\ p.mantissa > MaxDouble \div 10 ^ exp
     \/ /\ p.mantissa # 0 /\ exp < 0 /\ -exp <= 9
        /\ p.mantissa \div 10 ^ (-exp) >= MaxDouble
=============================================================================
