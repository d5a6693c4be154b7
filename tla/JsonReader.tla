----------------------------- MODULE JsonReader -----------------------------
(***************************************************************************)
(* GenericReader (reader.h): the recursive parser, the iterative parser    *)
(* and the token-by-token one, over the UTF-8 text of a StringStream.      *)
(*                                                                         *)
(* A reader is a record: the text s and the position `at` in it, the parse *)
(* flags fl, the events the handler got, the first error and its offset,   *)
(* and the stack of the iterative parsers.  The handler takes `quota`      *)
(* events and then returns false.  `fault` records what the source asserts *)
(* or a width forbids: a table read past its end, an int that overflows, a *)
(* second error over a first.  A reader with an error does nothing more,   *)
(* which is what RAPIDJSON_PARSE_ERROR_EARLY_RETURN does after every call. *)
(*                                                                         *)
(* The widths of the numbers are constants, so that their limits can be    *)
(* met by short texts; a double is exact, sig * 10^exp.                    *)
(***************************************************************************)
EXTENDS Utf8, FiniteSets, TLC

CONSTANTS
  MaxUint,      \* 2^32 - 1
  MaxUint64,    \* 2^64 - 1
  MaxExact,     \* 2^53 - 1: what fits the significand of a double
  MaxDigits,    \* 17: the digits a double can tell apart
  MaxExp10,     \* 308: the powers of ten in the table of Pow10
  MaxDouble,    \* the largest double, with MaxExp10 + 1 digits
  IntMax        \* 2^31 - 1: the width of an exponent

ASSUME WidthAssumption ==
  /\ {MaxUint, MaxUint64, MaxExact, MaxDigits, MaxExp10, MaxDouble, IntMax} \subseteq Nat
  /\ MaxUint >= 20 /\ MaxExact > MaxUint /\ MaxUint64 > 20 * 10 ^ MaxDigits
  /\ MaxDouble \in 10 ^ MaxExp10 .. 2 * 10 ^ MaxExp10
  /\ MaxExp10 >= 9 /\ IntMax > 10 * (2 * MaxExp10 + MaxDigits)

Quote == 34     Plus == 43    Comma == 44    Minus == 45    Dot == 46    Slash == 47
Colon == 58     Star == 42    Backslash == 92      Newline == 10
LBracket == 91  RBracket == 93  LBrace == 123  RBrace == 125
Digits == 48 .. 57
White  == {32, 10, 13, 9}

Start(text, flags, quota) ==
  [s |-> text, at |-> 1, fl |-> flags, ev |-> <<>>, quota |-> quota,
   err |-> "None", off |-> 0, stk |-> <<>>, fault |-> FALSE]

Peek(r) == At(r.s, r.at)
Tell(r) == r.at - 1
Skip(r, n) == [r EXCEPT !.at = @ + n]
Take(r) == Skip(r, 1)
Failed(r) == r.err # "None"

\* RAPIDJSON_PARSE_ERROR_NORETURN: an error can only be assigned once.
Fail(r, code, offset) ==
  [r EXCEPT !.err = code, !.off = offset, !.fault = @ \/ r.err # "None"]

\* A call of the handler, which may end the parse.
Emit(r, kind, v, offset) ==
  IF Len(r.ev) = r.quota THEN Fail(r, "Termination", offset)
  ELSE [r EXCEPT !.ev = Append(@, [ev |-> kind, v |-> v])]

\* Consume, where the source makes an error of anything else.
Expect(r, c, code) ==
  IF Failed(r) THEN r ELSE IF Peek(r) = c THEN Take(r) ELSE Fail(r, code, Tell(r))

\* The first position from i on where P holds, or the terminating NUL.
First(s, i, P(_)) ==
  CHOOSE k \in i .. Len(s) + 1 :
    /\ k = Len(s) + 1 \/ P(k)
    /\ \A j \in i .. k - 1 : ~P(j)

SkipWhitespace(r) ==
  [r EXCEPT !.at = First(r.s, @, LAMBDA k : r.s[k] \notin White)]

RECURSIVE SkipComments(_)
SkipComments(r) ==
  LET inner == Skip(r, 2)
      close == First(r.s, inner.at, LAMBDA k : r.s[k] = Star /\ At(r.s, k + 1) = Slash)
      eol   == First(r.s, inner.at, LAMBDA k : r.s[k] = Newline)
      resume(at) == SkipComments(SkipWhitespace([r EXCEPT !.at = at])) IN
  IF Peek(r) # Slash THEN r
  ELSE CASE Peek(Take(r)) = Star ->
              IF close > Len(r.s)
              THEN Fail([r EXCEPT !.at = close], "UnspecificSyntaxError", Len(r.s))
              ELSE resume(close + 2)
         [] Peek(Take(r)) = Slash -> resume(IF eol > Len(r.s) THEN eol ELSE eol + 1)
         [] OTHER -> Fail(Take(r), "UnspecificSyntaxError", Tell(Take(r)))

SkipWhitespaceAndComments(r) ==
  IF Failed(r) THEN r
  ELSE IF "comments" \in r.fl THEN SkipComments(SkipWhitespace(r)) ELSE SkipWhitespace(r)

(***************************************************************************)
(* ParseNull, ParseTrue, ParseFalse: the letters are consumed one by one,  *)
(* and the first that differs is where the error is.                       *)
(***************************************************************************)
ParseWord(r, word, kind, v) ==
  LET differs == {k \in DOMAIN word : At(r.s, Tell(r) + k) # word[k]}
      n == IF differs = {} THEN Len(word)
           ELSE (CHOOSE k \in differs : \A j \in differs : k <= j) - 1
      after == Skip(r, n) IN
  IF differs = {} THEN Emit(after, kind, v, Tell(after))
  ELSE Fail(after, "ValueInvalid", Tell(after))

ParseNull(r)  == ParseWord(r, <<110, 117, 108, 108>>, "Null", <<>>)
ParseTrue(r)  == ParseWord(r, <<116, 114, 117, 101>>, "Bool", <<1>>)
ParseFalse(r) == ParseWord(r, <<102, 97, 108, 115, 101>>, "Bool", <<0>>)

--------------------------------------------------------------------------
(* Strings.  A string under construction is the reader and the output `os`. *)

HexValue(c) ==
  CASE c \in Digits   -> c - 48
    [] c \in 65 .. 70  -> c - 55
    [] c \in 97 .. 102 -> c - 87
    [] OTHER -> -1

\* Four hexadecimal digits: the code they are, or the error at the escape's start.
ParseHex4(r, escapeOffset) ==
  LET hex(k) == HexValue(At(r.s, r.at + k)) IN
  IF Failed(r) THEN [r |-> r, code |-> 0]
  ELSE IF \E k \in 0 .. 3 : hex(k) = -1
  THEN [r |-> Fail(r, "StringUnicodeEscapeInvalidHex", escapeOffset), code |-> 0]
  ELSE [r |-> Skip(r, 4), code |-> ((hex(0) * 16 + hex(1)) * 16 + hex(2)) * 16 + hex(3)]

\* The table `escape`: what the letter after a backslash stands for, 0 if nothing.
Escape(c) ==
  CASE c \in {Quote, Slash, Backslash} -> c
    [] c = 98  -> 8
    [] c = 102 -> 12
    [] c = 110 -> 10
    [] c = 114 -> 13
    [] c = 116 -> 9
    [] OTHER   -> 0

\* The second half of a surrogate pair, and the code point of both.
LowSurrogate(second, high, escapeOffset) ==
  IF Failed(second.r) THEN second
  ELSE IF second.code \in 56320 .. 57343
  THEN [second EXCEPT !.code = (high - 55296) * 1024 + (@ - 56320) + 65536]
  ELSE [second EXCEPT !.r = Fail(@, "StringUnicodeSurrogateInvalid", escapeOffset)]

ParseLowSurrogate(first, escapeOffset) ==
  IF Failed(first.r) \/ first.code \notin 55296 .. 56319 THEN first
  ELSE IF Peek(first.r) = Backslash /\ Peek(Take(first.r)) = 117
  THEN LowSurrogate(ParseHex4(Skip(first.r, 2), escapeOffset), first.code, escapeOffset)
  ELSE [first EXCEPT !.r = Fail(@, "StringUnicodeSurrogateInvalid", escapeOffset)]

PutCodePoint(point, os) ==
  [r |-> point.r, os |-> IF Failed(point.r) THEN os ELSE os \o Encode(point.code)]

\* What follows a backslash.
ParseEscape(r, os) ==
  LET letter == Peek(Take(r)) IN
  CASE Escape(letter) # 0 -> [r |-> Skip(r, 2), os |-> Append(os, Escape(letter))]
    [] letter = 117 ->
         PutCodePoint(ParseLowSurrogate(ParseHex4(Skip(r, 2), Tell(r)), Tell(r)), os)
    [] OTHER -> [r |-> Fail(r, "StringEscapeInvalid", Tell(r)), os |-> os]

\* An ordinary code unit, or with validation a whole code point.
PutUnits(r, os, t) ==
  LET after == Skip(r, Len(t.copied)) IN
  [r  |-> IF t.ok THEN after ELSE Fail(after, "StringInvalidEncoding", Tell(r)),
   os |-> IF t.ok THEN os \o t.copied ELSE os]
CopyUnits(r, os) ==
  PutUnits(r, os, IF "validate" \in r.fl THEN Validate(r.s, r.at) ELSE Transcode(r.s, r.at))

RECURSIVE ParseStringToStream(_)
ParseStringToStream(string) ==
  LET r == string.r
      c == Peek(r)
      wrong(code) == [string EXCEPT !.r = Fail(@, code, Tell(r))] IN
  CASE Failed(r) -> string
    [] ~Failed(r) /\ c = Quote -> [string EXCEPT !.r = Take(@)]
    [] ~Failed(r) /\ c = Backslash -> ParseStringToStream(ParseEscape(r, string.os))
    [] ~Failed(r) /\ c = NUL -> wrong("StringMissQuotationMark")
    [] ~Failed(r) /\ c \in 1 .. 31 -> wrong("StringInvalidEncoding")
    [] OTHER -> ParseStringToStream(CopyUnits(r, string.os))

EndString(string, kind) ==
  IF Failed(string.r) THEN string.r
  ELSE Emit(string.r, kind, string.os, Tell(string.r))
ParseString(r, kind) == EndString(ParseStringToStream([r |-> Take(r), os |-> <<>>]), kind)

--------------------------------------------------------------------------
(***************************************************************************)
(* Numbers.  A number under construction is the reader r and               *)
(*   sig     i, i64 or d: the significand read so far                      *)
(*   type    "uint", "uint64" or "double", and "nan", "inf"                *)
(*   digits  significandDigit, which does not count the first digit        *)
(*   frac    -expFrac, how many of the digits are behind the point         *)
(*   exp     the exponent that was written                                 *)
(***************************************************************************)
OnDigit(n) == Peek(n.r) \in Digits
Digit(n) == Peek(n.r) - 48

TakeDigit(n) == [n EXCEPT !.r = Take(@), !.sig = 10 * @ + Digit(n)]

ExceedsEarly(n, max) ==   \* mutant: the last digit is compared one too low
  n.sig >= max \div 10 /\ (n.sig # max \div 10 \/ Digit(n) >= max % 10)

\* One digit more would not fit a width whose largest value is max.
Exceeds(n, max) ==
  n.sig >= max \div 10 /\ (n.sig # max \div 10 \/ Digit(n) > max % 10)

\* The integers of a width reach one further below zero.
Limit(n, max) == IF n.minus THEN max \div 2 + 1 ELSE max

\* The digits of a type that fit its width; more digits take the next type.
RECURSIVE Accumulate(_, _, _, _)
Accumulate(n, type, max, nextType) ==
  IF n.type # type \/ ~OnDigit(n) THEN n
  ELSE IF Exceeds(n, Limit(n, max)) THEN [n EXCEPT !.type = nextType]
  ELSE Accumulate([TakeDigit(n) EXCEPT !.digits = @ + 1], type, max, nextType)

\* "Force double for big integer": all the digits that are left.
RECURSIVE AccumulateDouble(_)
AccumulateDouble(n) ==
  IF n.type = "double" /\ OnDigit(n) THEN AccumulateDouble(TakeDigit(n)) ELSE n

\* NaN, Inf and Infinity.
ParseNanOrInf(n) ==
  LET matched(word) == Cardinality({k \in DOMAIN word :
                         \A j \in 1 .. k : At(n.r.s, Tell(n.r) + j) = word[j]})
      nan == <<78, 97, 78>>
      inf == <<73, 110, 102>>
      infinity == inf \o <<105, 110, 105, 116, 121>>
      invalid(k) == [n EXCEPT !.r = Fail(Skip(@, k), "ValueInvalid", Tell(@) + k)] IN
  CASE matched(nan) = 3 -> [n EXCEPT !.r = Skip(@, 3), !.type = "nan"]
    [] matched(infinity) \in {3, 8} ->
         [n EXCEPT !.r = Skip(@, matched(infinity)), !.type = "inf"]
    [] OTHER -> invalid(IF Peek(n.r) = 78 THEN matched(nan) ELSE matched(infinity))

ParseInteger(n) ==
  CASE Peek(n.r) = 48 -> [n EXCEPT !.r = Take(@)]
    [] Peek(n.r) \in Digits \ {48} ->
         AccumulateDouble(
           Accumulate(
             Accumulate([TakeDigit(n) EXCEPT !.type = "uint"], "uint", MaxUint, "uint64"),
             "uint64", MaxUint64, "double"))
    [] Peek(n.r) \in {73, 78} /\ "nanInf" \in n.r.fl -> ParseNanOrInf(n)
    [] OTHER -> [n EXCEPT !.r = Fail(@, "ValueInvalid", Tell(@))]

\* Digits behind the point: into the integer while it is exact, ...
RECURSIVE FractionExact(_)
FractionExact(n) ==
  LET next == TakeDigit(n) IN
  IF ~OnDigit(n) \/ n.sig > MaxExact THEN n
  ELSE FractionExact([next EXCEPT !.frac = @ + 1,
                                  !.digits = IF next.sig # 0 THEN @ + 1 ELSE @])

\* ... then into the double while it can tell them apart; the others are dropped.
RECURSIVE FractionDouble(_)
FractionDouble(n) ==
  LET next == TakeDigit(n) IN
  IF ~OnDigit(n) THEN n
  ELSE IF n.digits < MaxDigits
  THEN FractionDouble([next EXCEPT !.frac = @ + 1,
                                   !.digits = IF next.sig > 0 THEN @ + 1 ELSE @])
  ELSE FractionDouble([n EXCEPT !.r = Take(@)])

ParseFraction(n) ==
  LET point == [n EXCEPT !.r = Take(@)]
      exact == IF n.type = "double" THEN point ELSE FractionExact(point) IN
  IF Failed(n.r) \/ Peek(n.r) # Dot THEN n
  ELSE IF ~OnDigit(point) THEN [point EXCEPT !.r = Fail(@, "NumberMissFraction", Tell(@))]
  ELSE FractionDouble([exact EXCEPT !.type = "double"])

\* The digits of an exponent.  A negative one may lose its last digits: it is 0 then.
RECURSIVE ExponentDigits(_, _)
ExponentDigits(n, negative) ==
  LET maxExp == IF negative THEN (IntMax - 8 - n.frac) \div 10 ELSE MaxExp10 + n.frac
      next   == [n EXCEPT !.r = Take(@), !.exp = 10 * @ + Digit(n)]
      rest   == First(n.r.s, next.r.at, LAMBDA k : n.r.s[k] \notin Digits) IN
  IF ~OnDigit(n) THEN n
  ELSE IF next.exp <= maxExp THEN ExponentDigits(next, negative)
  ELSE IF negative THEN [next EXCEPT !.r.at = rest]
  ELSE [next EXCEPT !.r = Fail(@, "NumberTooBig", n.start)]

SignedExponent(n, negative) ==
  IF ~OnDigit(n) THEN [n EXCEPT !.r = Fail(@, "NumberMissExponent", Tell(@))]
  ELSE [ExponentDigits([n EXCEPT !.r = Take(@), !.exp = Digit(n)], negative)
          EXCEPT !.exp = IF negative THEN -@ ELSE @]

ParseExponent(n) ==
  LET sign == At(n.r.s, n.r.at + 1) IN
  IF Failed(n.r) \/ Peek(n.r) \notin {69, 101} THEN n
  ELSE SignedExponent([n EXCEPT !.r = Skip(@, IF sign \in {Plus, Minus} THEN 2 ELSE 1),
                                !.type = "double"], sign = Minus)

\* internal::FastPath and StrtodNormalPrecision: sig * 10^p, 0 when p is too small.
StrtodNormalPrecision(sig, p) ==
  IF p < -2 * MaxExp10 \/ sig = 0 THEN [sig |-> 0, exp |-> 0] ELSE [sig |-> sig, exp |-> p]

Overflows(d) ==
  d.exp >= 0 /\ d.sig > MaxDouble \div 10 ^ (IF d.exp > MaxExp10 THEN MaxExp10 ELSE d.exp)

Signed(n, x) == IF n.minus THEN -x ELSE x

\* The event of a finished number.
FinishNumber(n) ==
  LET p    == n.exp - n.frac
      d    == StrtodNormalPrecision(n.sig, p)
      r    == [n.r EXCEPT !.fault = @ \/ (n.type = "double" /\ p \notin -IntMax - 1 .. MaxExp10)]
      text == SubSeq(n.r.s, n.start + 1, Tell(n.r)) IN
  IF Failed(n.r) THEN n.r
  ELSE IF "numbersAsStrings" \in n.r.fl THEN Emit(n.r, "RawNumber", text, n.start)
  ELSE CASE n.type = "double" ->
              IF Overflows(d) THEN Fail(r, "NumberTooBig", n.start)
              ELSE Emit(r, "Double", <<Signed(n, 1), d.sig, d.exp>>, n.start)
         [] n.type = "nan" -> Emit(r, "NaN", <<>>, n.start)
         [] n.type = "inf" -> Emit(r, "Inf", <<Signed(n, 1)>>, n.start)
         [] n.type = "uint64" ->
              Emit(r, IF n.minus THEN "Int64" ELSE "Uint64", <<Signed(n, n.sig)>>, n.start)
         [] n.type = "uint" ->
              Emit(r, IF n.minus THEN "Int" ELSE "Uint", <<Signed(n, n.sig)>>, n.start)

ParseNumber(r) ==
  LET minus == Peek(r) = Minus
      n == [r |-> IF minus THEN Take(r) ELSE r, minus |-> minus, start |-> Tell(r),
            sig |-> 0, type |-> "uint", digits |-> 0, frac |-> 0, exp |-> 0] IN
  FinishNumber(ParseExponent(ParseFraction(ParseInteger(n))))

--------------------------------------------------------------------------
(* The recursive parser. *)

RECURSIVE ParseValue(_), ParseMembers(_, _), ParseElements(_, _)

\* A value and the white space behind it.
ParseSpacedValue(r) == SkipWhitespaceAndComments(ParseValue(r))

EndObject(r, memberCount) == Emit(Take(r), "EndObject", <<memberCount>>, Tell(Take(r)))
EndArray(r, elementCount) == Emit(Take(r), "EndArray", <<elementCount>>, Tell(Take(r)))

\* What follows a comma, and what follows a member; the same of an element below.
NextMember(r, memberCount) ==
  IF ~Failed(r) /\ "trailing" \in r.fl /\ Peek(r) = RBrace
  THEN Take(Emit(r, "EndObject", <<memberCount>>, Tell(r))) ELSE ParseMembers(r, memberCount)
AfterMember(r, memberCount) ==
  IF Failed(r) THEN r
  ELSE CASE Peek(r) = Comma -> NextMember(SkipWhitespaceAndComments(Take(r)), memberCount)
         [] Peek(r) = RBrace -> EndObject(r, memberCount)
         [] OTHER -> Fail(r, "ObjectMissCommaOrCurlyBracket", Tell(r))

ParseName(r) == SkipWhitespaceAndComments(ParseString(r, "Key"))
ParseColon(r) == SkipWhitespaceAndComments(Expect(r, Colon, "ObjectMissColon"))

ParseMembers(r, memberCount) ==
  IF Failed(r) THEN r
  ELSE IF Peek(r) # Quote THEN Fail(r, "ObjectMissName", Tell(r))
  ELSE AfterMember(ParseSpacedValue(ParseColon(ParseName(r))), memberCount + 1)

FirstMember(r) ==
  IF ~Failed(r) /\ Peek(r) = RBrace THEN EndObject(r, 0) ELSE ParseMembers(r, 0)
ParseObject(r) ==
  FirstMember(SkipWhitespaceAndComments(Emit(Take(r), "StartObject", <<>>, Tell(Take(r)))))

NextElement(r, elementCount) ==
  IF ~Failed(r) /\ "trailing" \in r.fl /\ Peek(r) = RBracket
  THEN Take(Emit(r, "EndArray", <<elementCount>>, Tell(r))) ELSE ParseElements(r, elementCount)
AfterElement(r, elementCount) ==
  IF Failed(r) THEN r
  ELSE CASE Peek(r) = Comma -> NextElement(SkipWhitespaceAndComments(Take(r)), elementCount)
         [] Peek(r) = RBracket -> EndArray(r, elementCount)
         [] OTHER -> Fail(r, "ArrayMissCommaOrSquareBracket", Tell(r))

ParseElements(r, elementCount) == AfterElement(ParseSpacedValue(r), elementCount + 1)

FirstElement(r) ==
  IF ~Failed(r) /\ Peek(r) = RBracket THEN EndArray(r, 0) ELSE ParseElements(r, 0)
ParseArray(r) ==
  FirstElement(SkipWhitespaceAndComments(Emit(Take(r), "StartArray", <<>>, Tell(Take(r)))))

ParseValue(r) ==
  IF Failed(r) THEN r
  ELSE CASE Peek(r) = 110 -> ParseNull(r)
         [] Peek(r) = 116 -> ParseTrue(r)
         [] Peek(r) = 102 -> ParseFalse(r)
         [] Peek(r) = Quote -> ParseString(r, "String")
         [] Peek(r) = LBrace -> ParseObject(r)
         [] Peek(r) = LBracket -> ParseArray(r)
         [] OTHER -> ParseNumber(r)

\* GenericReader::Parse without kParseIterativeFlag.
EndOfDocument(r) ==
  IF Failed(r) \/ Peek(r) = NUL THEN r ELSE Fail(r, "DocumentRootNotSingular", Tell(r))
ParseRoot(r) ==
  IF Failed(r) THEN r
  ELSE IF Peek(r) = NUL THEN Fail(r, "DocumentEmpty", Tell(r))
  ELSE IF "stopWhenDone" \in r.fl THEN ParseValue(r) ELSE EndOfDocument(ParseSpacedValue(r))
Parse(r) == ParseRoot(SkipWhitespaceAndComments(r))

--------------------------------------------------------------------------
(* The iterative parser: a state, one token of lookahead, and a stack. *)

Tokenize(c) ==
  CASE c = LBracket -> "LeftBracket"       [] c = RBracket -> "RightBracket"
    [] c = LBrace   -> "LeftCurlyBracket"  [] c = RBrace   -> "RightCurlyBracket"
    [] c = Comma    -> "Comma"             [] c = Colon    -> "Colon"
    [] c = Quote    -> "String"            [] c = 102      -> "False"
    [] c = 116      -> "True"              [] c = 110      -> "Null"
    [] OTHER        -> "Number"

\* The columns of G for a value, where a scalar leads to `scalar`.
ValueColumns(scalar) ==
  [t \in {"String", "False", "True", "Null", "Number"} |-> scalar]
  @@ "LeftBracket" :> "ArrayInitial" @@ "LeftCurlyBracket" :> "ObjectInitial"

\* The rows of the table G; what is not listed is the error state.
G(state) ==
  CASE state = "Start" -> ValueColumns("Value")
    [] state \in {"ArrayInitial", "ElementDelimiter"} ->
         ValueColumns("Element") @@ "RightBracket" :> "ArrayFinish"
    [] state = "KeyValueDelimiter" -> ValueColumns("MemberValue")
    [] state \in {"ObjectInitial", "MemberDelimiter"} ->
         "RightCurlyBracket" :> "ObjectFinish" @@ "String" :> "MemberKey"
    [] state = "MemberKey" -> "Colon" :> "KeyValueDelimiter"
    [] state = "MemberValue" ->
         "RightCurlyBracket" :> "ObjectFinish" @@ "Comma" :> "MemberDelimiter"
    [] state = "Element" ->
         "RightBracket" :> "ArrayFinish" @@ "Comma" :> "ElementDelimiter"
    [] OTHER -> <<>>

Predict(state, token) ==
  IF token \in DOMAIN G(state) THEN G(state)[token] ELSE "Error"

\* A scope is opened: the state to come back to is pushed with a count of 0.
Open(r, src, dst) ==
  LET back == CASE src \in {"ArrayInitial", "ElementDelimiter"} -> "Element"
                [] src = "KeyValueDelimiter" -> "MemberValue"
                [] OTHER -> src
      kind == IF dst = "ObjectInitial" THEN "StartObject" ELSE "StartArray"
      pushed == [r EXCEPT !.stk = Append(@, [state |-> back, count |-> 0])]
      called == Emit(pushed, kind, <<>>, Tell(r)) IN
  IF Failed(called) THEN [r |-> called, d |-> "Error"] ELSE [r |-> Take(called), d |-> dst]

CloseScopeUncounted(r, src, delimiter, last, code, kind) ==   \* mutant: the last member is not counted
  LET top  == r.stk[Len(r.stk)]
      back == IF top.state = "Start" THEN "Finish" ELSE top.state
      popped == [r EXCEPT !.stk = SubSeq(@, 1, Len(@) - 1)]
      called == Emit(popped, kind, <<top.count>>, Tell(r)) IN
  IF src = delimiter /\ "trailing" \notin r.fl
  THEN [r |-> Fail(r, code, Tell(r)), d |-> "Error"]
  ELSE IF Failed(called) THEN [r |-> called, d |-> "Error"]
  ELSE [r |-> Take(called), d |-> back]

\* A scope is closed: the last member is counted and the state restored.
CloseScope(r, src, delimiter, last, code, kind) ==
  LET top  == r.stk[Len(r.stk)]
      n    == IF src = last THEN top.count + 1 ELSE top.count
      back == IF top.state = "Start" THEN "Finish" ELSE top.state
      popped == [r EXCEPT !.stk = SubSeq(@, 1, Len(@) - 1)]
      called == Emit(popped, kind, <<n>>, Tell(r)) IN
  IF src = delimiter /\ "trailing" \notin r.fl
  THEN [r |-> Fail(r, code, Tell(r)), d |-> "Error"]
  ELSE IF Failed(called) THEN [r |-> called, d |-> "Error"]
  ELSE [r |-> Take(called), d |-> back]

Transit(r, src, dst) ==
  LET scalar(q, d) == [r |-> q, d |-> IF Failed(q) THEN "Error" ELSE d] IN
  CASE dst = "Error" -> [r |-> r, d |-> dst]
    [] dst \in {"ObjectInitial", "ArrayInitial"} -> Open(r, src, dst)
    [] dst = "MemberKey" -> scalar(ParseString(r, "Key"), dst)
    [] dst = "KeyValueDelimiter" -> [r |-> Take(r), d |-> dst]
    [] dst \in {"MemberValue", "Element"} -> scalar(ParseValue(r), dst)
    [] dst \in {"MemberDelimiter", "ElementDelimiter"} ->
         [r |-> [Take(r) EXCEPT !.stk[Len(r.stk)].count = @ + 1], d |-> dst]
    [] dst = "ObjectFinish" ->
         CloseScope(r, src, "MemberDelimiter", "MemberValue", "ObjectMissName", "EndObject")
    [] dst = "ArrayFinish" ->
         CloseScope(r, src, "ElementDelimiter", "Element", "ValueInvalid", "EndArray")
    [] dst = "Value" -> scalar(ParseValue(r), "Finish")

HandleError(r, src) ==
  LET code ==
        CASE src = "Start" -> "DocumentEmpty"
          [] src = "Finish" -> "DocumentRootNotSingular"
          [] src \in {"ObjectInitial", "MemberDelimiter"} -> "ObjectMissName"
          [] src = "MemberKey" -> "ObjectMissColon"
          [] src = "MemberValue" -> "ObjectMissCommaOrCurlyBracket"
          [] src \in {"KeyValueDelimiter", "ArrayInitial", "ElementDelimiter"} -> "ValueInvalid"
          [] src = "Element" -> "ArrayMissCommaOrSquareBracket" IN
  IF Failed(r) THEN r ELSE Fail(r, code, Tell(r))

Move(r, state) == Transit(r, state, Predict(state, Tokenize(Peek(r))))

RECURSIVE IterativeLoop(_, _)
AfterTransit(t, src) ==
  CASE t.d = "Error" -> HandleError(t.r, src)
    [] t.d = "Finish" /\ "stopWhenDone" \in t.r.fl -> t.r
    [] OTHER -> IterativeLoop(SkipWhitespaceAndComments(t.r), t.d)
IterativeLoop(r, state) ==
  CASE Failed(r) -> r
    [] ~Failed(r) /\ Peek(r) = NUL -> IF state = "Finish" THEN r ELSE HandleError(r, state)
    [] OTHER -> AfterTransit(Move(r, state), state)

IterativeParse(r) == IterativeLoop(SkipWhitespaceAndComments(r), "Start")

(***************************************************************************)
(* IterativeParseNext, called until the parse is complete or fails: one    *)
(* call goes on to the next event.  (Without comments: it does not look at *)
(* the error that skipping one may leave.)                                 *)
(***************************************************************************)
Stopped(r, state) == [r |-> HandleError(r, state), d |-> state, ok |-> FALSE]
Reached(r, state) == [r |-> r, d |-> state, ok |-> TRUE]
AtEnd(r, state) ==
  IF Peek(r) = NUL /\ state = "Finish" THEN Reached(r, state) ELSE Stopped(r, state)

RECURSIVE IterativeParseNext(_, _)
AfterToken(t, src) ==
  CASE t.d = "Error" -> Stopped(t.r, src)
    [] t.d = "Finish" -> IF "stopWhenDone" \in t.r.fl THEN Reached(t.r, t.d)
                         ELSE AtEnd(SkipWhitespace(t.r), t.d)
    [] t.d \in {"ElementDelimiter", "MemberDelimiter", "KeyValueDelimiter"} ->
         IterativeParseNext(t.r, t.d)
    [] OTHER -> Reached(t.r, t.d)
IterativeParseNext(r, state) ==
  IF Peek(r) = NUL THEN AtEnd([r EXCEPT !.stk = <<>>], state)
  ELSE AfterToken(Move(SkipWhitespace(r), state), state)

RECURSIVE PullAll(_)
PullAll(next) ==
  IF ~next.ok \/ next.d = "Finish" THEN next.r ELSE PullAll(IterativeParseNext(next.r, next.d))
Pull(r) == PullAll(Reached(r, "Start"))
=============================================================================
