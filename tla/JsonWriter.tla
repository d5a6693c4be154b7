----------------------------- MODULE JsonWriter -----------------------------
(***************************************************************************)
(* Writer and PrettyWriter (writer.h, prettywriter.h) into a StringBuffer, *)
(* with the number formatting of internal/itoa.h and internal/dtoa.h.      *)
(*                                                                         *)
(* A writer is a record: the buffer os, the stack of levels (one for each  *)
(* open object or array, with the values written in it), hasRoot, the      *)
(* options opt, and ok, which is what the last call returned.  `fault`     *)
(* records a failed assertion.  Options: "pretty", "singleLine", "ascii"   *)
(* (the target encoding is ASCII, not UTF8), "nanInf".                     *)
(***************************************************************************)
EXTENDS ByteStack, Utf8, SequencesExt

CONSTANTS
  IndentCount,    \* indentCharCount_: 4
  DoubleBuffer    \* the bytes pushed for a double: 25

Ascii == [quote |-> 34, comma |-> 44, minus |-> 45, dot |-> 46, colon |-> 58,
          backslash |-> 92, e |-> 101, u |-> 117, zero |-> 48, space |-> 32, newline |-> 10]

NewWriter(options) ==
  [os |-> EmptyStack, levels |-> <<>>, hasRoot |-> FALSE, opt |-> options,
   ok |-> TRUE, fault |-> FALSE]

\* Writer::Reset, to the same buffer after StringBuffer::Clear.
Reset(w) == [NewWriter(w.opt) EXCEPT !.os = Clear(w.os)]

Put(w, units) == [w EXCEPT !.os = Push(@, units)]
IsComplete(w) == w.hasRoot /\ w.levels = <<>>
InLevel(w) == w.levels # <<>>
Level(w) == w.levels[Len(w.levels)]

--------------------------------------------------------------------------
(* Numbers. *)

\* Eight digits of v < 10^8, written in pairs from the table of GetDigitsLut.
GetDigitsLut(d) == <<Ascii.zero + d \div 10, Ascii.zero + (d % 10)>>
EightDigits(v) ==
  LET b == v \div 10000
      c == v % 10000 IN
  GetDigitsLut(b \div 100) \o GetDigitsLut(b % 100)
  \o GetDigitsLut(c \div 100) \o GetDigitsLut(c % 100)

\* Without the leading ones: "if (value >= 10^k)" before each but the last.
LeadingDigits(v) ==
  LET shown == {k \in 1 .. 8 : k = 1 \/ v >= 10 ^ (k - 1)} IN
  SubSeq(EightDigits(v), 9 - Max(shown), 8)

\* Values by their digits in base 10^8, the way the source splits them.
u32toa(a, v) == IF a = 0 THEN LeadingDigits(v) ELSE LeadingDigits(a) \o EightDigits(v)
u64toa(a, v0, v1) ==
  IF a = 0 THEN u32toa(v0, v1)
  ELSE LeadingDigits(a) \o EightDigits(v0) \o EightDigits(v1)

i32toa(i) ==
  IF i < 0 THEN <<Ascii.minus>> \o u32toa((-i) \div 10 ^ 8, (-i) % 10 ^ 8)
  ELSE u32toa(i \div 10 ^ 8, i % 10 ^ 8)
i64toa(i) ==
  IF i < 0 THEN <<Ascii.minus>> \o u64toa(0, (-i) \div 10 ^ 8, (-i) % 10 ^ 8)
  ELSE u64toa(0, i \div 10 ^ 8, i % 10 ^ 8)

WriteExponent(k) ==
  LET magnitude == IF k < 0 THEN -k ELSE k
      low == GetDigitsLut(magnitude % 100) IN
  (IF k < 0 THEN <<Ascii.minus>> ELSE <<>>)
  \o CASE magnitude >= 100 -> <<Ascii.zero + magnitude \div 100>> \o low
       [] magnitude \in 10 .. 99 -> low
       [] OTHER -> <<Ascii.zero + magnitude>>

Zeros(n) == [k \in 1 .. n |-> Ascii.zero]
Point == <<Ascii.dot>>

\* Prettify: the digits of a number digits * 10^k as text (all decimal places).
Prettify(digits, k) ==
  LET length == Len(digits)
      kk     == length + k
      first  == SubSeq(digits, 1, 1)
      rest   == Tail(digits) IN
  CASE 0 <= k /\ kk <= 21 -> digits \o Zeros(k) \o Point \o Zeros(1)
    [] k < 0 /\ 0 < kk /\ kk <= 21 ->
         SubSeq(digits, 1, kk) \o Point \o SubSeq(digits, kk + 1, length)
    [] -6 < kk /\ kk <= 0 -> Zeros(1) \o Point \o Zeros(-kk) \o digits
    [] (kk > 21 \/ kk <= -6) /\ length = 1 -> digits \o <<Ascii.e>> \o WriteExponent(kk - 1)
    [] OTHER -> first \o Point \o rest \o <<Ascii.e>> \o WriteExponent(kk - 1)

\* Grisu2 gives the shortest digits: sig without its trailing zeros, and the power.
RECURSIVE Grisu2(_, _)
Grisu2(sig, exp) ==
  IF sig % 10 = 0 THEN Grisu2(sig \div 10, exp + 1)
  ELSE [digits |-> u64toa(0, sig \div 10 ^ 8, sig % 10 ^ 8), k |-> exp]

dtoa(sign, sig, exp) ==
  LET g == Grisu2(sig, exp) IN
  (IF sign < 0 THEN <<Ascii.minus>> ELSE <<>>)
  \o IF sig = 0 THEN Zeros(1) \o Point \o Zeros(1) ELSE Prettify(g.digits, g.k)

\* Push the most the text can take, write it, and pop what is left over.
WriteDigits(w, room, text) ==
  LET pushed == Push(w.os, [k \in 1 .. room |-> NUL]) IN
  [w EXCEPT !.os = PushUnsafe(Pop(pushed, room), text), !.fault = @ \/ Len(text) > room]

WriteDouble(w, d) == WriteDigits(w, DoubleBuffer, dtoa(d[1], d[2], d[3]))

WriteNanOrInf(w, kind, v) ==
  LET nan == <<78, 97, 78>>
      inf == (IF v = <<-1>> THEN <<Ascii.minus>> ELSE <<>>)
             \o <<73, 110, 102, 105, 110, 105, 116, 121>>
      text == IF kind = "NaN" THEN nan ELSE inf IN
  IF "nanInf" \notin w.opt THEN [w EXCEPT !.ok = FALSE]
  ELSE [w EXCEPT !.os = PushUnsafe(Reserve(@, Len(text)), text)]

--------------------------------------------------------------------------
(* Strings. *)

hexDigits(x) == IF x < 10 THEN Ascii.zero + x ELSE 55 + x
Hex4(x) == [k \in 1 .. 4 |-> hexDigits((x \div 16 ^ (4 - k)) % 16)]
UnicodeEscape(x) == <<Ascii.backslash, Ascii.u>> \o Hex4(x)

\* The table `escape`: the letter after the backslash, 0 when the unit is written as it is.
EscapeLetter(c) ==
  CASE c \in {34, 92} -> c
    [] c = 8  -> 98
    [] c = 9  -> 116
    [] c = 10 -> 110
    [] c = 12 -> 102
    [] c = 13 -> 114
    [] c \in (0 .. 31) \ {8, 9, 10, 12, 13} -> Ascii.u
    [] OTHER -> 0

EscapePointHigh(code) ==   \* mutant: the second half of a pair without its 10 bits' offset
  IF code <= 65535 THEN UnicodeEscape(code)
  ELSE UnicodeEscape(55296 + code \div 1024) \o UnicodeEscape(56320 + (code % 1024))

\* A code point outside ASCII: one escape, or a surrogate pair of them.
EscapePoint(code) ==
  IF code <= 65535 THEN UnicodeEscape(code)
  ELSE UnicodeEscape(55296 + (code - 65536) \div 1024)
       \o UnicodeEscape(56320 + ((code - 65536) % 1024))

\* How a unit is written that is not a part of a code point to be escaped.
EscapeUnit(c, letter) ==
  CASE letter = 0 -> <<c>>
    [] letter = Ascii.u -> UnicodeEscape(c)
    [] OTHER -> <<Ascii.backslash, letter>>

PushUnits(w, units) == IF w.ok THEN [w EXCEPT !.os = PushUnsafe(@, units)] ELSE w

RECURSIVE WriteUnits(_, _, _)
WritePoint(w, str, i, d) ==
  IF d.ok THEN WriteUnits(PushUnits(w, EscapePoint(d.code)), str, i + d.taken)
  ELSE [w EXCEPT !.ok = FALSE]
WriteUnits(w, str, i) ==
  CASE i > Len(str) -> w
    [] i <= Len(str) /\ "ascii" \in w.opt /\ str[i] >= 128 -> WritePoint(w, str, i, Decode(str, i))
    [] OTHER -> WriteUnits(PushUnits(w, EscapeUnit(str[i], EscapeLetter(str[i]))), str, i + 1)

\* The room is reserved once for the worst case; the units are pushed unchecked.
WriteString(w, str) ==
  LET perUnit == IF "ascii" \in w.opt THEN 12 ELSE 6
      quote(v) == PushUnits(v, <<Ascii.quote>>) IN
  quote(WriteUnits(quote([w EXCEPT !.os = Reserve(@, 2 + perUnit * Len(str))]), str, 1))

--------------------------------------------------------------------------
(* Structure. *)

WriteIndent(w) == Put(w, [k \in 1 .. Len(w.levels) * IndentCount |-> Ascii.space])

\* The separator before a value (or a key), by the values already in its level.
Separator(w) ==
  LET count == Level(w).count
      pretty == "pretty" \in w.opt
      comma  == Put(w, <<Ascii.comma>>)
      line(v) == WriteIndent(Put(v, <<Ascii.newline>>)) IN
  CASE ~pretty ->
         IF count = 0 THEN w
         ELSE IF Level(w).inArray \/ count % 2 = 0 THEN comma ELSE Put(w, <<Ascii.colon>>)
    [] pretty /\ Level(w).inArray /\ "singleLine" \in w.opt ->
         IF count = 0 THEN w ELSE Put(comma, <<Ascii.space>>)
    [] pretty /\ Level(w).inArray /\ "singleLine" \notin w.opt ->
         line(IF count = 0 THEN w ELSE comma)
    [] OTHER ->
         IF count % 2 = 1 THEN Put(w, <<Ascii.colon, Ascii.space>>)
         ELSE line(IF count = 0 THEN w ELSE comma)

\* Prefix and PrettyPrefix: a second root and a key that is no string are asserted against.
Prefix(w, isString) ==
  IF ~InLevel(w) THEN [w EXCEPT !.hasRoot = TRUE, !.fault = @ \/ w.hasRoot]
  ELSE [Separator(w) EXCEPT
          !.levels[Len(w.levels)].count = @ + 1,
          !.fault = @ \/ (~Level(w).inArray /\ Level(w).count % 2 = 0 /\ ~isString)]

StartLevel(w, inArray, bracket) ==
  Put([Prefix(w, FALSE) EXCEPT !.levels = Append(@, [inArray |-> inArray, count |-> 0])],
      <<bracket>>)

\* A level ends on a line of its own when something was written in it.
EndLevel(w, inArray, bracket) ==
  LET popped == [w EXCEPT !.levels = SubSeq(@, 1, Len(@) - 1)]
      ownLine == /\ "pretty" \in w.opt /\ Level(w).count # 0
                 /\ ~(inArray /\ "singleLine" \in w.opt) IN
  IF ~InLevel(w) \/ Level(w).inArray # inArray \/ (~inArray /\ Level(w).count % 2 = 1)
  THEN [w EXCEPT !.fault = TRUE]
  ELSE Put(IF ownLine THEN WriteIndent(Put(popped, <<Ascii.newline>>)) ELSE popped, <<bracket>>)

\* A value that is no container, behind its separator.
WriteWord(w, text) == [w EXCEPT !.os = PushUnsafe(Reserve(@, Len(text)), text)]
WriteScalar(w, kind, v) ==
  CASE kind = "Null" -> WriteWord(w, <<110, 117, 108, 108>>)
    [] kind = "Bool" -> WriteWord(w, IF v = <<1>> THEN <<116, 114, 117, 101>>
                                     ELSE <<102, 97, 108, 115, 101>>)
    [] kind = "Int"    -> WriteDigits(w, 11, i32toa(v[1]))
    [] kind = "Uint"   -> WriteDigits(w, 10, u32toa(v[1] \div 10 ^ 8, v[1] % 10 ^ 8))
    [] kind = "Int64"  -> WriteDigits(w, 21, i64toa(v[1]))
    [] kind = "Uint64" -> WriteDigits(w, 20, u64toa(0, v[1] \div 10 ^ 8, v[1] % 10 ^ 8))
    [] kind = "Double" -> WriteDouble(w, v)
    [] kind \in {"NaN", "Inf"} -> WriteNanOrInf(w, kind, v)
    [] kind \in {"RawNumber", "String", "Key"} -> WriteString(w, v)

\* The handler of one event.
Write(w, event) ==
  CASE event.ev \in {"StartObject", "StartArray"} ->
         StartLevel(w, event.ev = "StartArray", IF event.ev = "StartArray" THEN 91 ELSE 123)
    [] event.ev \in {"EndObject", "EndArray"} ->
         EndLevel(w, event.ev = "EndArray", IF event.ev = "EndArray" THEN 93 ELSE 125)
    [] OTHER -> WriteScalar(Prefix(w, event.ev \in {"String", "Key"}), event.ev, event.v)

\* A publisher stops at the first call that returns false.
WriteTo(writer, events) ==
  FoldLeft(LAMBDA w, event : IF w.ok THEN Write(w, event) ELSE w, writer, events)
WriteAll(events, options) == WriteTo(NewWriter(options), events)

\* StringBuffer::GetString.
Text(w) == GetString(w.os).data
=============================================================================
