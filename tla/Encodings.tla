----------------------------- MODULE Encodings -----------------------------
(***************************************************************************)
(* The other encodings of encodings.h, and the streams that put them on    *)
(* top of a stream of bytes (encodedstream.h, memorystream.h).  Two layers *)
(* as in the source: Take and Put between bytes and code units, Decode and *)
(* Encode between code units and code points.  A function table indexed by *)
(* the type of the stream (AutoUTF) is an operator with the encoding as an *)
(* argument.  Reading behind the last byte gives NUL (MemoryStream::Take). *)
(***************************************************************************)
EXTENDS Utf8, SequencesExt, FiniteSetsExt

UTFTypes  == {"UTF8", "UTF16LE", "UTF16BE", "UTF32LE", "UTF32BE"}
Utf16     == {"UTF16LE", "UTF16BE"}
Utf32     == {"UTF32LE", "UTF32BE"}
Supported == UTFTypes \union {"ASCII"}

Surrogates == \hD800 .. \hDFFF
Leading    == \hD800 .. \hDBFF
Trailing   == \hDC00 .. \hDFFF
LastPoint  == \h10FFFF
BOM        == \hFEFF
NoUnit     == 2 ^ 24    \* any unit of 32 bits whose highest byte is not 0

--------------------------------------------------------------------------
(* Bytes and units. *)

Width(e) == IF e \in Utf16 THEN 2 ELSE IF e \in Utf32 THEN 4 ELSE 1

\* The bytes of a unit, from the lowest to the highest or the other way round.
Ordered(e, bytes) == IF e \in {"UTF16BE", "UTF32BE"} THEN Reverse(bytes) ELSE bytes

\* Encoding::Take: the unit whose bytes begin at position i.
Take(e, s, i) ==
  LET b == Ordered(e, [k \in 1 .. Width(e) |-> At(s, i + k - 1)])
      n == Min({Width(e), 3}) IN
  IF Width(e) = 4 /\ b[4] # 0 THEN NoUnit
  ELSE MapThenSumSet(LAMBDA k : b[k] * 256 ^ (k - 1), 1 .. n)

\* Encoding::Put: the bytes of a unit.
Put(e, u) == Ordered(e, [k \in 1 .. Width(e) |-> (u \div 256 ^ (k - 1)) % 256])

PutBOM(e) ==
  CASE e = "ASCII" -> <<>>
    [] e = "UTF8"  -> <<\hEF, \hBB, \hBF>>
    [] OTHER       -> Put(e, BOM)

(***************************************************************************)
(* Encoding::TakeBOM: where the unit it returns begins.  The one of UTF-8  *)
(* takes the next byte after each byte of the mark, and returns the first  *)
(* that does not match: those before it are gone.                          *)
(***************************************************************************)
AfterMark(s) ==
  Min({k \in 1 .. 4 : k = 4 \/ At(s, k) # PutBOM("UTF8")[k]})
TakeBOM(e, s) ==
  CASE e = "ASCII" -> 1
    [] e = "UTF8"  -> AfterMark(s)
    [] OTHER       -> IF Take(e, s, 1) = BOM THEN 1 + Width(e) ELSE 1

--------------------------------------------------------------------------
(* Units and code points: ok, the code point and the units taken. *)

DecodeUtf16(s, i) ==
  LET c == At(s, i)
      d == At(s, i + 1) IN
  CASE c \notin Surrogates -> [ok |-> TRUE, code |-> c, taken |-> 1]
    [] c \in Leading ->
         [ok |-> d \in Trailing, code |-> \h10000 + (c % 1024) * 1024 + (d % 1024), taken |-> 2]
    [] OTHER -> [ok |-> FALSE, code |-> 0, taken |-> 1]

DecodeUpto(s, i, last) == [ok |-> At(s, i) <= last, code |-> At(s, i), taken |-> 1]

DecodeIn(e, s, i) ==
  CASE e = "UTF8"     -> Decode(s, i)
    [] e \in Utf16    -> DecodeUtf16(s, i)
    [] e \in Utf32    -> DecodeUpto(s, i, LastPoint)
    [] e = "ASCII"    -> DecodeUpto(s, i, \h7F)

\* Encoding::Validate: the units taken are put as they are.
ValidateUtf16(s, i) ==
  LET two == At(s, i) \in Leading IN
  [ok     |-> IF two THEN At(s, i + 1) \in Trailing ELSE At(s, i) \notin Surrogates,
   copied |-> IF two THEN <<At(s, i), At(s, i + 1)>> ELSE <<At(s, i)>>]
ValidateUpto(s, i, last) == [ok |-> At(s, i) <= last, copied |-> <<At(s, i)>>]
ValidateIn(e, s, i) ==
  CASE e = "UTF8"     -> Validate(s, i)
    [] e \in Utf16    -> ValidateUtf16(s, i)
    [] e \in Utf32    -> ValidateUpto(s, i, LastPoint)
    [] e = "ASCII"    -> ValidateUpto(s, i, \h7F)

\* What Encode asserts of a code point: only UTF-16 looks for surrogates.
Encodable(e, c) ==
  IF e = "ASCII" THEN c <= \h7F ELSE c <= LastPoint /\ (e \in Utf16 => c \notin Surrogates)

EncodeIn(e, c) ==
  CASE e = "UTF8" -> Encode(c)
    [] e \in Utf16 /\ c > \hFFFF ->
         LET v == c - \h10000 IN <<\hD800 + v \div 1024, \hDC00 + (v % 1024)>>
    [] OTHER -> <<c>>

\* Transcoder<Source, Target>::Transcode, for two encodings.
TranscodeIn(source, target, s, i) ==
  LET d == DecodeIn(source, s, i) IN
  [ok |-> d.ok, copied |-> IF d.ok THEN EncodeIn(target, d.code) ELSE <<>>]

--------------------------------------------------------------------------
(* Streams. *)

\* The units of the bytes from position i on, and the bytes of units.
UnitsFrom(e, s, i) ==
  [k \in 1 .. (Len(s) - i + Width(e)) \div Width(e) |-> Take(e, s, i + (k - 1) * Width(e))]
BytesOf(e, units) == FlattenSeq([k \in DOMAIN units |-> Put(e, units[k])])

EncodedInputStream(e, s) == UnitsFrom(e, s, TakeBOM(e, s))
EncodedOutputStream(e, units, putBOM) == (IF putBOM THEN PutBOM(e) ELSE <<>>) \o BytesOf(e, units)

\* EncodedInputStream<UTF8, MemoryStream>: each byte of the mark is skipped on its own.
SkipByte(s, i, c) == IF At(s, i) = c THEN i + 1 ELSE i
MemoryInputStream(s) ==
  UnitsFrom("UTF8", s, SkipByte(s, SkipByte(s, SkipByte(s, 1, \hEF), \hBB), \hBF))

\* The byte-order marks, in the order DetectType tries them.
Marks == <<"UTF32BE", "UTF32LE", "UTF16BE", "UTF16LE", "UTF8">>

\* Which of the first four bytes are not 0, as in RFC 4627; other patterns leave the type.
Pattern(s) == {k \in 1 .. 4 : s[k] # 0}
ByPattern(pattern, type) ==
  CASE pattern = {4}       -> "UTF32BE"
    [] pattern = {2, 4}    -> "UTF16BE"
    [] pattern = {1}       -> "UTF32LE"
    [] pattern = {1, 3}    -> "UTF16LE"
    [] pattern = 1 .. 4    -> "UTF8"
    [] OTHER               -> type

\* AutoUTFInputStream::DetectType; Peek4 gives nothing when fewer than four bytes are left.
DetectType(s, type) ==
  LET marked == {k \in DOMAIN Marks : IsPrefix(PutBOM(Marks[k]), s)} IN
  CASE Len(s) < 4   -> [type |-> type, hasBOM |-> FALSE]
    [] marked # {}  -> [type |-> Marks[Min(marked)], hasBOM |-> TRUE]
    [] OTHER        -> [type |-> ByPattern(Pattern(s), type), hasBOM |-> FALSE]

\* AutoUTFInputStream: the type, and the units behind the mark.
AutoUTFInputStream(s, type) ==
  LET d == DetectType(s, type) IN
  [type   |-> d.type,
   hasBOM |-> d.hasBOM,
   units  |-> UnitsFrom(d.type, s, IF d.hasBOM THEN 1 + Len(PutBOM(d.type)) ELSE 1)]

AutoUTFOutputStream(type, units, putBOM) == EncodedOutputStream(type, units, putBOM)
=============================================================================
