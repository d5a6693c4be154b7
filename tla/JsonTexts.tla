----------------------------- MODULE JsonTexts -----------------------------
(***************************************************************************)
(* A JSON text on its way through the library: it arrives piece by piece,  *)
(* and whatever has arrived is read by the three parsers of reader.h, and, *)
(* when it is complete, written again by writer.h and prettywriter.h and   *)
(* hashed by src/fnv-hash.  A behaviour is a text that grows; the texts    *)
(* come in families, each with the pieces, the parse flags and the length  *)
(* that bring out one part of the library.                                 *)
(***************************************************************************)
EXTENDS JsonGrammar, JsonWriter

CONSTANTS
  Families,       \* the names of the families
  Pieces,         \* what a text of a family may go on with
  FlagSets,       \* the parse flags a family is read with
  Quotas,         \* after how many events a handler ends the parse
  Options,        \* the options a family is written with
  MaxPieces,      \* how many pieces a text has at most
  HashedPieces,   \* how many pieces a text has at most that is hashed
  Slack,          \* how far behind the end an error may be for a text to go on
  Groups,         \* groups of eight digits
  Decimals,       \* pairs of a number of digits and a power of ten
  Vectors,        \* known hashes: octets, then FNV-1 and FNV-1a of 32 and of 64 bits
  Trees,          \* the trees a pointer is resolved in
  OtherPointers   \* the pointers it is held against

Fnv == INSTANCE FnvHash
Enc == INSTANCE Encodings
Ptr == INSTANCE JsonPointer

VARIABLES family, pieces, text

vars == <<family, pieces, text>>

NoQuota == 1000

Recursive(flags, quota) == Parse(Start(text, flags, quota))
Iterative(flags, quota) == IterativeParse(Start(text, flags, quota))
Pulled(flags, quota)    == Pull(Start(text, flags, quota))

Init ==
  /\ family \in Families
  /\ pieces = 0
  /\ text = <<>>

Promising(r) == ~Failed(r) \/ r.off + Slack[family] >= Len(text)
Promised == {flags \in FlagSets[family] : Promising(Recursive(flags, NoQuota))}

Arrive(piece) ==
  /\ pieces' = pieces + 1
  /\ text' = text \o piece
  /\ UNCHANGED family

\* A piece more, unless the text is wrong already well before its end, with any flags.
Next == pieces < MaxPieces[family] /\ Promised # {} /\ \E piece \in Pieces[family] : Arrive(piece)

Spec == Init /\ [][Next]_vars

--------------------------------------------------------------------------
\* The numbers of the text's events, each held against the text it was read from.
SingleNumber(flags) ==
  /\ text # <<>> /\ "numbersAsStrings" \notin flags
  /\ Len(text) + 1 \in Number(text, 1)

\* A parse that ended in r read the text by the grammar.
MeetsGrammar(r, flags) ==
  /\ ~r.fault
  /\ "stopWhenDone" \notin flags =>
       (Failed(r) <=> ~WellFormedText(text, flags) \/ r.err = "NumberTooBig")
  /\ SingleNumber(flags) =>
       /\ Failed(r) <=> TooBig(text)
       /\ Failed(r) \/ r.ev[1] \in NumberEvents(text)

(***************************************************************************)
(* The readers meet the grammar.  With any of the flags, the recursive     *)
(* parser accepts exactly the texts of JSON as the flags extend it, except *)
(* for numbers no double holds; a number gets the narrowest type and its   *)
(* exact value; no table is read past its end and no exponent overflows.   *)
(***************************************************************************)
ReaderMeetsGrammar ==
  \A flags \in FlagSets[family] : MeetsGrammar(Recursive(flags, NoQuota), flags)

\* Two parses that called the handler alike, with the same error or not.
SameParse(r, i) ==
  /\ r.ev = i.ev /\ ~i.fault
  /\ \/ r.err = i.err /\ (r.err # "Termination" => r.off = i.off)
     \/ r.err = "ValueInvalid" /\ i.err = "DocumentEmpty" /\ r.off = i.off
SameEvents(r, p) == r.ev = p.ev /\ ~p.fault /\ (Failed(r) <=> Failed(p))

(***************************************************************************)
(* The parsers agree.  The iterative parser and the token-by-token one     *)
(* call the handler as the recursive one does - the same events in the     *)
(* same order - and fail when it fails, also when the handler ends the     *)
(* parse; the iterative one gives the same error at the same place, but    *)
(* for a text with no value at its start.                                  *)
(***************************************************************************)
ParsersAgree ==
  \A flags \in FlagSets[family], quota \in Quotas[family] :
    /\ SameParse(Recursive(flags, quota), Iterative(flags, quota))
    /\ "comments" \notin flags => SameEvents(Recursive(flags, quota), Pulled(flags, quota))

--------------------------------------------------------------------------
\* The digits a double tells apart, without zeros at their end, and the power of ten.
RECURSIVE Shortest(_, _)
Shortest(sig, exp) ==
  IF sig = 0 THEN <<0, 0>>
  ELSE IF sig % 10 = 0 \/ sig >= 10 ^ MaxDigits THEN Shortest(sig \div 10, exp + 1)
  ELSE <<sig, exp>>

\* What is kept of an event that is written and read again: a double's first digits, no sign
\* for an integer 0, a raw number as a string.
Reread(event) ==
  CASE event.ev = "Double" ->
         [event EXCEPT !.v = <<event.v[1]>> \o Shortest(event.v[2], event.v[3])]
    [] event.ev \in {"Int", "Int64"} /\ event.v = <<0>> -> [ev |-> "Uint", v |-> <<0>>]
    [] event.ev = "RawNumber" -> [event EXCEPT !.ev = "String"]
    [] OTHER -> event
Rereads(events) == [k \in DOMAIN events |-> Reread(events[k])]

\* A string ASCII has no escapes for: it is not UTF-8.
NotUtf8(event) ==
  event.ev \in {"String", "Key"} /\ CountStringCodePoint(event.v, 1, Len(event.v)) = -1

\* The digits of a decimal text without the zeros around them, and the power of ten.
DigitsOf(units) == SelectSeq(units, LAMBDA c : c \in Digits)
StripZeros(digits, exp) ==
  LET nonzero == {k \in DOMAIN digits : digits[k] # 48} IN
  <<SubSeq(digits, Min(nonzero), Max(nonzero)), exp + Len(digits) - Max(nonzero)>>

RereadDecimal(units) ==
  LET p == [mantissa |-> Upto(units, 1, {101}),
            power |-> SubSeq(units, Len(Upto(units, 1, {101})) + 2, Len(units))]
      decimals == Len(p.mantissa) - Len(Upto(p.mantissa, 1, {46}))
      written == Natural(DigitsOf(p.power)) IN
  StripZeros(DigitsOf(p.mantissa),
             (IF p.power # <<>> /\ p.power[1] = 45 THEN -written ELSE written)
             - (IF decimals = 0 THEN 0 ELSE decimals - 1))

\* Whatever its digits and its power of ten, the text of a double, with a sign, fits the bytes
\* the writer pushed for it, and is that number.
DoublesFit ==
  \A d \in Decimals :
    LET digits == [k \in 1 .. d[1] |-> 49 + (k % 9)]
        units  == Prettify(digits, d[2]) IN
    /\ Len(units) + 1 <= DoubleBuffer
    /\ RereadDecimal(units) = <<digits, d[2]>>

\* Whatever its digits, in groups of eight, an integer's text is those digits from the first
\* that is not 0, and fits the 10 or 20 bytes pushed for it.
EightOf(v) == [k \in 1 .. 8 |-> 48 + ((v \div 10 ^ (8 - k)) % 10)]
IntegersFit ==
  \A a \in Groups \cap (0 .. 1844), v0 \in Groups, v1 \in Groups :
    LET units  == u64toa(a, v0, v1)
        digits == EightOf(a) \o EightOf(v0) \o EightOf(v1)
        nonzero == {k \in DOMAIN digits : digits[k] # 48} IN
    /\ units = SubSeq(digits, IF nonzero = {} THEN 24 ELSE Min(nonzero), 24)
    /\ Len(units) <= IF a = 0 /\ v0 <= 42 THEN 10 ELSE 20

--------------------------------------------------------------------------
\* The value of a decimal name, and whether it is one an index can have.
IsIndex(name) == Ptr!IsNumber(name) /\ Natural(name) < Ptr!Invalid

TokensParse(tokens) ==
  /\ Len(tokens) = Cardinality({k \in DOMAIN text : text[k] = Slash})
  /\ \A k \in DOMAIN tokens :
       /\ IsIndex(tokens[k].name) => tokens[k].index = Natural(tokens[k].name)
       /\ ~Ptr!IsNumber(tokens[k].name) => tokens[k].index = Ptr!Invalid

\* A text that p was written as names p again; only a name that is not UTF-8 has no fragment.
IsWritten(p, written) ==
  IF written.ok THEN Ptr!Equal(Ptr!ParsePointer(written.units), p)
  ELSE \E k \in DOMAIN p.tokens :
         CountStringCodePoint(p.tokens[k].name, 1, Len(p.tokens[k].name)) = -1

(***************************************************************************)
(* A pointer's text is one exactly when it begins with '/' and every '~'   *)
(* has its 0 or 1; it has a token for each '/', with the number it spells  *)
(* as index; written in either form it is the same pointer, and the buffer *)
(* for its names, as long as the text, is never too short.                 *)
(***************************************************************************)
PointersParse(p) ==
  LET escaped(k) == k < Len(text) /\ text[k + 1] \in {48, 49} IN
  /\ p.high <= p.room
  /\ text = <<>> \/ text[1] # Ptr!Hash =>
       (Ptr!IsValid(p) <=> /\ text = <<>> \/ text[1] = Slash
                           /\ \A k \in DOMAIN text : text[k] = Ptr!Tilde => escaped(k))
  /\ Ptr!IsValid(p) => /\ TokensParse(p.tokens)
                       /\ Ptr!Stringify(p.tokens, FALSE).ok
                       /\ \A uri \in BOOLEAN : IsWritten(p, Ptr!Stringify(p.tokens, uri))

Others == {Ptr!ParsePointer(a) : a \in OtherPointers}

\* The order of pointers is total, and agrees with their equality.
PointersOrdered(p) ==
  \A q \in Others :
    /\ ~(Ptr!Less(p, q) /\ Ptr!Less(q, p))
    /\ Ptr!Equal(p, q) => ~Ptr!Less(p, q) /\ ~Ptr!Less(q, p)
    /\ Ptr!IsValid(p) \/ Ptr!IsValid(q) => Ptr!Less(p, q) \/ Ptr!Less(q, p) \/ Ptr!Equal(p, q)
    /\ Ptr!Less(p, q) => \A r \in Others : Ptr!Less(q, r) => Ptr!Less(p, r)

\* The other pointers that neither lead to the place nor begin with it.
Elsewhere(tokens) ==
  {q \in Others : ~IsPrefix(q.tokens, tokens) /\ ~IsPrefix(tokens, q.tokens)}
SameElsewhere(tree, other, tokens) ==
  \A q \in Elsewhere(tokens) : Ptr!Get(other, q.tokens, 0) = Ptr!Get(tree, q.tokens, 0)

(***************************************************************************)
(* A value that is set is found where it was set, and what was reached by  *)
(* a pointer elsewhere is still there unless a value had to change type.   *)
(***************************************************************************)
SetIsFound(tree, tokens, found, set) ==
  /\ found => set.exist
  /\ set.exist => SameElsewhere(tree, set.tree, tokens)
  /\ (\A k \in DOMAIN tokens : tokens[k].name # <<Ptr!Hyphen>>) =>
       /\ set.exist = found
       /\ Ptr!Get(set.tree, tokens, 0) = [found |-> TRUE, value |-> Ptr!NullTree, unresolved |-> 0]

(***************************************************************************)
(* Erasing takes away what the pointer finds, and nothing outside the      *)
(* container it was in changes.                                            *)
(***************************************************************************)
EraseTakesOne(tree, tokens, found, erase) ==
  LET rest(t) == Len(Ptr!Get(t, Front(tokens), 0).value.m) IN
  /\ erase.erased <=> found /\ tokens # <<>>
  /\ ~erase.erased => erase.tree = tree
  /\ erase.erased => /\ rest(erase.tree) = rest(tree) - 1
                     /\ SameElsewhere(tree, erase.tree, Front(tokens))

PointersResolve(p) ==
  Ptr!IsValid(p) => \A tree \in Trees :
    LET found == Ptr!Get(tree, p.tokens, 0).found IN
    /\ SetIsFound(tree, p.tokens, found, Ptr!Set(tree, p.tokens, Ptr!NullTree))
    /\ EraseTakesOne(tree, p.tokens, found, Ptr!Erase(tree, p.tokens))

PointerReadsBack(p) == PointersParse(p) /\ PointersResolve(p) /\ PointersOrdered(p)

--------------------------------------------------------------------------
\* The code points of units in an encoding, and whether all of them are well formed.
RECURSIVE PointsFrom(_, _, _)
PointsFrom(e, units, i) ==
  IF i > Len(units) THEN [ok |-> TRUE, codes |-> <<>>]
  ELSE LET d == Enc!DecodeIn(e, units, i)
           rest == PointsFrom(e, units, i + d.taken) IN
       [ok |-> d.ok /\ rest.ok, codes |-> <<d.code>> \o rest.codes]

\* Whatever an encoding decodes is what it encodes, unit by unit, and stays the same code point
\* in any other encoding that has it, but for the surrogates UTF-32 lets through.
PointsConvert ==
  \A e \in Enc!Supported :
    LET units == Enc!UnitsFrom(e, text, 1)
        d == Enc!DecodeIn(e, units, 1)
        v == Enc!ValidateIn(e, units, 1) IN
    /\ v.ok = d.ok /\ Len(v.copied) = d.taken
    /\ d.ok => Enc!EncodeIn(e, d.code) = v.copied
    /\ d.ok /\ d.code \in Enc!Surrogates => e \in Enc!Utf32
    /\ \A t \in Enc!Supported :
         LET w == Enc!TranscodeIn(e, t, units, 1)
             again == Enc!DecodeIn(t, w.copied, 1) IN
         /\ w.ok = d.ok
         /\ d.ok /\ Enc!Encodable(t, d.code) =>
              \/ again.ok /\ again.code = d.code /\ again.taken = Len(w.copied)
              \/ d.code \in Enc!Surrogates /\ t = "UTF8" /\ ~again.ok

\* A text written to an encoded stream is read back unit by unit, and its encoding is found out
\* when there is a mark, or the first two characters are ASCII as those of a JSON text are.
StreamsReadBack ==
  LET points == PointsFrom("UTF8", text, 1)
      codes  == points.codes IN
  points.ok /\ codes # <<>> /\ 0 \notin Enc!Range(codes) =>
    \A e \in Enc!UTFTypes, putBOM \in BOOLEAN :
      LET units == Enc!FlattenSeq([k \in DOMAIN codes |-> Enc!EncodeIn(e, codes[k])])
          bytes == Enc!AutoUTFOutputStream(e, units, putBOM)
          ascii == \A k \in 1 .. Min({2, Len(codes)}) : codes[k] < 128 IN
      /\ putBOM \/ codes[1] \notin \hF000 .. \hFFFF =>
           /\ Enc!EncodedInputStream(e, bytes) = units
           /\ e = "UTF8" => Enc!MemoryInputStream(bytes) = units
      /\ Len(bytes) >= 4 /\ (putBOM \/ ascii) =>
           Enc!AutoUTFInputStream(bytes, "UTF8") = [type |-> e, hasBOM |-> putBOM, units |-> units]

\* The text of events reads back, and a writer that is used once more writes the same text.
Complete(again, events) == ~Failed(again) /\ Rereads(again.ev) = Rereads(events)
SameText(reused, w) == ~reused.fault /\ ~reused.os.overrun /\ Text(reused) = Text(w)

ReadsBack(events, w) ==
  /\ ~w.fault /\ ~w.os.overrun
  /\ SameText(WriteTo(Reset([w EXCEPT !.os = ShrinkToFit(@)]), events), w)
  /\ IF w.ok
     THEN IsComplete(w) /\ Complete(Parse(Start(Text(w), {"nanInf"}, NoQuota)), events)
     ELSE "ascii" \in w.opt /\ \E k \in DOMAIN events : NotUtf8(events[k])

AcceptedReadsBack(r) ==
  ~Failed(r) => \A options \in Options[family] : ReadsBack(r.ev, WriteAll(r.ev, options))

(***************************************************************************)
(* What was written reads back.  The events of an accepted text, written   *)
(* compactly, in ASCII, indented or with arrays on one line, are a text    *)
(* with the same events; the writer fails only for a string that is not    *)
(* UTF-8 when it must be escaped, no push goes past the room reserved, and *)
(* every number fits the bytes the writer keeps for it.  A writer and a    *)
(* buffer that are used once more write the same text.  A text in any of   *)
(* the encodings is read back from an encoded stream, and a JSON Pointer   *)
(* names the same value when it is written and parsed again.               *)
(***************************************************************************)
WrittenReadsBack ==
  /\ text = <<>> /\ family = "numbers" => DoublesFit /\ IntegersFit
  /\ family = "encoded" => PointsConvert /\ StreamsReadBack
  /\ family = "pointers" => PointerReadsBack(Ptr!ParsePointer(text))
  /\ \A flags \in FlagSets[family] : AcceptedReadsBack(Recursive(flags, NoQuota))

(***************************************************************************)
(* The hashes agree.  However the multiplication is compiled, a text has   *)
(* one hash; a hash can be continued from the hash of a first part; a      *)
(* string's hash is the hash of what precedes its first NUL; and the       *)
(* vectors of test_fnv.c come out.                                         *)
(***************************************************************************)
HashesAgree ==
  /\ pieces <= HashedPieces => \A n \in 0 .. Len(text) :
       LET head == SubSeq(text, 1, n)
           tail == SubSeq(text, n + 1, Len(text)) IN
       /\ \A b \in Fnv!Builds(2) :
            /\ Fnv!fnv_32_buf(b, tail, Fnv!fnv_32_buf(b, head, Fnv!FNV1_32_INIT))
               = Fnv!fnv_32_buf("product", text, Fnv!FNV1_32_INIT)
            /\ Fnv!fnv_32a_buf(b, tail, Fnv!fnv_32a_buf(b, head, Fnv!FNV1_32_INIT))
               = Fnv!fnv_32a_buf("product", text, Fnv!FNV1_32_INIT)
       /\ \A b \in Fnv!Builds(4) :
            /\ Fnv!fnv_64_buf(b, tail, Fnv!fnv_64_buf(b, head, Fnv!FNV1_64_INIT))
               = Fnv!fnv_64_buf("product", text, Fnv!FNV1_64_INIT)
            /\ Fnv!fnv_64a_buf(b, tail, Fnv!fnv_64a_buf(b, head, Fnv!FNV1_64_INIT))
               = Fnv!fnv_64a_buf("product", text, Fnv!FNV1_64_INIT)
  /\ \A v \in Vectors : pieces = 0 =>
       /\ Fnv!fnv_32_buf("shifts", v[1], Fnv!FNV1_32_INIT) = v[2]
       /\ Fnv!fnv_32a_buf("shifts", v[1], Fnv!FNV1_32_INIT) = v[3]
       /\ Fnv!fnv_64_buf("digits", v[1], Fnv!FNV1_64_INIT) = v[4]
       /\ Fnv!fnv_64a_buf("digits", v[1], Fnv!FNV1_64_INIT) = v[5]
       /\ LET chars == v[1] \o <<0, 1>>
              of(k) == IF \E i \in DOMAIN v[1] : v[1][i] = 0
                       THEN (IF k < 4 THEN Fnv!FNV1_32_INIT ELSE Fnv!FNV1_64_INIT) ELSE v[k] IN
          /\ Fnv!fnv_32_str("product", chars, Fnv!FNV1_32_INIT) = of(2)
          /\ Fnv!fnv_32a_str("product", chars, Fnv!FNV1_32_INIT) = of(3)
          /\ Fnv!fnv_64_str("shifts", chars, Fnv!FNV1_64_INIT) = of(4)
          /\ Fnv!fnv_64a_str("shifts", chars, Fnv!FNV1_64_INIT) = of(5)
=============================================================================
