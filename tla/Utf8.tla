-------------------------------- MODULE Utf8 --------------------------------
(***************************************************************************)
(* The UTF-8 encoding of the JSON library (encodings.h), over code units   *)
(* that are the numbers 0 .. 255.  A stream is a sequence and a position   *)
(* in it; reading at or after the end gives the terminating NUL, which is  *)
(* what a C string holds there.                                            *)
(***************************************************************************)
EXTENDS Integers, Sequences

NUL == 0

\* The code unit at position i of a terminated string.
At(s, i) == IF i <= Len(s) THEN s[i] ELSE NUL

\* UTF8::Encode: the code units of a code point.
Encode(c) ==
  LET tail(k) == \h80 + ((c \div 64 ^ k) % 64) IN
  CASE c <= \h7F   -> <<c>>
    [] c \in \h80 .. \h7FF -> <<\hC0 + c \div 64, tail(0)>>
    [] c \in \h800 .. \hFFFF -> <<\hE0 + c \div 64 ^ 2, tail(1), tail(0)>>
    [] OTHER -> <<\hF0 + c \div 64 ^ 3, tail(2), tail(1), tail(0)>>

(***************************************************************************)
(* UTF8::GetRange: the class of a code unit.  Classes \h10, \h40 and \h20  *)
(* are the three ranges of continuation bytes; the others are the leading  *)
(* bytes, numbered as the source's automaton numbers them.                 *)
(***************************************************************************)
GetRange(c) ==
  CASE c < \h80 -> 0
    [] c \in \h80 .. \h8F -> \h10
    [] c \in \h90 .. \h9F -> \h40
    [] c \in \hA0 .. \hBF -> \h20
    [] c \in \hC2 .. \hDF -> 2
    [] c = \hE0 -> 10
    [] c = \hED -> 4
    [] c \in (\hE1 .. \hEF) \ {\hED} -> 3
    [] c = \hF0 -> 11
    [] c \in \hF1 .. \hF3 -> 6
    [] c = \hF4 -> 5
    [] OTHER -> 8

AnyTail == {\h10, \h20, \h40}

\* The classes the switch of Decode lets follow a leading byte of each class.
Tails(type) ==
  CASE type = 2  -> <<AnyTail>>
    [] type = 3  -> <<AnyTail, AnyTail>>
    [] type = 4  -> <<{\h10, \h40}, AnyTail>>
    [] type = 5  -> <<{\h10}, AnyTail, AnyTail>>
    [] type = 6  -> <<AnyTail, AnyTail, AnyTail>>
    [] type = 10 -> <<{\h20}, AnyTail>>
    [] type = 11 -> <<{\h20, \h40}, AnyTail, AnyTail>>

\* The bits of a leading byte that belong to the code point: (0xFF >> type) & c.
Lead(c) == IF GetRange(c) < 8 THEN c % (2 ^ (8 - GetRange(c))) ELSE 0

RECURSIVE Gathered(_, _, _)
Gathered(s, i, n) ==
  IF n = 0 THEN Lead(At(s, i)) ELSE Gathered(s, i, n - 1) * 64 + (At(s, i + n) % 64)

(***************************************************************************)
(* UTF8::Decode at position i: whether the units there are well formed,    *)
(* the code point, and how many units were taken - all of those the        *)
(* leading byte announces, also when one of them is wrong.                 *)
(***************************************************************************)
Decode(s, i) ==
  LET c == At(s, i)
      type == GetRange(c) IN
  CASE type = 0 -> [ok |-> TRUE, code |-> c, taken |-> 1]
    [] type \in {8} \union AnyTail -> [ok |-> FALSE, code |-> 0, taken |-> 1]
    [] OTHER ->
         LET n == Len(Tails(type)) IN
         [ok    |-> \A k \in 1 .. n : GetRange(At(s, i + k)) \in Tails(type)[k],
          code  |-> Gathered(s, i, n),
          taken |-> n + 1]

\* UTF8::Validate: the same automaton, copying the units it takes.
Validate(s, i) ==
  LET d == Decode(s, i) IN
  [ok |-> d.ok, copied |-> [k \in 1 .. d.taken |-> At(s, i + k - 1)]]

(***************************************************************************)
(* Transcoder<Encoding, Encoding>::Transcode: one code unit is copied and  *)
(* nothing is decoded.                                                     *)
(***************************************************************************)
Transcode(s, i) == [ok |-> TRUE, copied |-> <<At(s, i)>>]

\* internal::CountStringCodePoint: the code points of the first n units, or -1.
RECURSIVE CountStringCodePoint(_, _, _)
CountStringCodePoint(s, i, n) ==
  IF i > n THEN 0
  ELSE LET d == Decode(s, i)
           rest == CountStringCodePoint(s, i + d.taken, n) IN
       IF ~d.ok \/ rest = -1 THEN -1 ELSE 1 + rest
=============================================================================
