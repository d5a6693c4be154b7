---------------------------- MODULE MCJsonTexts ----------------------------
(* JsonTexts with seven families of short texts. *)
EXTENDS JsonTexts

MCFamilies == {"structure", "comments", "strings", "bytes", "numbers",
               "encoded", "pointers"}

\* One-unit pieces.
Units(set) == {<<c>> : c \in set}

MCPieces ==
  [structure |-> Units({123, 125, 91, 93, 44, 58, 32})          \* { } [ ] , : blank
                 \union {<<34, 97, 34>>, <<110, 117, 108, 108>>}, \* "a" null
   comments  |-> Units({47, 42, 10, 49, 91, 93, 44}),             \* / * newline 1 [ ] ,
   strings   |-> {<<34>>, <<97>>, <<92>>, <<110>>, <<31>>,        \* " a \ n
                  <<92, 117, 48, 48>>, <<101, 57>>,               \* \u00 e9
                  <<92, 117, 68, 56, 51, 68>>,                    \* \uD83D
                  <<92, 117, 68, 69, 48, 48>>},                   \* \uDE00
   bytes     |-> {<<34>>, <<194>>, <<224>>, <<237>>, <<240>>, <<244>>, <<245>>,
                  <<128>>, <<144>>, <<160>>, <<191>>},
   numbers   |-> Units({45, 48, 49, 51, 54, 46, 101, 43})         \* - 0 1 3 6 . e +
                 \union {<<48, 46, 48, 48, 49>>,                  \* 0.001
                         <<73, 110, 102>>, <<105, 110, 105, 116, 121>>, <<78, 97, 78>>},
   encoded   |-> Units({0, 16, 65, 216, 220, 239, 187, 191, 254, 255})
                 \union {<<194, 169>>, <<240, 144, 128, 128>>},
   pointers  |-> Units({47, 126, 48, 49, 45, 97, 37, 195})        \* / ~ 0 1 - a % and half a letter
                 \union {<<35, 47>>,                              \* #/
                         <<37, 55, 69>>, <<37, 50, 102>>,         \* %7E %2f
                         <<37, 67, 51>>, <<37, 65, 57>>}]         \* %C3 %A9

MCFlagSets ==
  [structure |-> {{}, {"trailing"}, {"stopWhenDone"}},
   comments  |-> {{"comments"}, {"comments", "trailing"}},
   strings   |-> {{}},
   bytes     |-> {{}, {"validate"}},
   numbers   |-> {{"nanInf"}, {"numbersAsStrings"}},
   encoded   |-> {{}},
   pointers  |-> {{}}]

MCQuotas == [f \in MCFamilies |-> IF f \in {"structure", "comments"} THEN {2, NoQuota} ELSE {NoQuota}]

MCOptions ==
  [structure |-> {{}, {"pretty", "singleLine"}},
   comments  |-> {{"pretty"}},
   strings   |-> {{}, {"ascii"}},
   bytes     |-> {{}, {"ascii"}},
   numbers   |-> {{"nanInf"}},
   encoded   |-> {{}},
   pointers  |-> {{}}]

MCMaxPieces == [structure |-> 5, comments |-> 5, strings |-> 4, bytes |-> 4, numbers |-> 5,
                encoded |-> 4, pointers |-> 4]
MCSlack     == [structure |-> 0, comments |-> 0, strings |-> 8, bytes |-> 4, numbers |-> 0,
                encoded |-> 100, pointers |-> 100]

MCGroups   == {v \in UNION {{10 ^ k - 1, 10 ^ k, 42 * 10 ^ k, 10 ^ k + 7} : k \in 0 .. 7} : v < 10 ^ 8}
              \union {10 ^ 8 - 1, 12345678, 1844}
MCDecimals == (1 .. 17) \X (-324 .. 308)

\* Test vectors 0, 1, 7, 8 and 12 of test_fnv.c: "", "a", "fo", "foo", and "" with its NUL.
MCVectors ==
  {<<<<>>, <<40389, 33052>>, <<40389, 33052>>,
     <<8997, 33826, 40164, 52210>>, <<8997, 33826, 40164, 52210>>>>,
   <<<<97>>, <<23934, 1292>>, <<10540, 58380>>,
     <<47038, 34305, 48460, 44899>>, <<60556, 34305, 56396, 44899>>>>,
   <<<<102, 111>>, <<9492, 27511>>, <<59458, 25122>>,
     <<12084, 46315, 25095, 2098>>, <<54082, 46401, 22791, 2200>>>>,
   <<<<102, 111, 111>>, <<24083, 16527>>, <<32471, 43507>>,
     <<13619, 27553, 50968, 55499>>, <<54647, 65241, 29976, 56498>>>>,
   <<<<0>>, <<23839, 1292>>, <<23839, 1292>>,
     <<47071, 34305, 48460, 44899>>, <<47071, 34305, 48460, 44899>>>>}

\* Trees with the names a and - and the indexes 0 and 1 at two depths.
Null     == [k |-> "null", m |-> <<>>]
Named(name, value) == [name |-> name, value |-> value]
Obj(m)   == [k |-> "object", m |-> m]
List(m)  == [k |-> "array", m |-> m]
MCTrees  ==
  {Null,
   Obj(<<Named(<<97>>, List(<<Null, Obj(<<>>)>>)), Named(<<48>>, Null), Named(<<126>>, Obj(<<>>))>>),
   List(<<Obj(<<Named(<<97>>, Null), Named(<<47>>, List(<<Null>>)), Named(<<>>, Null)>>), Null>>)}

\* "" /a /a/1 /0 /0/a /1 /~0 // and one that is not valid.
MCOtherPointers ==
  {<<>>, <<47, 97>>, <<47, 97, 47, 49>>, <<47, 48>>, <<47, 48, 47, 97>>, <<47, 49>>,
   <<47, 126, 48>>, <<47, 47>>, <<97>>}
=============================================================================
