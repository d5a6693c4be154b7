-------------------------- MODULE MCJsonDocument --------------------------
(* JsonDocument with five texts; names and strings of one unit are short, longer ones are not. *)
EXTENDS JsonDocument

a == <<97>>   b == <<98>>   xx == <<120, 120>>   one == <<49>>

MCNames   == {a, b}
MCStrings == {xx}
MCAdded   == {ConstString(one), EmptyScope("Object"), NumberCell(Int64Flags(20), 20)}

Text1 == <<123, 34, 97, 34, 58, 49, 44, 34, 98, 34, 58, 34, 120, 120, 34, 125>> \* {"a":1,"b":"xx"}
Text2 == <<91, 45, 49, 44, 91, 93, 44, 51, 51, 93>>                              \* [-1,[],33]
Text3 == <<123, 34, 97, 34, 58, 91, 49, 101, 48, 93, 44, 34, 97, 34, 58, 110, 117, 108, 108, 125>>
                                                                                 \* {"a":[1e0],"a":null}
Text4 == <<123, 34, 97, 34, 58, 34, 120, 120, 34, 44>>                           \* {"a":"xx",
Text5 == <<91, 91, 123, 125, 93, 93>>                                            \* [[{}]]

MCNoTree == [k |-> "none"]
Num(n, d) == [k |-> "number", n |-> n, double |-> d]
Str(s) == [k |-> "string", s |-> s]
Obj(m) == [k |-> "object", m |-> m]
Arr(m) == [k |-> "array", m |-> m]
Mem(name, value) == [name |-> name, value |-> value]

MCMeaning ==
  Text1 :> Obj(<<Mem(a, Num(1, FALSE)), Mem(b, Str(xx))>>)
  @@ Text2 :> Arr(<<Num(-1, FALSE), Arr(<<>>), Num(33, FALSE)>>)
  @@ Text3 :> Obj(<<Mem(a, Arr(<<Num(1, TRUE)>>)), Mem(a, [k |-> "null"])>>)
  @@ Text4 :> MCNoTree
  @@ Text5 :> Arr(<<Arr(<<Obj(<<>>)>>)>>)
MCTexts == DOMAIN MCMeaning

MCScalars == {Str(one), Obj(<<>>), Num(20, FALSE), Str(xx)}
=============================================================================
