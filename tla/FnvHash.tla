------------------------------ MODULE FnvHash ------------------------------
(***************************************************************************)
(* The Fowler/Noll/Vo hashes of src/fnv-hash, 32 and 64 bits, FNV-1 and    *)
(* FNV-1a.  A hash value is the sequence of its 16-bit digits, lowest      *)
(* first, which is what hash_64.c computes with on a machine without 64-   *)
(* bit integers.  The multiplication by the prime is compiled in one of    *)
(* three ways: as a product, as a sum of shifts, or digit by digit.        *)
(***************************************************************************)
EXTENDS Integers, Sequences, Bitwise

Base == 65536

\* What is written in base 2^16 with digits too large, all carries done; the last one is lost.
RECURSIVE CarriedFrom(_, _, _)
CarriedFrom(x, i, carry) ==
  IF i > Len(x) THEN <<>>
  ELSE LET digit == x[i] + carry IN
       <<digit % Base>> \o CarriedFrom(x, i + 1, digit \div Base)
Carried(x) == CarriedFrom(x, 1, 0)

\* FNV_32_PRIME and FNV_64_PRIME: a low digit, and 2^8 in a higher one; and as sums of shifts.
LowPrime(width) == IF width = 2 THEN 403 ELSE 435
Shifts(width)   == IF width = 2 THEN <<1, 4, 7, 8, 24>> ELSE <<1, 4, 5, 7, 8, 40>>

FNV1_32_INIT == <<40389, 33052>>
FNV1_64_INIT == <<8997, 33826, 40164, 52210>>

\* A digit of x << k, before the carries.
Shifted(x, k, i) ==
  LET whole == k \div 16 IN IF i > whole THEN x[i - whole] * 2 ^ (k % 16) ELSE 0

\* hval *= PRIME, modulo 2^32 or 2^64.
Product(x) ==
  LET half == Len(x) \div 2 IN
  Carried([i \in DOMAIN x |-> x[i] * LowPrime(Len(x)) + Shifted(x, 16 * half + 8, i)])

\* hval += (hval << 1) + (hval << 4) + ...
RECURSIVE SumOfShifts(_, _, _)
SumOfShifts(x, shifts, i) ==
  IF shifts = <<>> THEN x[i]
  ELSE Shifted(x, Head(shifts), i) + SumOfShifts(x, Tail(shifts), i)
ShiftSum(x) == Carried([i \in DOMAIN x |-> SumOfShifts(x, Shifts(Len(x)), i)])

DigitProductNoCarry(val) ==   \* mutant: the carry out of the second digit is lost
  LET low(i) == val[i] * 435
      tmp1 == low(1)
      tmp2 == low(2) + tmp1 \div Base
      tmp3 == low(3) + val[1] * 2 ^ 8
      tmp4 == low(4) + val[2] * 2 ^ 8 + tmp3 \div Base IN
  <<tmp1 % Base, tmp2 % Base, tmp3 % Base, tmp4 % Base>>

\* The loop of hash_64.c without 64-bit integers: two digits of the prime, then the carries.
DigitProduct(val) ==
  LET low(i) == val[i] * 435
      tmp1 == low(1)
      tmp2 == low(2) + tmp1 \div Base
      tmp3 == low(3) + val[1] * 2 ^ 8 + tmp2 \div Base
      tmp4 == low(4) + val[2] * 2 ^ 8 + tmp3 \div Base IN
  <<tmp1 % Base, tmp2 % Base, tmp3 % Base, tmp4 % Base>>

Builds(width) == IF width = 2 THEN {"product", "shifts"} ELSE {"product", "shifts", "digits"}
Multiply(build, x) ==
  CASE build = "product" -> Product(x)
    [] build = "shifts"  -> ShiftSum(x)
    [] build = "digits"  -> DigitProduct(x)

XorOctet(x, octet) == [x EXCEPT ![1] = @ ^^ octet]

\* One octet: FNV-1 multiplies first, FNV-1a last.
Fnv1Octet(build, x, octet)  == XorOctet(Multiply(build, x), octet)
Fnv1aOctet(build, x, octet) == Multiply(build, XorOctet(x, octet))

\* The octets s[i .. n - 1], from the hash value of those before.
RECURSIVE Fnv1(_, _, _, _, _), Fnv1a(_, _, _, _, _)
Fnv1(build, s, i, n, hval) ==
  IF i = n THEN hval ELSE Fnv1(build, s, i + 1, n, Fnv1Octet(build, hval, s[i]))
Fnv1a(build, s, i, n, hval) ==
  IF i = n THEN hval ELSE Fnv1a(build, s, i + 1, n, Fnv1aOctet(build, hval, s[i]))

\* A string ends before its first NUL.
End(s) == CHOOSE k \in 1 .. Len(s) + 1 :
  (k = Len(s) + 1 \/ s[k] = 0) /\ \A j \in 1 .. k - 1 : s[j] # 0

fnv_32_buf(build, s, hval)  == Fnv1(build, s, 1, Len(s) + 1, hval)
fnv_32_str(build, s, hval)  == Fnv1(build, s, 1, End(s), hval)
fnv_32a_buf(build, s, hval) == Fnv1a(build, s, 1, Len(s) + 1, hval)
fnv_32a_str(build, s, hval) == Fnv1a(build, s, 1, End(s), hval)
fnv_64_buf(build, s, hval)  == Fnv1(build, s, 1, Len(s) + 1, hval)
fnv_64_str(build, s, hval)  == Fnv1(build, s, 1, End(s), hval)
fnv_64a_buf(build, s, hval) == Fnv1a(build, s, 1, Len(s) + 1, hval)
fnv_64a_str(build, s, hval) == Fnv1a(build, s, 1, End(s), hval)
=============================================================================
