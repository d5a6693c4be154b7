--------------------------- MODULE CacheOpsProofs ---------------------------
(***************************************************************************)
(* Facts about the sequences a cache is made of, for the proofs about the  *)
(* cache and about the coordinator that uses it.                           *)
(***************************************************************************)
EXTENDS CacheOps, TLAPS, SequenceTheorems

(* Taking the entry at one place out of a sequence closes the gap.         *)
LEMMA RemoveAtProperties ==
  ASSUME NEW S, NEW s \in Seq(S), NEW i \in 1 .. Len(s)
  PROVE  /\ RemoveAt(s, i) \in Seq(S)
         /\ Len(RemoveAt(s, i)) = Len(s) - 1
         /\ \A j \in 1 .. Len(s) - 1 :
              RemoveAt(s, i)[j] = IF j < i THEN s[j] ELSE s[j + 1]
<1> DEFINE n == Len(s)
           a == SubSeq(s, 1, i - 1)
           b == SubSeq(s, i + 1, n)
<1>1. n \in Nat /\ i \in 1 .. n
  OBVIOUS
<1>2. /\ a \in Seq(S) /\ Len(a) = i - 1
      /\ \A j \in 1 .. i - 1 : a[j] = s[j]
  OBVIOUS
<1>3. /\ b \in Seq(S) /\ Len(b) = n - i
      /\ \A j \in 1 .. n - i : b[j] = s[i + j]
  OBVIOUS
<1> HIDE DEF n, a, b
<1>4. /\ a \o b \in Seq(S) /\ Len(a \o b) = Len(a) + Len(b)
      /\ \A j \in 1 .. Len(a) + Len(b) :
           (a \o b)[j] = IF j <= Len(a) THEN a[j] ELSE b[j - Len(a)]
  <2>1. a \in Seq(S) /\ b \in Seq(S)
    BY <1>2, <1>3
  <2> QED
    BY <2>1, ConcatProperties
<1>5. Len(a) + Len(b) = n - 1
  BY <1>1, <1>2, <1>3
<1>6. ASSUME NEW j \in 1 .. n - 1, j < i
      PROVE  (a \o b)[j] = s[j]
  BY <1>1, <1>2, <1>4, <1>5, <1>6
<1>7. ASSUME NEW j \in 1 .. n - 1, j >= i
      PROVE  (a \o b)[j] = s[j + 1]
  <2>1. (a \o b)[j] = b[j - (i - 1)]
    BY <1>1, <1>2, <1>4, <1>5, <1>7
  <2>2. j - (i - 1) \in 1 .. n - i /\ i + (j - (i - 1)) = j + 1
    BY <1>1, <1>7
  <2> QED
    BY <1>3, <2>1, <2>2
<1>8. ASSUME NEW j \in 1 .. n - 1
      PROVE  (a \o b)[j] = IF j < i THEN s[j] ELSE s[j + 1]
  <2>1. j < i \/ j >= i
    BY <1>1
  <2> QED
    BY <2>1, <1>6, <1>7
<1> QED
  BY <1>4, <1>5, <1>8 DEF RemoveAt, a, b, n

(* Taking a node out of a list that holds every node once takes it, and    *)
(* only it, out of the set of the list's nodes.                            *)
LEMMA RemoveAtOnce ==
  ASSUME NEW S, NEW s \in Seq(S), NEW i \in 1 .. Len(s), IsInjective(s)
  PROVE  /\ IsInjective(RemoveAt(s, i))
         /\ Range(RemoveAt(s, i)) = Range(s) \ {s[i]}
<1> DEFINE r == RemoveAt(s, i)
<1>1. /\ r \in Seq(S) /\ Len(r) = Len(s) - 1
      /\ \A j \in 1 .. Len(s) - 1 : r[j] = IF j < i THEN s[j] ELSE s[j + 1]
  BY RemoveAtProperties
<1> HIDE DEF r
<1>2. /\ DOMAIN r = 1 .. Len(s) - 1 /\ DOMAIN s = 1 .. Len(s)
      /\ Len(s) \in Nat
  BY <1>1
<1>3. IsInjective(r)
  <2> SUFFICES ASSUME NEW j \in DOMAIN r, NEW k \in DOMAIN r, r[j] = r[k]
               PROVE  j = k
    BY DEF IsInjective
  <2> DEFINE old(n) == IF n < i THEN n ELSE n + 1
  <2>1. /\ old(j) \in DOMAIN s /\ old(k) \in DOMAIN s
        /\ r[j] = s[old(j)] /\ r[k] = s[old(k)]
    BY <1>1, <1>2
  <2>2. old(j) = old(k)
    BY <2>1 DEF IsInjective
  <2> QED
    BY <1>2, <2>2
<1>4. ASSUME NEW x \in Range(r) PROVE x \in Range(s) \ {s[i]}
  BY <1>1, <1>2, <1>4 DEF Range, IsInjective
<1>5. ASSUME NEW x \in Range(s) \ {s[i]} PROVE x \in Range(r)
  <2>1. PICK j \in 1 .. Len(s) : x = s[j] /\ j # i
    BY <1>2, <1>5 DEF Range
  <2>2. CASE j < i
    BY <1>1, <1>2, <2>1, <2>2 DEF Range
  <2>3. CASE j > i
    <3>1. j - 1 \in DOMAIN r /\ r[j - 1] = x
      BY <1>1, <1>2, <2>1, <2>3
    <3> QED
      BY <3>1 DEF Range
  <2> QED
    BY <2>1, <2>2, <2>3
<1> QED
  BY <1>3, <1>4, <1>5 DEF r

(* The last node leaves the list: the list without it.                     *)
LEMMA FrontProperties ==
  ASSUME NEW S, NEW s \in Seq(S), s # << >>
  PROVE  /\ Front(s) = RemoveAt(s, Len(s))
         /\ Len(s) \in 1 .. Len(s)
         /\ Last(s) = s[Len(s)] /\ Last(s) \in S
<1> DEFINE n == Len(s)
<1>1. n \in Nat \ {0} /\ Len(s) = n
  OBVIOUS
<1>2. \A j \in 1 .. n : s[j] \in S
  BY <1>1
<1> HIDE DEF n
<1>3. /\ SubSeq(s, 1, n - 1) \in Seq(S)
      /\ Len(SubSeq(s, 1, n - 1)) = n - 1
      /\ \A j \in 1 .. n - 1 : SubSeq(s, 1, n - 1)[j] = s[j]
  BY <1>1, <1>2
<1>4. /\ RemoveAt(s, n) \in Seq(S)
      /\ Len(RemoveAt(s, n)) = n - 1
      /\ \A j \in 1 .. n - 1 : RemoveAt(s, n)[j] = s[j]
  <2>1. n \in 1 .. Len(s)
    BY <1>1
  <2>2. /\ RemoveAt(s, n) \in Seq(S)
        /\ Len(RemoveAt(s, n)) = Len(s) - 1
        /\ \A j \in 1 .. Len(s) - 1 :
             RemoveAt(s, n)[j] = IF j < n THEN s[j] ELSE s[j + 1]
    BY <2>1, RemoveAtProperties
  <2> QED
    BY <1>1, <2>2
<1>5. SubSeq(s, 1, n - 1) = RemoveAt(s, n)
  BY <1>3, <1>4, SeqEqual
<1> QED
  BY <1>1, <1>2, <1>5 DEF Front, Last

(* A new node at the front of a list that does not hold it.                *)
LEMMA PushProperties ==
  ASSUME NEW S, NEW s \in Seq(S), NEW x \in S
  PROVE  /\ <<x>> \o s \in Seq(S)
         /\ Len(<<x>> \o s) = Len(s) + 1
         /\ (<<x>> \o s)[1] = x
         /\ \A j \in 1 .. Len(s) : (<<x>> \o s)[j + 1] = s[j]
         /\ Range(<<x>> \o s) = Range(s) \cup {x}
         /\ IsInjective(s) /\ x \notin Range(s) => IsInjective(<<x>> \o s)
<1> DEFINE r == <<x>> \o s
<1>1. /\ r \in Seq(S) /\ Len(r) = Len(s) + 1 /\ r[1] = x
      /\ \A j \in 1 .. Len(s) : r[j + 1] = s[j]
  OBVIOUS
<1> HIDE DEF r
<1>2. /\ DOMAIN r = 1 .. Len(s) + 1 /\ DOMAIN s = 1 .. Len(s)
      /\ Len(s) \in Nat
  BY <1>1
<1>3. \A i \in DOMAIN r : i = 1 \/ (i - 1 \in DOMAIN s /\ r[i] = s[i - 1])
  <2> SUFFICES ASSUME NEW i \in DOMAIN r, i # 1
               PROVE  i - 1 \in DOMAIN s /\ r[i] = s[i - 1]
    OBVIOUS
  <2>1. i - 1 \in 1 .. Len(s)
    BY <1>2
  <2> QED
    BY <1>1, <1>2, <2>1
<1>4. Range(r) = Range(s) \cup {x}
  BY <1>1, <1>2, <1>3 DEF Range
<1>5. IsInjective(s) /\ x \notin Range(s) => IsInjective(r)
  BY <1>1, <1>2, <1>3 DEF Range, IsInjective
<1> QED
  BY <1>1, <1>4, <1>5 DEF r
----------------------------------------------------------------------------
(* One entry per key.                                                      *)
OneEach(c) == \A i, j \in DOMAIN c : c[i].key = c[j].key => i = j

(* Said of the entries and not of their places.                            *)
LEMMA OneEachRange ==
  ASSUME NEW c
  PROVE  OneEach(c) <=> /\ IsInjective(c)
                        /\ \A x, y \in Range(c) : x.key = y.key => x = y
  BY DEF OneEach, IsInjective, Range

(* deleteKey takes out the entry of the key and no other.                  *)
LEMMA DropProperties ==
  ASSUME NEW S, NEW c \in Seq(S), OneEach(c), NEW k
  PROVE  /\ Drop(c, k) \in Seq(S) /\ OneEach(Drop(c, k))
         /\ Range(Drop(c, k)) = {e \in Range(c) : e.key # k}
<1>1. CASE k \in Keys(c)
  <2>1. \E i \in DOMAIN c : c[i].key = k
    BY <1>1 DEF Keys
  <2>2. PICK i : i = Place(c, k)
    OBVIOUS
  <2>3. i \in 1 .. Len(c) /\ c[i].key = k
    BY <2>1, <2>2 DEF Place
  <2>4. Drop(c, k) = RemoveAt(c, i)
    BY <1>1, <2>2 DEF Drop
  <2>5. /\ RemoveAt(c, i) \in Seq(S) /\ IsInjective(RemoveAt(c, i))
        /\ Range(RemoveAt(c, i)) = Range(c) \ {c[i]}
    BY <2>3, OneEachRange, RemoveAtProperties, RemoveAtOnce
  <2>6. \A e \in Range(c) : e # c[i] <=> e.key # k
    BY <2>3 DEF OneEach, Range
  <2>7. OneEach(RemoveAt(c, i))
    BY <2>5, OneEachRange
  <2> QED
    BY <2>4, <2>5, <2>6, <2>7
<1>2. CASE k \notin Keys(c)
  <2>1. Drop(c, k) = c
    BY <1>2 DEF Drop
  <2>2. \A e \in Range(c) : e.key # k
    BY <1>2 DEF Keys, Range
  <2> QED
    BY <2>1, <2>2
<1> QED
  BY <1>1, <1>2

(* putInSet puts the new pair in the place of the key's old one; of the    *)
(* others it keeps what it does not evict.                                 *)
LEMMA PutProperties ==
  ASSUME NEW S, NEW c \in Seq(S), OneEach(c), NEW n \in Nat \ {0},
         NEW k, NEW v, [key |-> k, value |-> v] \in S
  PROVE  /\ Put(c, k, v, n) \in Seq(S) /\ OneEach(Put(c, k, v, n))
         /\ \A e \in Range(Put(c, k, v, n)) :
              e = [key |-> k, value |-> v] \/ (e \in Range(c) /\ e.key # k)
<1>1. PICK p : p = [key |-> k, value |-> v]
  OBVIOUS
<1>2. PICK d : d = IF k \notin Keys(c) /\ Len(c) = n THEN Front(c) ELSE Drop(c, k)
  OBVIOUS
<1>3. /\ d \in Seq(S) /\ OneEach(d)
      /\ \A e \in Range(d) : e \in Range(c) /\ e.key # k
  <2>1. CASE k \notin Keys(c) /\ Len(c) = n
    <3>1. d = RemoveAt(c, Len(c)) /\ Len(c) \in 1 .. Len(c)
      <4>1. c # << >>
        BY <2>1
      <4> QED
        BY <1>2, <2>1, <4>1, FrontProperties
    <3>2. d \in Seq(S) /\ IsInjective(d) /\ Range(d) \subseteq Range(c)
      BY <3>1, OneEachRange, RemoveAtProperties, RemoveAtOnce
    <3>3. \A e \in Range(c) : e.key # k
      BY <2>1 DEF Keys, Range
    <3> QED
      BY <3>2, <3>3, OneEachRange
  <2>2. CASE ~(k \notin Keys(c) /\ Len(c) = n)
    BY <1>2, <2>2, DropProperties
  <2> QED
    BY <2>1, <2>2
<1>4. p \notin Range(d) /\ p.key = k /\ p \in S
  BY <1>1, <1>3
<1>5. /\ <<p>> \o d \in Seq(S) /\ IsInjective(<<p>> \o d)
      /\ Range(<<p>> \o d) = Range(d) \cup {p}
  BY <1>3, <1>4, OneEachRange, PushProperties
<1>6. OneEach(<<p>> \o d)
  BY <1>3, <1>4, <1>5, OneEachRange
<1>7. Put(c, k, v, n) = <<p>> \o d
  BY <1>1, <1>2 DEF Put
<1> QED
  BY <1>1, <1>3, <1>5, <1>6, <1>7
=============================================================================
