------------------------------ MODULE CacheOps ------------------------------
(***************************************************************************)
(* A cache as a value: a sequence of [key, value] records, one per key,    *)
(* the most recently written first.                                        *)
(***************************************************************************)
EXTENDS Naturals, SequencesExt

Keys(c) == {c[i].key : i \in DOMAIN c}

Place(c, k) == CHOOSE i \in DOMAIN c : c[i].key = k

(* deleteKey: the entry of k leaves the list.                              *)
Drop(c, k) == IF k \in Keys(c) THEN RemoveAt(c, Place(c, k)) ELSE c

(* getValue: the value of k, none if there is no entry.                    *)
Lookup(c, k) == {c[i].value : i \in {j \in DOMAIN c : c[j].key = k}}

(* putInSet: a new key that finds n entries evicts the oldest.             *)
Put(c, k, v, n) ==
  <<[key |-> k, value |-> v]>>
  \o (IF k \notin Keys(c) /\ Len(c) = n THEN Front(c) ELSE Drop(c, k))
=============================================================================
