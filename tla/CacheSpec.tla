----------------------------- MODULE CacheSpec -----------------------------
(***************************************************************************)
(* What the coordinator's cache of one slave (lru_cache.hpp) promises: at  *)
(* most Capacity entries, one per key, the most recently written first;    *)
(* when a new key needs room the entry written longest ago goes.  An       *)
(* abstract specification: LruCache is shown to implement it.              *)
(***************************************************************************)
EXTENDS CacheOps

CONSTANTS Key, Value, None, Capacity

VARIABLES
  entries,     \* the cache
  answer       \* what the last lookup returned

vars == <<entries, answer>>

Init == entries = << >> /\ answer = None

Write(k, v) == entries' = Put(entries, k, v, Capacity) /\ answer' = answer

Delete(k) == entries' = Drop(entries, k) /\ answer' = answer

Read(k) ==
  /\ \/ Lookup(entries, k) = {} /\ answer' = None
     \/ answer' \in Lookup(entries, k)
  /\ entries' = entries

Next == \E k \in Key : Read(k) \/ Delete(k) \/ \E v \in Value : Write(k, v)

Spec == Init /\ [][Next]_vars
=============================================================================
