-------------------------- MODULE LruCacheHistory --------------------------
(***************************************************************************)
(* LruCache in its life: the cache is a member of its slave's tree node,   *)
(* and the death of another slave may copy it into another node.  A        *)
(* history variable holds the values ever put for each key, for the        *)
(* property that speaks of earlier calls.                                  *)
(***************************************************************************)
EXTENDS LruCache

VARIABLES
  put,       \* the values ever put for each key
  copied     \* TRUE once the cache has been copied

allVars == <<vars, put, copied>>

HInit == Init /\ put = [k \in Key |-> {}] /\ copied = FALSE

HRefer(t, p) ==
  /\ Refer(t, p)
  /\ put' = [put EXCEPT ![p.key] = @ \cup {p.value}]

(* deleteBST copies the data of the inorder successor, its cache included, *)
(* into the node above (coordination_server.cpp:891), at any moment of the *)
(* client threads.  The copy has list nodes of its own; its map is a copy  *)
(* of iterators, which keep pointing into the list it was copied from.     *)
(* Every later access through them is undefined, so the cache is followed  *)
(* up to its first copy and no property speaks of what comes after.        *)
Copy ==
  /\ up /\ ~copied
  /\ dq' \in {s \in [DOMAIN dq -> Free] : IsInjective(s)}
  /\ cell' = [n \in Node |-> IF \E i \in DOMAIN dq : dq'[i] = n
                             THEN cell[dq[CHOOSE i \in DOMAIN dq : dq'[i] = n]]
                             ELSE cell[n]]
  /\ copied' = TRUE
  /\ UNCHANGED <<ma, pc, arg, del, answer, up, put>>

Use ==
  \/ \E t \in Thread :
       \/ t \in Writer /\ \E p \in Pair : HRefer(t, p)
       \/ t \in Writer /\ \E k \in Key : Dellist(t, k) /\ put' = put
       \/ \E k \in Key : Getlist(t, k) /\ put' = put
       \/ Step(t) /\ put' = put
  \/ \E t, u \in Thread : Race(t, u) /\ put' = put

HNext ==
  \/ ~copied /\ Use /\ copied' = copied
  \/ Copy

HSpec == HInit /\ [][HNext]_allVars

(* List nodes are interchangeable.                                         *)
NodeSymmetry == Permutations(Node)
----------------------------------------------------------------------------
(* While one thread writes and others read, a get is a miss or answers a   *)
(* value that was put for the very key it asked for: it never meets a node *)
(* that belongs to another key.  With two writers it does, although        *)
(* README.md:34 promises "If value exist then value else failure".         *)
AnswersOwnKey ==
  [][\A t \in Thread, k \in Key :
       Getlist(t, k) => answer'[t] \in {None} \cup put[k]]_allVars

(* "cache is full" (lru_cache.hpp:38) at MAX_CACHE_SIZE nodes: while one   *)
(* thread writes, the list never holds more, not even inside a call.       *)
NeverOverfull == Len(dq) <= MAX_CACHE_SIZE

(* "store references of key in cache" (lru_cache.hpp:17): between calls    *)
(* the map holds, for exactly the keys in the list, the node of that key,  *)
(* so the list holds a key once.  Nothing but the copy of the cache        *)
(* separates them while one thread writes.                                 *)
ReferencesMatch ==
  Quiet /\ ~copied =>
    /\ \A k \in Key : ma[k] # NoNode => ma[k] \in Linked /\ cell[ma[k]].key = k
    /\ \A n \in Linked : ma[cell[n].key] = n

(* While only one thread writes, the cache is for that thread the bounded, *)
(* newest-first list of written pairs of CacheSpec, whatever others read,  *)
(* until it is copied: no get of its own answers an overwritten or deleted *)
(* value, and only the key written longest ago is ever evicted.            *)
ImplementsCache ==
  Abstract!Init /\ [][Abstract!Next \/ copied']_(Abstract!vars)
=============================================================================
