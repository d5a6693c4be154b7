------------------------------ MODULE LruCache ------------------------------
(***************************************************************************)
(* The coordinator's cache of one slave (lru_cache.hpp): a list of pairs,  *)
(* most recently written first, and a map from a key to its list node.     *)
(* The client threads of the coordinator share it and nothing locks it, so *)
(* every statement that changes the list or the map is a step of its own.  *)
(***************************************************************************)
EXTENDS CacheOps

CONSTANTS
  Thread,            \* client threads of the coordinator
  Writer,            \* those whose clients put, update or delete
  Key, Value,
  None,              \* the text "none" that stands for a miss
  Node, NoNode,      \* list nodes, and the map's "no iterator"
  MAX_CACHE_SIZE

ASSUME WriterAssumption == Writer \subseteq Thread
ASSUME NodeAssumption == NoNode \notin Node
ASSUME SizeAssumption == MAX_CACHE_SIZE \in Nat \ {0}
ASSUME PairAssumption == Key # {} /\ Value # {}

VARIABLES
  dq,        \* the list: a sequence of nodes
  cell,      \* the pair each node holds
  ma,        \* the map from keys to nodes (iterators)
  pc,        \* the statement each thread is about to execute
  arg,       \* the key and value of the call a thread is in
  del,       \* the node a call has taken out of the list or of the map
  answer,    \* what the last getValue of a thread returned
  up         \* FALSE once the process has crashed

vars == <<dq, cell, ma, pc, arg, del, answer, up>>

Pair == [key : Key, value : Value]
Linked == {dq[i] : i \in DOMAIN dq}

(* What a local variable or a cell holds that nothing will read.           *)
Unset == CHOOSE p \in Pair : TRUE

(* The nodes the allocator may hand out.                                   *)
Free == Node \ (Linked \cup {del[t] : t \in Thread})

Init ==
  /\ dq = << >>
  /\ cell = [n \in Node |-> Unset]
  /\ ma = [k \in Key |-> NoNode]
  /\ pc = [t \in Thread |-> "idle"]
  /\ arg = [t \in Thread |-> Unset]
  /\ del = [t \in Thread |-> NoNode]
  /\ answer = [t \in Thread |-> None]
  /\ up = TRUE

At(t, here, there) ==
  /\ up
  /\ pc[t] = here
  /\ pc' = [pc EXCEPT ![t] = there]
----------------------------------------------------------------------------
(***************************************************************************)
(* refer: look the key up; a new key evicts the last node when the list is *)
(* full, a known key unlinks its node; the pair goes to the front.         *)
(***************************************************************************)
ReferTooLate(t, p) ==               \* mutant: one node too many
  /\ At(t, "idle", IF ma[p.key] # NoNode THEN "unlink"
                   ELSE IF Len(dq) > MAX_CACHE_SIZE THEN "evict" ELSE "push")
  /\ arg' = [arg EXCEPT ![t] = p]
  /\ UNCHANGED <<dq, cell, ma, del, answer, up>>

Refer(t, p) ==
  /\ At(t, "idle", IF ma[p.key] # NoNode THEN "unlink"
                   ELSE IF Len(dq) = MAX_CACHE_SIZE THEN "evict" ELSE "push")
  /\ arg' = [arg EXCEPT ![t] = p]
  /\ UNCHANGED <<dq, cell, ma, del, answer, up>>

EvictFirst(t) ==                    \* mutant: evicts at the wrong end
  /\ At(t, "evict", "unmap")
  /\ del' = [del EXCEPT ![t] = Head(dq)]
  /\ dq' = Tail(dq)
  /\ UNCHANGED <<cell, ma, arg, answer, up>>

EvictLast(t) ==
  /\ At(t, "evict", "unmap")
  /\ IF dq = << >> THEN up' = FALSE /\ UNCHANGED <<dq, del>>
     ELSE /\ del' = [del EXCEPT ![t] = Last(dq)]
          /\ dq' = Front(dq)
          /\ up' = up
  /\ UNCHANGED <<cell, ma, arg, answer>>

UnmapForgotten(t) ==                \* mutant: the map keeps the iterator
  /\ At(t, "unmap", "push")
  /\ del' = [del EXCEPT ![t] = NoNode]
  /\ UNCHANGED <<dq, cell, ma, arg, answer, up>>

UnmapLast(t) ==
  /\ At(t, "unmap", "push")
  /\ ma' = [ma EXCEPT ![cell[del[t]].key] = NoNode]
  /\ del' = [del EXCEPT ![t] = NoNode]
  /\ UNCHANGED <<dq, cell, arg, answer, up>>

NodePlace(n) == CHOOSE i \in DOMAIN dq : dq[i] = n

(* dq.erase: on a node somebody else has erased it is undefined, a crash.  *)
Erase(n) ==
  /\ dq' = IF n \in Linked THEN RemoveAt(dq, NodePlace(n)) ELSE dq
  /\ up' = (n \in Linked)

Unlink(t) ==
  /\ At(t, "unlink", "push")
  /\ Erase(ma[arg[t].key])
  /\ UNCHANGED <<cell, ma, arg, del, answer>>

PushFront(t) ==
  /\ At(t, "push", "map")
  /\ \E n \in Free :
       /\ dq' = <<n>> \o dq
       /\ cell' = [cell EXCEPT ![n] = arg[t]]
  /\ UNCHANGED <<ma, arg, del, answer, up>>

MapFront(t) ==
  /\ At(t, "map", "idle")
  /\ IF dq = << >> THEN up' = FALSE /\ ma' = ma
     ELSE up' = up /\ ma' = [ma EXCEPT ![arg[t].key] = Head(dq)]
  /\ arg' = [arg EXCEPT ![t] = Unset]
  /\ UNCHANGED <<dq, cell, del, answer>>

(* dellist: unmap the key its node holds, then unlink the node.            *)
Dellist(t, k) ==
  /\ At(t, "idle", "delunlink")
  /\ ma[k] # NoNode
  /\ del' = [del EXCEPT ![t] = ma[k]]
  /\ ma' = [ma EXCEPT ![cell[ma[k]].key] = NoNode]
  /\ UNCHANGED <<dq, cell, arg, answer, up>>

DelUnlink(t) ==
  /\ At(t, "delunlink", "idle")
  /\ Erase(del[t])
  /\ del' = [del EXCEPT ![t] = NoNode]
  /\ UNCHANGED <<cell, ma, arg, answer>>

(* getlist: the value behind the iterator; reading it does not move it.    *)
GetlistKey(t, k) ==                 \* mutant: ->first instead of ->second
  /\ up /\ pc[t] = "idle"
  /\ answer' = [answer EXCEPT ![t] = IF ma[k] = NoNode THEN None
                                     ELSE cell[ma[k]].key]
  /\ UNCHANGED <<dq, cell, ma, pc, arg, del, up>>

Getlist(t, k) ==
  /\ up /\ pc[t] = "idle"
  /\ answer' = [answer EXCEPT ![t] = IF ma[k] = NoNode THEN None
                                     ELSE cell[ma[k]].value]
  /\ UNCHANGED <<dq, cell, ma, pc, arg, del, up>>

(* A call of u while t is between two statements of its own: they use the  *)
(* same containers without a lock, and the process may die of it.          *)
Race(t, u) ==
  /\ up
  /\ t # u /\ pc[t] # "idle"
  /\ up' = FALSE
  /\ UNCHANGED <<dq, cell, ma, pc, arg, del, answer>>

Step(t) ==
  \/ EvictLast(t) \/ UnmapLast(t) \/ Unlink(t) \/ PushFront(t) \/ MapFront(t)
  \/ DelUnlink(t)

Call(t) ==
  \/ t \in Writer /\ \E p \in Pair : Refer(t, p)
  \/ t \in Writer /\ \E k \in Key : Dellist(t, k)
  \/ \E k \in Key : Getlist(t, k)

Next ==
  \/ \E t \in Thread : Step(t) \/ Call(t)
  \/ \E t, u \in Thread : Race(t, u)

Spec == Init /\ [][Next]_vars
----------------------------------------------------------------------------
TypeOK ==
  /\ dq \in Seq(Node)
  /\ cell \in [Node -> Pair]
  /\ ma \in [Key -> Node \cup {NoNode}]
  /\ pc \in [Thread -> {"idle", "evict", "unmap", "unlink", "push", "map",
                        "delunlink"}]
  /\ arg \in [Thread -> Pair]
  /\ del \in [Thread -> Node \cup {NoNode}]
  /\ answer \in [Thread -> Value \cup {None}]
  /\ up \in BOOLEAN

Quiet == up /\ \A t \in Thread : pc[t] = "idle"

(* What the cache holds for its callers: the pairs of the list, with the   *)
(* effect of the call one thread is in.                                    *)
Contents ==
  LET pairs == [i \in DOMAIN dq |-> cell[dq[i]]]
      putting == {t \in Thread : pc[t] \in {"evict", "unmap", "unlink", "push"}}
      deleting == {t \in Thread : pc[t] = "delunlink"}
      p == arg[CHOOSE t \in putting : TRUE]
      n == del[CHOOSE t \in deleting : TRUE]
  IN CASE putting # {} -> Put(pairs, p.key, p.value, MAX_CACHE_SIZE)
       [] deleting # {} -> Drop(pairs, cell[n].key)
       [] OTHER -> pairs

Abstract == INSTANCE CacheSpec
  WITH Capacity <- MAX_CACHE_SIZE,
       entries <- Contents,
       answer <- answer[CHOOSE t \in Writer : TRUE]
=============================================================================
