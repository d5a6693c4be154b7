--------------------------- MODULE LruCacheProofs ---------------------------
(***************************************************************************)
(* What holds of the coordinator's cache of a slave for every capacity and *)
(* any number of keys, values, list nodes and client threads.              *)
(*                                                                         *)
(* Types hold however many threads write.  The rest holds while one thread *)
(* w writes, up to the first copy of the cache (Copy), and needs to know,  *)
(* for every statement w may be about to execute, which keys the map and   *)
(* the list disagree about (WriterAt).                                     *)
(***************************************************************************)
EXTENDS LruCacheHistory, CacheOpsProofs

(* What is unset is still a pair.                                          *)
LEMMA UnsetIsPair == Unset \in Pair
<1>1. \E p \in Pair : TRUE
  <2>1. PICK k \in Key, v \in Value : TRUE
    BY PairAssumption
  <2>2. [key |-> k, value |-> v] \in Pair
    BY DEF Pair
  <2> QED
    BY <2>2
<1> QED
  BY <1>1 DEF Unset

(* dq.erase leaves a list of nodes.                                        *)
LEMMA EraseType ==
  ASSUME dq \in Seq(Node), NEW n, Erase(n)
  PROVE  dq' \in Seq(Node) /\ up' \in BOOLEAN
<1>1. CASE n \in Linked
  <2>1. \E i \in DOMAIN dq : dq[i] = n
    BY <1>1 DEF Linked
  <2>2. NodePlace(n) \in 1 .. Len(dq)
    BY <2>1 DEF NodePlace
  <2> QED
    BY <1>1, <2>2, RemoveAtProperties DEF Erase
<1>2. CASE n \notin Linked
  BY <1>2 DEF Erase
<1> QED
  BY <1>1, <1>2

(* Each statement keeps every variable in its type, however many threads   *)
(* write.                                                                  *)
LEMMA TypeStep == TypeOK /\ [Next]_vars => TypeOK'
<1> SUFFICES ASSUME TypeOK, [Next]_vars PROVE TypeOK'
  OBVIOUS
<1> USE DEF TypeOK, At
<1>1. ASSUME NEW t \in Thread, NEW p \in Pair, Refer(t, p) PROVE TypeOK'
  BY <1>1 DEF Refer
<1>2. ASSUME NEW t \in Thread, EvictLast(t) PROVE TypeOK'
  <2>1. CASE dq = << >>
    BY <1>2, <2>1 DEF EvictLast
  <2>2. CASE dq # << >>
    <3>1. /\ Last(dq) \in Node
          /\ Front(dq) \in Seq(Node)
      BY <2>2, FrontProperties, RemoveAtProperties
    <3> QED
      BY <1>2, <2>2, <3>1 DEF EvictLast
  <2> QED
    BY <2>1, <2>2
<1>3. ASSUME NEW t \in Thread, UnmapLast(t) PROVE TypeOK'
  BY <1>3 DEF UnmapLast
<1>4. ASSUME NEW t \in Thread, Unlink(t) PROVE TypeOK'
  <2>1. dq' \in Seq(Node) /\ up' \in BOOLEAN
    BY <1>4, EraseType DEF Unlink
  <2> QED
    BY <1>4, <2>1 DEF Unlink
<1>5. ASSUME NEW t \in Thread, PushFront(t) PROVE TypeOK'
  <2>1. PICK n \in Free : dq' = <<n>> \o dq /\ cell' = [cell EXCEPT ![n] = arg[t]]
    BY <1>5 DEF PushFront
  <2>2. dq' \in Seq(Node)
    BY <2>1, PushProperties DEF Free
  <2> QED
    BY <1>5, <2>1, <2>2 DEF PushFront
<1>6. ASSUME NEW t \in Thread, MapFront(t) PROVE TypeOK'
  <2>1. dq # << >> => Head(dq) \in Node
    OBVIOUS
  <2> QED
    BY <1>6, <2>1, UnsetIsPair DEF MapFront
<1>7. ASSUME NEW t \in Thread, NEW k \in Key, Dellist(t, k) PROVE TypeOK'
  BY <1>7 DEF Dellist
<1>8. ASSUME NEW t \in Thread, DelUnlink(t) PROVE TypeOK'
  <2>1. dq' \in Seq(Node) /\ up' \in BOOLEAN
    BY <1>8, EraseType DEF DelUnlink
  <2> QED
    BY <1>8, <2>1 DEF DelUnlink
<1>9. ASSUME NEW t \in Thread, NEW k \in Key, Getlist(t, k) PROVE TypeOK'
  <2>1. ma[k] # NoNode => cell[ma[k]].value \in Value
    BY DEF Pair
  <2> QED
    BY <1>9, <2>1 DEF Getlist
<1>10. ASSUME NEW t \in Thread, NEW u \in Thread, Race(t, u) PROVE TypeOK'
  BY <1>10 DEF Race
<1>11. CASE UNCHANGED vars
  BY <1>11 DEF vars
<1> QED
  BY <1>1, <1>2, <1>3, <1>4, <1>5, <1>6, <1>7, <1>8, <1>9, <1>10, <1>11
     DEF Next, Step, Call

(* A new cache is empty and nobody is in a call.                           *)
LEMMA InitType == Init => TypeOK
  BY UnsetIsPair DEF Init, TypeOK

(* The history only watches: but for the copy of the cache, its steps are  *)
(* steps of the cache, and there is none after the copy.                   *)
LEMMA HistoryStep ==
  [HNext]_allVars => \/ [Next]_vars /\ copied' = copied
                     \/ Copy /\ copied'
  BY DEF HNext, Use, HRefer, Next, Call, Step, Copy, allVars, vars

(* The copy has nodes of its own and the pairs of the list.                *)
LEMMA CopyType == TypeOK /\ Copy => TypeOK'
<1> SUFFICES ASSUME TypeOK, Copy PROVE TypeOK'
  OBVIOUS
<1>1. DOMAIN dq = 1 .. Len(dq) /\ Len(dq) \in Nat
  BY DEF TypeOK
<1>2. dq' \in [DOMAIN dq -> Free] /\ Free \subseteq Node
  BY DEF Copy, Free
<1>3. dq' \in Seq(Node)
  BY <1>1, <1>2
<1>4. cell' \in [Node -> Pair]
  <2>1. \A i \in DOMAIN dq : cell[dq[i]] \in Pair
    BY <1>1 DEF TypeOK
  <2> QED
    BY <2>1 DEF Copy, TypeOK
<1> QED
  BY <1>3, <1>4 DEF Copy, TypeOK

(* Every variable of the cache keeps its type, however many threads write  *)
(* and read it at once, and when it is copied.                             *)
THEOREM CacheTypeCorrect == HSpec => []TypeOK
<1>1. HInit => TypeOK
  BY InitType DEF HInit
<1>2. TypeOK /\ [HNext]_allVars => TypeOK'
  BY HistoryStep, TypeStep, CopyType
<1> QED
  BY <1>1, <1>2, PTL DEF HSpec
----------------------------------------------------------------------------
(***************************************************************************)
(* One writer.  The map and the list agree, but for the key and the node   *)
(* of the call the writer is in.                                           *)
(***************************************************************************)

(* Whoever the map names is in the list, but for the keys in X.            *)
MappedLinked(X) == \A k \in Key \ X : ma[k] # NoNode => ma[k] \in Linked

(* Each node of the list but those in N is the one its key maps to.        *)
LinkedMapped(N) == \A n \in Linked \ N : ma[cell[n].key] = n

(* The map names a node for the key the node holds, in the list or not.    *)
OwnKey == \A k \in Key : ma[k] # NoNode => cell[ma[k]].key = k

(* What the statement that the writer w is about to execute relies on.     *)
WriterAt(w) ==
  LET k == arg[w].key
      n == del[w]
  IN CASE pc[w] = "idle" ->
            MappedLinked({}) /\ LinkedMapped({}) /\ n = NoNode
       [] pc[w] = "evict" ->
            /\ MappedLinked({}) /\ LinkedMapped({}) /\ n = NoNode
            /\ ma[k] = NoNode /\ Len(dq) = MAX_CACHE_SIZE
       [] pc[w] = "unmap" ->
            /\ n \in Node \ Linked /\ ma[cell[n].key] = n
            /\ MappedLinked({cell[n].key}) /\ LinkedMapped({})
            /\ ma[k] = NoNode /\ Len(dq) < MAX_CACHE_SIZE
       [] pc[w] = "unlink" ->
            /\ MappedLinked({}) /\ LinkedMapped({}) /\ n = NoNode
            /\ ma[k] # NoNode
       [] pc[w] = "push" ->
            /\ MappedLinked({k}) /\ LinkedMapped({}) /\ n = NoNode
            /\ ma[k] \notin Linked /\ Len(dq) < MAX_CACHE_SIZE
       [] pc[w] = "map" ->
            /\ dq # << >> /\ cell[Head(dq)] = arg[w]
            /\ MappedLinked({k}) /\ LinkedMapped({Head(dq)}) /\ n = NoNode
            /\ \A m \in Linked \ {Head(dq)} : cell[m].key # k
       [] pc[w] = "delunlink" ->
            /\ n \in Linked /\ ma[cell[n].key] = NoNode
            /\ MappedLinked({}) /\ LinkedMapped({n})

(* Nobody but w is in a call, no node is twice in the list, the list is    *)
(* bounded at every statement.                                             *)
OneWriterInv(w) ==
  /\ TypeOK
  /\ \A t \in Thread \ {w} : pc[t] = "idle" /\ del[t] = NoNode
  /\ IsInjective(dq)
  /\ Len(dq) <= MAX_CACHE_SIZE
  /\ OwnKey
  /\ WriterAt(w)

(* dq.erase of a node of the list takes it, and only it, out of the list.  *)
LEMMA EraseLinked ==
  ASSUME dq \in Seq(Node), IsInjective(dq), NEW n \in Linked, Erase(n)
  PROVE  /\ Linked' = Linked \ {n} /\ IsInjective(dq)'
         /\ Len(dq') = Len(dq) - 1 /\ up' = TRUE
<1>1. \E i \in DOMAIN dq : dq[i] = n
  BY DEF Linked
<1>2. NodePlace(n) \in 1 .. Len(dq) /\ dq[NodePlace(n)] = n
  BY <1>1 DEF NodePlace
<1>3. dq' = RemoveAt(dq, NodePlace(n)) /\ up' = TRUE
  BY DEF Erase
<1>4. Linked = Range(dq) /\ Linked' = Range(dq')
  BY DEF Linked, Range
<1>5. /\ IsInjective(dq') /\ Range(dq') = Range(dq) \ {n}
      /\ Len(dq') = Len(dq) - 1
  BY <1>2, <1>3, RemoveAtProperties, RemoveAtOnce
<1> QED
  BY <1>3, <1>4, <1>5 DEF IsInjective

(* A statement of the writer leaves the others where they were, out of any *)
(* call.                                                                   *)
LEMMA OthersStep ==
  ASSUME NEW w \in Thread, Writer = {w}, OneWriterInv(w), [Next]_vars
  PROVE  /\ \A t \in Thread \ {w} : pc'[t] = "idle" /\ del'[t] = NoNode
         /\ \A t \in Thread \ {w} : ~Step(t)
         /\ pc'[w] = pc[w] \/ Step(w) \/ Call(w)
<1> USE DEF OneWriterInv, TypeOK, At
<1>1. ASSUME NEW t \in Thread \ {w}, Step(t) PROVE FALSE
  BY <1>1 DEF Step, EvictLast, UnmapLast, Unlink, PushFront, MapFront, DelUnlink
<1>2. ASSUME NEW t \in Thread \ {w}, Call(t) PROVE UNCHANGED <<pc, del>>
  BY <1>2 DEF Call, Getlist
<1>3. CASE Step(w)
  BY <1>1, <1>3 DEF Step, EvictLast, UnmapLast, Unlink, PushFront, MapFront,
     DelUnlink
<1>4. CASE Call(w)
  BY <1>1, <1>4 DEF Call, Refer, Dellist, Getlist
<1>5. CASE UNCHANGED vars
  BY <1>1, <1>5 DEF vars
<1>6. ASSUME NEW t \in Thread, NEW u \in Thread, Race(t, u)
      PROVE  UNCHANGED <<pc, del>>
  BY <1>6 DEF Race
<1> QED
  BY <1>1, <1>2, <1>3, <1>4, <1>5, <1>6 DEF Next

(* The front of a list is one of its nodes.                                *)
LEMMA HeadLinked ==
  ASSUME dq \in Seq(Node), dq # << >>
  PROVE  Head(dq) \in Linked /\ Head(dq) = dq[1]
  BY DEF Linked

(* Each statement of the one writer, whatever the others read, keeps the   *)
(* map and the list in agreement.                                          *)
LEMMA WriterStep ==
  ASSUME NEW w \in Thread, Writer = {w}, OneWriterInv(w), [Next]_vars
  PROVE  OneWriterInv(w)'
<1> DEFINE Agree == /\ IsInjective(dq) /\ Len(dq) <= MAX_CACHE_SIZE
                    /\ OwnKey /\ WriterAt(w)
<1>a. TypeOK
  BY DEF OneWriterInv
<1>b. TypeOK'
  BY <1>a, TypeStep
<1>c. Linked \subseteq Node /\ NoNode \notin Linked /\ Len(dq) \in Nat
  BY <1>a, NodeAssumption DEF TypeOK, Linked
<1>d. IsInjective(dq) /\ Len(dq) <= MAX_CACHE_SIZE /\ OwnKey /\ WriterAt(w)
  BY DEF OneWriterInv
<1>1. ASSUME NEW p \in Pair, Refer(w, p) PROVE Agree'
  <2>1. pc[w] = "idle"
    BY <1>1 DEF Refer, At
  <2>2. MappedLinked({}) /\ LinkedMapped({}) /\ del[w] = NoNode
    BY <1>d, <2>1 DEF WriterAt
  <2>3. /\ UNCHANGED <<dq, cell, ma, del>>
        /\ arg'[w] = p /\ p.key \in Key
        /\ pc'[w] = IF ma[p.key] # NoNode THEN "unlink"
                    ELSE IF Len(dq) = MAX_CACHE_SIZE THEN "evict" ELSE "push"
    BY <1>a, <1>1 DEF Refer, At, TypeOK, Pair
  <2>4. MappedLinked({})' /\ LinkedMapped({})' /\ Linked' = Linked
    BY <2>2, <2>3 DEF MappedLinked, LinkedMapped, Linked
  <2>5. MappedLinked({p.key})'
    BY <2>4 DEF MappedLinked
  <2>6. Len(dq) # MAX_CACHE_SIZE => Len(dq) < MAX_CACHE_SIZE
    BY <1>c, <1>d, SizeAssumption
  <2>7. WriterAt(w)'
    BY <1>c, <2>2, <2>3, <2>4, <2>5, <2>6 DEF WriterAt
  <2> QED
    BY <1>d, <2>3, <2>7 DEF OwnKey
<1>2. ASSUME EvictLast(w) PROVE Agree'
  <2>1. /\ pc[w] = "evict" /\ pc'[w] = "unmap"
        /\ UNCHANGED <<cell, ma, arg>>
    BY <1>a, <1>2 DEF EvictLast, At, TypeOK
  <2>2. /\ MappedLinked({}) /\ LinkedMapped({}) /\ ma[arg[w].key] = NoNode
        /\ Len(dq) = MAX_CACHE_SIZE
    BY <1>d, <2>1 DEF WriterAt
  <2>3. dq # << >>
    BY <2>2, SizeAssumption
  <2>a. PICK n : n = Last(dq)
    OBVIOUS
  <2>4. /\ del'[w] = n /\ dq' = RemoveAt(dq, Len(dq))
        /\ n = dq[Len(dq)] /\ Len(dq) \in 1 .. Len(dq)
    BY <1>a, <1>2, <2>a, <2>3, FrontProperties DEF EvictLast, TypeOK
  <2>5. /\ n \in Linked /\ Linked' = Linked \ {n} /\ IsInjective(dq')
        /\ Len(dq') = Len(dq) - 1
    <3>1. Linked = Range(dq) /\ Linked' = Range(dq')
      BY DEF Linked, Range
    <3>2. IsInjective(dq') /\ Range(dq') = Range(dq) \ {n}
      BY <1>a, <1>d, <2>4, RemoveAtOnce DEF TypeOK
    <3>3. Len(dq') = Len(dq) - 1
      BY <1>a, <2>4, RemoveAtProperties DEF TypeOK
    <3>4. n \in Linked
      BY <1>a, <2>4 DEF TypeOK, Linked
    <3> QED
      BY <3>1, <3>2, <3>3, <3>4 DEF IsInjective
  <2>6. n \in Node /\ ma[cell[n].key] = n /\ cell[n].key # arg[w].key
    BY <1>c, <2>2, <2>5 DEF LinkedMapped
  <2>7. MappedLinked({cell[n].key})' /\ LinkedMapped({})'
    <3>1. \A k \in Key \ {cell[n].key} : ma[k] # n
      BY <1>c, <1>d, <2>5 DEF OwnKey
    <3> QED
      BY <2>1, <2>2, <2>5, <3>1 DEF MappedLinked, LinkedMapped
  <2>8. WriterAt(w)'
    BY <1>c, <2>1, <2>2, <2>4, <2>5, <2>6, <2>7
       DEF WriterAt, MappedLinked, LinkedMapped
  <2> QED
    BY <1>c, <1>d, <2>1, <2>2, <2>5, <2>8 DEF OwnKey, IsInjective
<1>3. ASSUME UnmapLast(w) PROVE Agree'
  <2>1. /\ pc[w] = "unmap" /\ pc'[w] = "push" /\ del'[w] = NoNode
        /\ UNCHANGED <<dq, cell, arg>>
        /\ ma' = [ma EXCEPT ![cell[del[w]].key] = NoNode]
    BY <1>a, <1>3 DEF UnmapLast, At, TypeOK
  <2> DEFINE k == cell[del[w]].key
  <2>2. /\ del[w] \in Node \ Linked /\ ma[k] = del[w]
        /\ MappedLinked({k}) /\ LinkedMapped({})
        /\ ma[arg[w].key] = NoNode /\ Len(dq) < MAX_CACHE_SIZE
    BY <1>d, <2>1 DEF WriterAt
  <2>3. k \in Key /\ arg[w].key \in Key
    BY <1>a, <2>2 DEF TypeOK, Pair
  <2> HIDE DEF k
  <2>4. /\ ma'[k] = NoNode
        /\ \A i \in Key \ {k} : ma'[i] = ma[i]
    BY <1>a, <2>1, <2>3 DEF TypeOK, k
  <2>5. MappedLinked({arg[w].key})' /\ LinkedMapped({})' /\ Linked' = Linked
    <3>1. \A m \in Linked : cell[m].key # k /\ cell[m].key \in Key
      BY <1>a, <1>c, <2>2 DEF LinkedMapped, TypeOK, Pair
    <3> QED
      BY <2>1, <2>2, <2>4, <3>1 DEF MappedLinked, LinkedMapped, Linked
  <2>6. ma'[arg[w].key] \notin Linked
    BY <1>c, <2>2, <2>3, <2>4
  <2>7. WriterAt(w)'
    BY <2>1, <2>2, <2>5, <2>6 DEF WriterAt
  <2> QED
    BY <1>d, <2>1, <2>4, <2>7 DEF OwnKey
<1>4. ASSUME Unlink(w) PROVE Agree'
  <2>1. /\ pc[w] = "unlink" /\ pc'[w] = "push"
        /\ UNCHANGED <<cell, ma, arg, del>> /\ Erase(ma[arg[w].key])
    BY <1>a, <1>4 DEF Unlink, At, TypeOK
  <2>a. PICK k : k = arg[w].key
    OBVIOUS
  <2>2. /\ MappedLinked({}) /\ LinkedMapped({}) /\ del[w] = NoNode
        /\ ma[k] # NoNode
    BY <1>d, <2>1, <2>a DEF WriterAt
  <2>3. k \in Key
    BY <1>a, <2>a DEF TypeOK, Pair
  <2>4. ma[k] \in Linked
    BY <2>2, <2>3 DEF MappedLinked
  <2>5. /\ Linked' = Linked \ {ma[k]} /\ IsInjective(dq)'
        /\ Len(dq') = Len(dq) - 1
    BY <1>a, <1>d, <2>1, <2>4, <2>a, EraseLinked DEF TypeOK
  <2>6. \A i \in Key \ {k} : ma[i] # ma[k]
    BY <1>c, <1>d, <2>2, <2>3 DEF OwnKey
  <2>7. MappedLinked({k})' /\ LinkedMapped({})'
    BY <2>1, <2>2, <2>5, <2>6 DEF MappedLinked, LinkedMapped
  <2>8. WriterAt(w)'
    BY <1>c, <1>d, <2>1, <2>2, <2>5, <2>7, <2>a, SizeAssumption DEF WriterAt
  <2> QED
    BY <1>c, <1>d, <2>1, <2>5, <2>8, SizeAssumption DEF OwnKey
<1>5. ASSUME PushFront(w) PROVE Agree'
  <2>1. /\ pc[w] = "push" /\ pc'[w] = "map"
        /\ UNCHANGED <<ma, arg, del>>
    BY <1>a, <1>5 DEF PushFront, At, TypeOK
  <2>2. PICK n \in Free : dq' = <<n>> \o dq /\ cell' = [cell EXCEPT ![n] = arg[w]]
    BY <1>5 DEF PushFront
  <2>a. PICK k : k = arg[w].key
    OBVIOUS
  <2>3. /\ MappedLinked({k}) /\ LinkedMapped({}) /\ del[w] = NoNode
        /\ ma[k] \notin Linked /\ Len(dq) < MAX_CACHE_SIZE
    BY <1>d, <2>1, <2>a DEF WriterAt
  <2>4. n \in Node \ Linked
    BY <2>2 DEF Free
  <2>5. /\ Linked' = Linked \cup {n} /\ IsInjective(dq')
        /\ Len(dq') = Len(dq) + 1 /\ dq' # << >> /\ dq'[1] = n
    <3>1. Linked = Range(dq) /\ Linked' = Range(dq')
      BY DEF Linked, Range
    <3>2. /\ Len(dq') = Len(dq) + 1 /\ dq'[1] = n /\ dq' \in Seq(Node)
          /\ Range(dq') = Range(dq) \cup {n} /\ IsInjective(dq')
      BY <1>a, <1>d, <2>2, <2>4, <3>1, PushProperties DEF TypeOK
    <3>3. dq' # << >>
      BY <1>c, <3>2
    <3> QED
      BY <3>1, <3>2, <3>3
  <2>6. Head(dq') = n
    BY <1>b, <2>5, HeadLinked DEF TypeOK
  <2>7. /\ cell'[n] = arg[w] /\ \A m \in Node \ {n} : cell'[m] = cell[m]
    BY <1>a, <2>2, <2>4 DEF TypeOK
  <2>8. \A m \in Linked : ma[cell[m].key] = m /\ cell'[m] = cell[m]
                           /\ cell[m].key # k
    BY <1>c, <2>3, <2>4, <2>7 DEF LinkedMapped
  <2>9. MappedLinked({k})' /\ LinkedMapped({n})'
    BY <2>1, <2>3, <2>5, <2>8 DEF MappedLinked, LinkedMapped
  <2>10. OwnKey'
    <3> SUFFICES ASSUME NEW i \in Key, ma[i] # NoNode
                 PROVE  cell'[ma[i]].key = i
      BY <2>1 DEF OwnKey
    <3>1. CASE ma[i] = n
      <4>1. i = k
        BY <2>3, <2>4, <3>1 DEF MappedLinked
      <4> QED
        BY <2>7, <2>a, <3>1, <4>1
    <3>2. CASE ma[i] # n
      BY <1>a, <1>d, <2>7, <3>2 DEF OwnKey, TypeOK
    <3> QED
      BY <3>1, <3>2
  <2>11. WriterAt(w)'
    BY <2>1, <2>3, <2>5, <2>6, <2>7, <2>8, <2>9, <2>a DEF WriterAt
  <2> QED
    BY <1>c, <2>3, <2>5, <2>10, <2>11, SizeAssumption DEF IsInjective
<1>6. ASSUME MapFront(w) PROVE Agree'
  <2>1. pc[w] = "map" /\ pc'[w] = "idle"
    BY <1>a, <1>6 DEF MapFront, At, TypeOK
  <2>a. PICK k, n : k = arg[w].key /\ n = Head(dq)
    OBVIOUS
  <2>2. /\ dq # << >> /\ cell[n] = arg[w]
        /\ MappedLinked({k}) /\ LinkedMapped({n}) /\ del[w] = NoNode
        /\ \A m \in Linked \ {n} : cell[m].key # k
    BY <1>d, <2>1, <2>a DEF WriterAt
  <2>3. UNCHANGED <<dq, cell, del>> /\ ma' = [ma EXCEPT ![k] = n]
    BY <1>6, <2>2, <2>a DEF MapFront
  <2>4. k \in Key /\ n \in Linked /\ Linked' = Linked
    BY <1>a, <2>2, <2>3, <2>a, HeadLinked DEF TypeOK, Pair, Linked
  <2>5. ma'[k] = n /\ \A i \in Key \ {k} : ma'[i] = ma[i]
    BY <1>a, <2>3, <2>4 DEF TypeOK
  <2>6. cell[n].key = k
    BY <2>2, <2>a
  <2>7. MappedLinked({})' /\ LinkedMapped({})'
    <3>1. \A m \in Linked \ {n} : ma'[cell[m].key] = m
      BY <1>a, <1>c, <2>2, <2>5 DEF LinkedMapped, TypeOK, Pair
    <3> QED
      BY <2>2, <2>3, <2>4, <2>5, <2>6, <3>1 DEF MappedLinked, LinkedMapped
  <2>8. OwnKey'
    BY <1>d, <2>3, <2>5, <2>6 DEF OwnKey
  <2> QED
    BY <1>d, <2>1, <2>2, <2>3, <2>7, <2>8 DEF WriterAt
<1>7. ASSUME NEW k \in Key, Dellist(w, k) PROVE Agree'
  <2>a. PICK n : n = ma[k]
    OBVIOUS
  <2>1. /\ pc[w] = "idle" /\ pc'[w] = "delunlink" /\ n # NoNode
        /\ del'[w] = n /\ UNCHANGED <<dq, cell>>
        /\ ma' = [ma EXCEPT ![cell[n].key] = NoNode]
    BY <1>a, <1>7, <2>a DEF Dellist, At, TypeOK
  <2>2. MappedLinked({}) /\ LinkedMapped({})
    BY <1>d, <2>1 DEF WriterAt
  <2>3. n \in Linked /\ cell[n].key = k /\ Linked' = Linked
    BY <1>d, <2>1, <2>2, <2>a DEF MappedLinked, OwnKey, Linked
  <2>4. ma'[k] = NoNode /\ \A i \in Key \ {k} : ma'[i] = ma[i]
    BY <1>a, <2>1, <2>3 DEF TypeOK
  <2>5. MappedLinked({})' /\ LinkedMapped({n})'
    <3>1. \A m \in Linked \ {n} : cell[m].key # k /\ cell[m].key \in Key
      BY <1>a, <1>c, <2>2, <2>a DEF LinkedMapped, TypeOK, Pair
    <3> QED
      BY <2>1, <2>2, <2>3, <2>4, <3>1 DEF MappedLinked, LinkedMapped
  <2>6. OwnKey'
    BY <1>d, <2>1, <2>4 DEF OwnKey
  <2> QED
    BY <1>d, <2>1, <2>3, <2>4, <2>5, <2>6 DEF WriterAt
<1>8. ASSUME DelUnlink(w) PROVE Agree'
  <2>a. PICK n : n = del[w]
    OBVIOUS
  <2>1. /\ pc[w] = "delunlink" /\ pc'[w] = "idle" /\ del'[w] = NoNode
        /\ UNCHANGED <<cell, ma, arg>> /\ Erase(n)
    BY <1>a, <1>8, <2>a DEF DelUnlink, At, TypeOK
  <2>2. /\ n \in Linked /\ ma[cell[n].key] = NoNode
        /\ MappedLinked({}) /\ LinkedMapped({n})
    BY <1>d, <2>1, <2>a DEF WriterAt
  <2>3. /\ Linked' = Linked \ {n} /\ IsInjective(dq)'
        /\ Len(dq') = Len(dq) - 1
    BY <1>a, <1>d, <2>1, <2>2, EraseLinked DEF TypeOK
  <2>4. \A k \in Key : ma[k] # n
    BY <1>c, <1>d, <2>2 DEF OwnKey
  <2>5. MappedLinked({})' /\ LinkedMapped({})'
    BY <2>1, <2>2, <2>3, <2>4 DEF MappedLinked, LinkedMapped
  <2> QED
    BY <1>c, <1>d, <2>1, <2>3, <2>5, SizeAssumption DEF OwnKey, WriterAt
<1>9. ASSUME UNCHANGED <<dq, cell, ma, pc, arg, del>> PROVE Agree'
  <2>1. Linked' = Linked
    BY <1>9 DEF Linked
  <2>2. OwnKey' /\ IsInjective(dq)' /\ Len(dq') <= MAX_CACHE_SIZE
    BY <1>d, <1>9 DEF OwnKey, IsInjective
  <2>3. WriterAt(w)'
    BY <1>d, <1>9, <2>1 DEF WriterAt, MappedLinked, LinkedMapped
  <2> QED
    BY <2>2, <2>3
<1>10. ASSUME NEW t \in Thread, NEW u \in Thread, Race(t, u) PROVE Agree'
  BY <1>9, <1>10 DEF Race
<1>11. ASSUME UNCHANGED vars PROVE Agree'
  BY <1>9, <1>11 DEF vars
<1>12. ASSUME NEW t \in Thread, Step(t) PROVE Agree'
  <2>1. t = w
    BY <1>12, OthersStep
  <2> QED
    BY <1>2, <1>3, <1>4, <1>5, <1>6, <1>8, <1>12, <2>1 DEF Step
<1>13. ASSUME NEW t \in Thread, Call(t) PROVE Agree'
  <2>1. CASE \E k \in Key : Getlist(t, k)
    BY <1>9, <2>1 DEF Getlist
  <2>2. CASE t \in Writer /\ \E p \in Pair : Refer(t, p)
    BY <1>1, <2>2
  <2>3. CASE t \in Writer /\ \E k \in Key : Dellist(t, k)
    BY <1>7, <2>3
  <2> QED
    BY <1>13, <2>1, <2>2, <2>3 DEF Call
<1>14. Agree'
  BY <1>10, <1>11, <1>12, <1>13 DEF Next
<1> QED
  BY <1>b, <1>14, OthersStep DEF OneWriterInv

(* A new cache satisfies the invariant: list and map are empty.            *)
LEMMA InitWriter ==
  ASSUME NEW w \in Thread, Init
  PROVE  OneWriterInv(w)
<1>1. TypeOK
  BY InitType
<1>2. Linked = {} /\ IsInjective(dq) /\ Len(dq) = 0
  BY DEF Init, Linked, IsInjective
<1> QED
  BY <1>1, <1>2, SizeAssumption DEF Init, OneWriterInv, OwnKey, WriterAt,
     MappedLinked, LinkedMapped

(* The bound and the references follow from the invariant.                 *)
LEMMA WriterConsequences ==
  ASSUME NEW w \in Thread
  PROVE  OneWriterInv(w) => ReferencesMatch /\ NeverOverfull
<1> SUFFICES ASSUME OneWriterInv(w) PROVE ReferencesMatch /\ NeverOverfull
  OBVIOUS
<1>1. ASSUME Quiet
      PROVE  /\ \A k \in Key : ma[k] # NoNode =>
                                ma[k] \in Linked /\ cell[ma[k]].key = k
             /\ \A n \in Linked : ma[cell[n].key] = n
  <2>1. MappedLinked({}) /\ LinkedMapped({}) /\ OwnKey
    BY <1>1 DEF OneWriterInv, Quiet, WriterAt
  <2> QED
    BY <2>1 DEF MappedLinked, LinkedMapped, OwnKey
<1> QED
  BY <1>1 DEF ReferencesMatch, NeverOverfull, OneWriterInv

(* While one thread writes, the inductive invariant holds at every         *)
(* statement of every call, until the cache is copied.                     *)
THEOREM OneWriterInvariant ==
  ASSUME NEW w \in Thread, Writer = {w}
  PROVE  HSpec => [](copied \/ OneWriterInv(w))
<1>1. HInit => OneWriterInv(w)
  BY InitWriter DEF HInit
<1>2. (copied \/ OneWriterInv(w)) /\ [HNext]_allVars =>
        (copied \/ OneWriterInv(w))'
  BY HistoryStep, WriterStep
<1> QED
  BY <1>1, <1>2, PTL DEF HSpec

(* Between calls the map holds, for exactly the keys in the list, the node *)
(* of that key (lru_cache.hpp 31 to 57 and 83 to 91), for every capacity   *)
(* and whatever other threads read meanwhile, while one thread writes: but *)
(* for other writers only deleteBST's copy of the cache                    *)
(* (coordination_server.cpp:891) separates them.                           *)
THEOREM ReferencesCorrect ==
  ASSUME NEW w \in Thread, Writer = {w}
  PROVE  HSpec => []ReferencesMatch
<1>1. copied \/ OneWriterInv(w) => ReferencesMatch
  BY WriterConsequences DEF ReferencesMatch
<1> QED
  BY <1>1, OneWriterInvariant, PTL
----------------------------------------------------------------------------
(***************************************************************************)
(* The same with the history of what was put.                              *)
(***************************************************************************)

(* The list never holds more than MAX_CACHE_SIZE nodes (lru_cache.hpp:38), *)
(* not even inside a call, while one thread writes; its copy is as long.   *)
THEOREM NeverHoldsMore ==
  ASSUME NEW w \in Thread, Writer = {w}
  PROVE  HSpec => []NeverOverfull
<1> DEFINE I == TypeOK /\ NeverOverfull /\ (copied \/ OneWriterInv(w))
<1>1. HInit => I
  BY InitWriter, WriterConsequences, InitType DEF HInit
<1>2. I /\ [HNext]_allVars => I'
  <2> SUFFICES ASSUME I, [HNext]_allVars PROVE I'
    OBVIOUS
  <2>1. TypeOK'
    BY HistoryStep, TypeStep, CopyType
  <2>2. CASE copied
    <3>1. UNCHANGED allVars
      BY <2>2 DEF HNext, Copy
    <3> QED
      BY <2>1, <2>2, <3>1 DEF allVars, vars, NeverOverfull
  <2>3. CASE ~copied /\ [Next]_vars /\ copied' = copied
    <3>1. OneWriterInv(w)'
      BY <2>3, WriterStep
    <3>2. NeverOverfull'
      BY <3>1 DEF OneWriterInv, NeverOverfull
    <3> QED
      BY <2>1, <3>1, <3>2
  <2>4. CASE Copy
    <3>1. Len(dq') = Len(dq)
      BY <2>4 DEF Copy, TypeOK
    <3> QED
      BY <2>1, <2>4, <3>1 DEF Copy, NeverOverfull
  <2> QED
    BY <2>2, <2>3, <2>4, HistoryStep
<1> QED
  BY <1>1, <1>2, PTL DEF HSpec

(* Values that are in the cache, or on their way into it, were put for     *)
(* their key.                                                              *)
HistoryInv(w) ==
  /\ OneWriterInv(w)
  /\ put \in [Key -> SUBSET Value]
  /\ \A k \in Key : ma[k] # NoNode => cell[ma[k]].value \in put[k]
  /\ pc[w] \in {"evict", "unmap", "unlink", "push", "map"} =>
       arg[w].value \in put[arg[w].key]

(* Each step keeps the values of the cache among those put for their key.  *)
LEMMA HistoryInvStep ==
  ASSUME NEW w \in Thread, Writer = {w}, HistoryInv(w),
         Use \/ UNCHANGED allVars
  PROVE  HistoryInv(w)'
<1> DEFINE Kept == /\ put \in [Key -> SUBSET Value]
                   /\ \A k \in Key : ma[k] # NoNode =>
                                       cell[ma[k]].value \in put[k]
                   /\ pc[w] \in {"evict", "unmap", "unlink", "push", "map"} =>
                        arg[w].value \in put[arg[w].key]
<1>a. TypeOK /\ Kept /\ OneWriterInv(w)
  BY DEF HistoryInv, OneWriterInv
<1>0. [Next]_vars
  BY DEF Use, HRefer, Next, Call, Step, allVars, vars
<1>b. OneWriterInv(w)'
  BY <1>a, <1>0, WriterStep
<1>c. \A n \in Linked : n \in Node /\ n # NoNode
  BY <1>a, NodeAssumption DEF TypeOK, Linked
<1> USE DEF TypeOK, At
<1>1. ASSUME NEW p \in Pair, HRefer(w, p) PROVE Kept'
  <2>1. p.key \in Key /\ p.value \in Value
    BY DEF Pair
  <2>2. /\ put' \in [Key -> SUBSET Value] /\ p.value \in put'[p.key]
        /\ \A k \in Key : put[k] \subseteq put'[k]
    BY <1>a, <1>1, <2>1 DEF HRefer
  <2> QED
    BY <1>a, <1>1, <2>2 DEF HRefer, Refer
<1>2. ASSUME EvictLast(w), put' = put PROVE Kept'
  BY <1>a, <1>2 DEF EvictLast
<1>3. ASSUME UnmapLast(w), put' = put PROVE Kept'
  BY <1>a, <1>3 DEF UnmapLast
<1>4. ASSUME Unlink(w), put' = put PROVE Kept'
  BY <1>a, <1>4 DEF Unlink
<1>5. ASSUME PushFront(w), put' = put PROVE Kept'
  <2>1. PICK n \in Free : cell' = [cell EXCEPT ![n] = arg[w]]
    BY <1>5 DEF PushFront
  <2>2. /\ MappedLinked({arg[w].key}) /\ pc[w] = "push" /\ pc'[w] = "map"
        /\ UNCHANGED <<ma, arg>>
    BY <1>a, <1>5 DEF PushFront, OneWriterInv, WriterAt
  <2>3. n \in Node \ Linked
    BY <2>1 DEF Free
  <2>4. ASSUME NEW k \in Key, ma[k] # NoNode PROVE cell'[ma[k]].value \in put[k]
    <3>1. CASE k = arg[w].key
      BY <1>a, <2>1, <2>2, <2>4, <3>1
    <3>2. CASE k # arg[w].key
      BY <1>a, <2>1, <2>2, <2>3, <2>4, <3>2 DEF MappedLinked
    <3> QED
      BY <3>1, <3>2
  <2> QED
    BY <1>a, <1>5, <2>2, <2>4
<1>6. ASSUME MapFront(w), put' = put PROVE Kept'
  <2>1. /\ dq # << >> /\ cell[Head(dq)] = arg[w] /\ pc[w] = "map"
    BY <1>a, <1>6 DEF MapFront, OneWriterInv, WriterAt
  <2>2. /\ ma' = [ma EXCEPT ![arg[w].key] = Head(dq)]
        /\ cell' = cell /\ pc'[w] = "idle"
    BY <1>a, <1>6, <2>1 DEF MapFront
  <2> QED
    BY <1>a, <1>6, <2>1, <2>2
<1>7. ASSUME NEW k \in Key, Dellist(w, k), put' = put PROVE Kept'
  BY <1>a, <1>7 DEF Dellist
<1>8. ASSUME DelUnlink(w), put' = put PROVE Kept'
  BY <1>a, <1>8 DEF DelUnlink
<1>9. ASSUME UNCHANGED <<ma, cell, pc, arg, put>> PROVE Kept'
  BY <1>a, <1>9
<1>10. ASSUME NEW t \in Thread, NEW k \in Key, Getlist(t, k), put' = put
       PROVE  Kept'
  BY <1>9, <1>10 DEF Getlist
<1>11. ASSUME NEW t \in Thread, NEW u \in Thread, Race(t, u), put' = put
       PROVE  Kept'
  BY <1>9, <1>11 DEF Race
<1>12. ASSUME UNCHANGED allVars PROVE Kept'
  BY <1>9, <1>12 DEF allVars, vars
<1>13. ASSUME NEW t \in Thread, Step(t), put' = put PROVE Kept'
  <2>1. t = w
    BY <1>a, <1>0, <1>13, OthersStep
  <2> QED
    BY <1>2, <1>3, <1>4, <1>5, <1>6, <1>8, <1>13, <2>1 DEF Step
<1>14. Kept'
  BY <1>1, <1>7, <1>10, <1>11, <1>12, <1>13 DEF Use
<1> QED
  BY <1>b, <1>14 DEF HistoryInv

(* While one thread writes and others read at any moment, a get is a miss  *)
(* or answers a value that was put for the very key it asked for           *)
(* (lru_cache.hpp 69 to 81).                                               *)
THEOREM GetsAnswerOwnKey ==
  ASSUME NEW w \in Thread, Writer = {w}
  PROVE  HSpec => AnswersOwnKey
<1> DEFINE I == copied \/ HistoryInv(w)
<1>1. HInit => I
  BY InitWriter DEF HInit, HistoryInv, Init
<1>2. I /\ [HNext]_allVars => I'
  <2> SUFFICES ASSUME HistoryInv(w), [HNext]_allVars, ~copied'
               PROVE  HistoryInv(w)'
    BY DEF HNext, Copy, allVars
  <2>1. Use \/ UNCHANGED allVars
    BY DEF HNext, Copy
  <2> QED
    BY <2>1, HistoryInvStep
<1>3. I /\ [HNext]_allVars =>
        [\A t \in Thread, k \in Key :
           Getlist(t, k) => answer'[t] \in {None} \cup put[k]]_allVars
  <2> SUFFICES ASSUME I, HNext, ~UNCHANGED allVars,
                      NEW t \in Thread, NEW k \in Key, Getlist(t, k)
               PROVE  answer'[t] \in {None} \cup put[k]
    OBVIOUS
  <2>1. CASE HistoryInv(w)
    BY <2>1 DEF HistoryInv, OneWriterInv, TypeOK, Getlist
  <2>2. CASE copied
    BY <2>2 DEF HNext, Copy
  <2> QED
    BY <2>1, <2>2
<1> QED
  BY <1>1, <1>2, <1>3, PTL DEF HSpec, AnswersOwnKey
----------------------------------------------------------------------------
(***************************************************************************)
(* The refinement of CacheSpec.  The pairs of the list, in its order, are  *)
(* the abstract cache, once the call that is under way has been added.     *)
(***************************************************************************)
PairsOf(list, pairs) == [i \in DOMAIN list |-> pairs[list[i]]]

Pairs == PairsOf(dq, cell)

Putting == {"evict", "unmap", "unlink", "push"}

ContentsRight(w) ==
  /\ pc[w] \in Putting =>
       Contents = Put(Pairs, arg[w].key, arg[w].value, MAX_CACHE_SIZE)
  /\ pc[w] \in {"unmap", "push"} => Contents = <<arg[w]>> \o Pairs
  /\ pc[w] = "delunlink" => Contents = Drop(Pairs, cell[del[w]].key)
  /\ pc[w] \in {"idle", "map"} => Contents = Pairs

(* The pairs follow the list, and hold the keys of its nodes.              *)
LEMMA PairsProperties ==
  ASSUME NEW s \in Seq(Node), NEW c \in [Node -> Pair]
  PROVE  /\ PairsOf(s, c) \in Seq(Pair) /\ Len(PairsOf(s, c)) = Len(s)
         /\ \A i \in 1 .. Len(s) : PairsOf(s, c)[i] = c[s[i]]
         /\ Keys(PairsOf(s, c)) = {c[n].key : n \in Range(s)}
         /\ \A k : k \notin Keys(PairsOf(s, c)) =>
                     Drop(PairsOf(s, c), k) = PairsOf(s, c)
<1>1. DOMAIN s = 1 .. Len(s) /\ Len(s) \in Nat
  OBVIOUS
<1>2. \A i \in 1 .. Len(s) : s[i] \in Node /\ c[s[i]] \in Pair
  OBVIOUS
<1>3. PairsOf(s, c) = [i \in 1 .. Len(s) |-> c[s[i]]]
  BY <1>1 DEF PairsOf
<1>4. PairsOf(s, c) \in Seq(Pair) /\ Len(PairsOf(s, c)) = Len(s)
  BY <1>1, <1>2, <1>3
<1>5. Keys(PairsOf(s, c)) = {c[n].key : n \in Range(s)}
  BY <1>1, <1>3 DEF Keys, Range
<1> QED
  BY <1>3, <1>4, <1>5 DEF Drop

(* Erasing a node of the list erases the pair at its place.                *)
LEMMA PairsErase ==
  ASSUME NEW s \in Seq(Node), NEW c \in [Node -> Pair], NEW i \in 1 .. Len(s)
  PROVE  PairsOf(RemoveAt(s, i), c) = RemoveAt(PairsOf(s, c), i)
<1> DEFINE n == Len(s)
           r == RemoveAt(s, i)
           p == PairsOf(s, c)
<1>0. n \in Nat \ {0} /\ i \in 1 .. n
  OBVIOUS
<1>r. /\ Len(RemoveAt(s, i)) = Len(s) - 1 /\ RemoveAt(s, i) \in Seq(Node)
      /\ \A j \in 1 .. Len(s) - 1 :
           RemoveAt(s, i)[j] = IF j < i THEN s[j] ELSE s[j + 1]
  BY RemoveAtProperties
<1>1. /\ Len(r) = n - 1 /\ n \in Nat \ {0} /\ i \in 1 .. n /\ r \in Seq(Node)
      /\ \A j \in 1 .. n - 1 : r[j] = IF j < i THEN s[j] ELSE s[j + 1]
  BY <1>0, <1>r
<1>2. /\ p \in Seq(Pair) /\ Len(p) = n
      /\ \A j \in 1 .. n : p[j] = c[s[j]]
  BY PairsProperties
<1> HIDE DEF n, r, p
<1>3. /\ PairsOf(r, c) \in Seq(Pair) /\ Len(PairsOf(r, c)) = n - 1
      /\ \A j \in 1 .. n - 1 : PairsOf(r, c)[j] = c[r[j]]
  <2>1. r \in Seq(Node) /\ Len(r) = n - 1
    BY <1>1
  <2>2. /\ PairsOf(r, c) \in Seq(Pair) /\ Len(PairsOf(r, c)) = Len(r)
        /\ \A j \in 1 .. Len(r) : PairsOf(r, c)[j] = c[r[j]]
    BY <2>1, PairsProperties, Zenon
  <2> QED
    BY <2>1, <2>2
<1>4. /\ RemoveAt(p, i) \in Seq(Pair) /\ Len(RemoveAt(p, i)) = n - 1
      /\ \A j \in 1 .. n - 1 :
           RemoveAt(p, i)[j] = IF j < i THEN p[j] ELSE p[j + 1]
  BY <1>1, <1>2, RemoveAtProperties
<1>5. ASSUME NEW j \in 1 .. n - 1
      PROVE  PairsOf(r, c)[j] = RemoveAt(p, i)[j]
  <2>1. CASE j < i
    <3>1. r[j] = s[j] /\ RemoveAt(p, i)[j] = p[j]
      BY <1>1, <1>4, <2>1
    <3>2. j \in 1 .. n
      BY <1>1
    <3> QED
      BY <1>2, <1>3, <3>1, <3>2
  <2>2. CASE ~(j < i)
    <3>1. j + 1 \in 1 .. n
      BY <1>1
    <3>2. PairsOf(r, c)[j] = c[s[j + 1]] /\ RemoveAt(p, i)[j] = p[j + 1]
      BY <1>1, <1>3, <1>4, <2>2
    <3> QED
      BY <1>2, <3>1, <3>2
  <2> QED
    BY <2>1, <2>2
<1>6. PairsOf(r, c) = RemoveAt(p, i)
  BY <1>3, <1>4, <1>5, SeqEqual
<1> QED
  BY <1>6 DEF r, p

(* The place of a key in the cache is that of the one node that holds it.  *)
LEMMA PlaceOf ==
  ASSUME NEW s \in Seq(Node), NEW c \in [Node -> Pair],
         NEW i \in 1 .. Len(s), NEW k, c[s[i]].key = k,
         \A j \in 1 .. Len(s) : c[s[j]].key = k => j = i
  PROVE  /\ k \in Keys(PairsOf(s, c))
         /\ Drop(PairsOf(s, c), k) = PairsOf(RemoveAt(s, i), c)
<1> DEFINE p == PairsOf(s, c)
<1>1. DOMAIN p = 1 .. Len(s) /\ \A j \in 1 .. Len(s) : p[j] = c[s[j]]
  BY PairsProperties
<1> HIDE DEF p
<1>2. k \in Keys(p)
  BY <1>1 DEF Keys
<1>3. \A j \in DOMAIN p : p[j].key = k <=> j = i
  BY <1>1
<1>4. Place(p, k) = i
  BY <1>1, <1>3 DEF Place
<1>5. Drop(p, k) = RemoveAt(p, i)
  BY <1>2, <1>4 DEF Drop
<1> QED
  BY <1>2, <1>5, PairsErase DEF p

(* A new node at the front of the list is a new pair at the front of the   *)
(* cache.                                                                  *)
LEMMA PairsPush ==
  ASSUME NEW s \in Seq(Node), NEW c \in [Node -> Pair], NEW p \in Pair,
         NEW n \in Node \ Range(s)
  PROVE  PairsOf(<<n>> \o s, [c EXCEPT ![n] = p]) = <<p>> \o PairsOf(s, c)
<1> DEFINE d == [c EXCEPT ![n] = p]
           t == <<n>> \o s
           q == PairsOf(s, c)
<1>1. /\ d \in [Node -> Pair] /\ d[n] = p
      /\ \A m \in Node \ {n} : d[m] = c[m]
  OBVIOUS
<1>2. /\ t \in Seq(Node) /\ Len(t) = Len(s) + 1 /\ t[1] = n
      /\ \A j \in 1 .. Len(s) : t[j + 1] = s[j]
  BY PushProperties
<1>3. /\ q \in Seq(Pair) /\ Len(q) = Len(s) /\ Len(s) \in Nat
      /\ \A j \in 1 .. Len(s) : q[j] = c[s[j]]
  BY PairsProperties
<1>4. \A j \in 1 .. Len(s) : s[j] \in Node \ {n}
  BY DEF Range
<1> HIDE DEF d, t, q
<1>5. /\ <<p>> \o q \in Seq(Pair) /\ Len(<<p>> \o q) = Len(s) + 1
      /\ (<<p>> \o q)[1] = p
      /\ \A j \in 1 .. Len(s) : (<<p>> \o q)[j + 1] = q[j]
  BY <1>3, PushProperties
<1>6. /\ PairsOf(t, d) \in Seq(Pair) /\ Len(PairsOf(t, d)) = Len(s) + 1
      /\ \A j \in 1 .. Len(s) + 1 : PairsOf(t, d)[j] = d[t[j]]
  BY <1>1, <1>2, PairsProperties
<1>7. ASSUME NEW j \in 1 .. Len(s) + 1
      PROVE  PairsOf(t, d)[j] = (<<p>> \o q)[j]
  <2>1. CASE j = 1
    BY <1>1, <1>2, <1>3, <1>5, <1>6, <2>1
  <2>2. CASE j # 1
    <3>1. PICK i \in 1 .. Len(s) : j = i + 1
      <4>1. j - 1 \in 1 .. Len(s) /\ j = (j - 1) + 1
        BY <1>3, <2>2
      <4> QED
        BY <4>1
    <3>2. PairsOf(t, d)[j] = c[s[i]]
      BY <1>1, <1>2, <1>4, <1>6, <3>1
    <3>3. (<<p>> \o q)[j] = c[s[i]]
      BY <1>3, <1>5, <3>1
    <3> QED
      BY <3>2, <3>3
  <2> QED
    BY <2>1, <2>2
<1>8. PairsOf(t, d) = <<p>> \o q
  BY <1>5, <1>6, <1>7, SeqEqual
<1> QED
  BY <1>8 DEF d, t, q

(* What a put leaves: a key that is not in the cache of length len evicts  *)
(* the last pair when the cache is full and nothing otherwise.             *)
LEMMA PutNewKey ==
  ASSUME NEW c, NEW k, NEW v, NEW n, k \notin Keys(c)
  PROVE  Put(c, k, v, n) = <<[key |-> k, value |-> v]>>
                           \o (IF Len(c) = n THEN Front(c) ELSE c)
  BY DEF Put, Drop

(* What the callers see depends on the one writer alone; once its call has *)
(* made room, it is the pairs of the list behind the new one.              *)
LEMMA ContentsOf ==
  ASSUME NEW w \in Thread
  PROVE  OneWriterInv(w) => ContentsRight(w)
<1> SUFFICES ASSUME OneWriterInv(w) PROVE ContentsRight(w)
  OBVIOUS
<1> DEFINE putting == {t \in Thread : pc[t] \in {"evict", "unmap", "unlink", "push"}}
           deleting == {t \in Thread : pc[t] = "delunlink"}
           k == arg[w].key
           v == arg[w].value
<1>a. \A t \in Thread \ {w} : pc[t] = "idle"
  BY DEF OneWriterInv
<1>1. CASE pc[w] \in Putting
  <2>1. putting = {w} /\ deleting = {}
    BY <1>a, <1>1 DEF Putting
  <2>2. (CHOOSE t \in putting : TRUE) = w
    BY <2>1
  <2>3. Contents = Put(Pairs, k, v, MAX_CACHE_SIZE)
    BY <2>1, <2>2 DEF Contents, Pairs, PairsOf
  <2>4. ASSUME pc[w] \in {"unmap", "push"}
        PROVE  Put(Pairs, k, v, MAX_CACHE_SIZE) = <<arg[w]>> \o Pairs
    <3>1. /\ dq \in Seq(Node) /\ cell \in [Node -> Pair] /\ arg[w] \in Pair
          /\ Linked = Range(dq)
      BY DEF OneWriterInv, TypeOK, Linked, Range
    <3>2. /\ Len(dq) < MAX_CACHE_SIZE /\ LinkedMapped({}) /\ ma[k] \notin Linked
      <4>1. Len(dq) \in Nat /\ NoNode \notin Linked
        BY <3>1, NodeAssumption DEF Range
      <4>2. WriterAt(w)
        BY DEF OneWriterInv
      <4> QED
        BY <2>4, <4>1, <4>2 DEF WriterAt
    <3>3. Keys(Pairs) = {cell[n].key : n \in Linked} /\ Len(Pairs) = Len(dq)
      BY <3>1, PairsProperties DEF Pairs
    <3>4. k \notin Keys(Pairs)
      BY <3>2, <3>3 DEF LinkedMapped
    <3>5. Len(Pairs) # MAX_CACHE_SIZE
      BY <3>1, <3>2, <3>3, SizeAssumption
    <3>6. arg[w] = [key |-> k, value |-> v]
      BY <3>1 DEF Pair
    <3> QED
      BY <3>4, <3>5, <3>6, PutNewKey
  <2> QED
    BY <1>1, <2>3, <2>4 DEF ContentsRight, Putting
<1>2. CASE pc[w] = "delunlink"
  <2>1. putting = {} /\ deleting = {w}
    BY <1>a, <1>2
  <2>2. (CHOOSE t \in deleting : TRUE) = w
    BY <2>1
  <2> QED
    BY <1>2, <2>1, <2>2 DEF Contents, ContentsRight, Pairs, PairsOf, Putting
<1>3. CASE pc[w] \in {"idle", "map"}
  <2>1. putting = {} /\ deleting = {}
    BY <1>a, <1>3
  <2> QED
    BY <1>3, <2>1 DEF Contents, ContentsRight, Pairs, PairsOf, Putting
<1>4. pc[w] \in Putting \cup {"delunlink", "idle", "map"}
  BY DEF OneWriterInv, TypeOK, Putting
<1> QED
  BY <1>1, <1>2, <1>3, <1>4

(* The abstract specification's cache operations are those of CacheOps.    *)
LEMMA AbstractOps ==
  /\ \A c, k : Abstract!Drop(c, k) = Drop(c, k)
  /\ \A c, k, v, n : Abstract!Put(c, k, v, n) = Put(c, k, v, n)
  /\ \A c, k : Abstract!Lookup(c, k) = Lookup(c, k)
<1>1. ASSUME NEW c, NEW i PROVE Abstract!RemoveAt(c, i) = RemoveAt(c, i)
  BY DEF Abstract!RemoveAt, RemoveAt
<1>2. ASSUME NEW c PROVE Abstract!Front(c) = Front(c)
  BY DEF Abstract!Front, Front
<1>3. ASSUME NEW c PROVE Abstract!Keys(c) = Keys(c)
  BY DEF Abstract!Keys, Keys
<1>4. ASSUME NEW c, NEW k PROVE Abstract!Place(c, k) = Place(c, k)
  BY DEF Abstract!Place, Place
<1>5. ASSUME NEW c, NEW k PROVE Abstract!Drop(c, k) = Drop(c, k)
  BY <1>1, <1>3, <1>4 DEF Abstract!Drop, Drop
<1>6. ASSUME NEW c, NEW k, NEW v, NEW n
      PROVE  Abstract!Put(c, k, v, n) = Put(c, k, v, n)
  BY <1>2, <1>3, <1>5 DEF Abstract!Put, Put
<1>7. ASSUME NEW c, NEW k PROVE Abstract!Lookup(c, k) = Lookup(c, k)
  BY DEF Abstract!Lookup, Lookup
<1> QED
  BY <1>5, <1>6, <1>7

(* Which step of the abstract cache each statement is: the first statement *)
(* of a put or a delete is the whole of it, the others are stuttering.     *)
LEMMA RefinementStep ==
  ASSUME NEW w \in Thread, Writer = {w}, OneWriterInv(w), OneWriterInv(w)',
         ContentsRight(w), ContentsRight(w)', [Next]_vars
  PROVE  [Abstract!Next]_(Abstract!vars)
<1> DEFINE M == MAX_CACHE_SIZE
           Stutter == Contents' = Contents /\ answer'[w] = answer[w]
<1>k. PICK k, v : k = arg[w].key /\ v = arg[w].value
  OBVIOUS
<1>a. /\ TypeOK /\ TypeOK' /\ OwnKey /\ WriterAt(w)
      /\ Len(dq) <= M /\ IsInjective(dq)
  BY DEF OneWriterInv
<1>b. /\ dq \in Seq(Node) /\ cell \in [Node -> Pair] /\ Len(dq) \in Nat
      /\ Linked = Range(dq) /\ arg[w] \in Pair /\ k \in Key /\ v \in Value
      /\ arg[w] = [key |-> k, value |-> v]
      /\ \A n \in Linked : n \in Node /\ n # NoNode
  BY <1>a, <1>k, NodeAssumption DEF TypeOK, Linked, Range, Pair
<1>c. (CHOOSE t \in Writer : TRUE) = w
  OBVIOUS
<1>d. ASSUME Stutter PROVE [Abstract!Next]_(Abstract!vars)
  BY <1>c, <1>d DEF Abstract!vars
<1>f. /\ pc[w] \in Putting => Contents = Put(Pairs, k, v, M)
      /\ pc[w] \in {"unmap", "push"} => Contents = <<arg[w]>> \o Pairs
      /\ pc[w] = "delunlink" => Contents = Drop(Pairs, cell[del[w]].key)
      /\ pc[w] \in {"idle", "map"} => Contents = Pairs
  BY <1>k DEF ContentsRight
<1>g. /\ pc'[w] \in Putting =>
           Contents' = Put(Pairs', arg'[w].key, arg'[w].value, M)
      /\ pc'[w] \in {"unmap", "push"} => Contents' = <<arg'[w]>> \o Pairs'
      /\ pc'[w] = "delunlink" => Contents' = Drop(Pairs', cell'[del'[w]].key)
      /\ pc'[w] \in {"idle", "map"} => Contents' = Pairs'
  BY DEF ContentsRight
<1>h. /\ Keys(Pairs) = {cell[n].key : n \in Linked} /\ Len(Pairs) = Len(dq)
      /\ \A i : i \notin Keys(Pairs) => Drop(Pairs, i) = Pairs
  BY <1>b, PairsProperties DEF Pairs
<1>i. Pairs' = PairsOf(dq', cell')
  BY DEF Pairs
<1>j. ASSUME NEW n \in Linked, Erase(n), cell' = cell,
             \A m \in Linked \ {n} : cell[m].key # cell[n].key
      PROVE  Drop(Pairs, cell[n].key) = Pairs' /\ cell[n].key \in Keys(Pairs)
  <2>1. \E i \in DOMAIN dq : dq[i] = n
    BY DEF Linked
  <2>2. PICK i : i = NodePlace(n)
    OBVIOUS
  <2>3. i \in 1 .. Len(dq) /\ dq[i] = n /\ dq' = RemoveAt(dq, i)
    BY <1>j, <2>1, <2>2 DEF NodePlace, Erase
  <2>4. \A j \in 1 .. Len(dq) : cell[dq[j]].key = cell[n].key => j = i
    <3> SUFFICES ASSUME NEW j \in 1 .. Len(dq), cell[dq[j]].key = cell[n].key
                 PROVE  j = i
      OBVIOUS
    <3>1. dq[j] = n
      BY <1>b, <1>j DEF Linked
    <3> QED
      BY <1>a, <1>b, <2>3, <3>1 DEF IsInjective
  <2>5. /\ cell[n].key \in Keys(PairsOf(dq, cell))
        /\ Drop(PairsOf(dq, cell), cell[n].key) = PairsOf(RemoveAt(dq, i), cell)
    BY <1>b, <2>3, <2>4, PlaceOf
  <2> QED
    BY <1>i, <1>j, <2>3, <2>5 DEF Pairs
<1>1. ASSUME NEW p \in Pair, Refer(w, p)
      PROVE  [Abstract!Next]_(Abstract!vars)
  <2>1. /\ pc[w] = "idle" /\ pc'[w] \in Putting /\ arg'[w] = p
        /\ UNCHANGED <<dq, cell, answer>>
    BY <1>1, <1>a DEF Refer, At, TypeOK, Putting
  <2>2. Contents' = Abstract!Put(Contents, p.key, p.value, M)
    BY <1>f, <1>g, <2>1, AbstractOps DEF Pairs
  <2>3. Abstract!Write(p.key, p.value)
    BY <2>1, <2>2 DEF Abstract!Write
  <2>4. p.key \in Key /\ p.value \in Value
    BY DEF Pair
  <2> QED
    BY <2>3, <2>4 DEF Abstract!Next
<1>2. ASSUME EvictLast(w) PROVE [Abstract!Next]_(Abstract!vars)
  <2>1. /\ pc[w] = "evict" /\ pc'[w] = "unmap" /\ UNCHANGED <<cell, arg, answer>>
    BY <1>2, <1>a DEF EvictLast, At, TypeOK
  <2>2. ma[k] = NoNode /\ Len(dq) = M /\ LinkedMapped({})
    BY <1>a, <1>k, <2>1 DEF WriterAt
  <2>3. dq # << >> /\ M > 0
    BY <2>2, SizeAssumption
  <2>4. dq' = RemoveAt(dq, Len(dq)) /\ Len(dq) \in 1 .. Len(dq)
    BY <1>2, <1>b, <2>3, FrontProperties DEF EvictLast
  <2>5. Pairs' = RemoveAt(Pairs, Len(Pairs)) /\ Pairs # << >>
    BY <1>b, <1>h, <1>i, <2>1, <2>2, <2>3, <2>4, PairsErase DEF Pairs
  <2>6. Pairs' = Front(Pairs)
    BY <1>b, <2>5, FrontProperties, PairsProperties DEF Pairs
  <2>7. k \notin Keys(Pairs)
    BY <1>b, <1>h, <2>2 DEF LinkedMapped
  <2>8. Contents = <<arg[w]>> \o Front(Pairs)
    BY <1>b, <1>f, <1>h, <2>1, <2>2, <2>7 DEF Put, Putting
  <2> QED
    BY <1>d, <1>g, <2>1, <2>6, <2>8
<1>3. ASSUME UnmapLast(w) PROVE [Abstract!Next]_(Abstract!vars)
  <2>1. /\ pc[w] = "unmap" /\ pc'[w] = "push"
        /\ UNCHANGED <<dq, cell, arg, answer>>
    BY <1>3, <1>a DEF UnmapLast, At, TypeOK
  <2> QED
    BY <1>d, <1>f, <1>g, <1>k, <2>1 DEF Pairs, Putting
<1>4. ASSUME Unlink(w) PROVE [Abstract!Next]_(Abstract!vars)
  <2>1. /\ pc[w] = "unlink" /\ pc'[w] = "push"
        /\ UNCHANGED <<cell, arg, answer>> /\ Erase(ma[k])
    BY <1>4, <1>a, <1>k DEF Unlink, At, TypeOK
  <2>2. ma[k] # NoNode /\ MappedLinked({}) /\ LinkedMapped({})
    BY <1>a, <1>k, <2>1 DEF WriterAt
  <2>3. ma[k] \in Linked /\ cell[ma[k]].key = k
    BY <1>a, <1>b, <2>2 DEF MappedLinked, OwnKey
  <2>4. \A m \in Linked \ {ma[k]} : cell[m].key # k
    BY <2>2 DEF LinkedMapped
  <2>5. Drop(Pairs, k) = Pairs' /\ k \in Keys(Pairs)
    BY <1>j, <2>1, <2>3, <2>4
  <2>6. Contents = <<arg[w]>> \o Pairs'
    BY <1>b, <1>f, <2>1, <2>5 DEF Put, Putting
  <2> QED
    BY <1>d, <1>g, <2>1, <2>6
<1>5. ASSUME PushFront(w) PROVE [Abstract!Next]_(Abstract!vars)
  <2>1. /\ pc[w] = "push" /\ pc'[w] = "map" /\ answer' = answer
    BY <1>5, <1>a DEF PushFront, At, TypeOK
  <2>2. PICK n \in Free : /\ dq' = <<n>> \o dq
                          /\ cell' = [cell EXCEPT ![n] = arg[w]]
    BY <1>5 DEF PushFront
  <2>3. n \in Node \ Range(dq)
    BY <1>b, <2>2 DEF Free
  <2>4. Pairs' = <<arg[w]>> \o Pairs
    BY <1>b, <1>i, <2>2, <2>3, PairsPush DEF Pairs
  <2> QED
    BY <1>d, <1>f, <1>g, <2>1, <2>4
<1>6. ASSUME MapFront(w) PROVE [Abstract!Next]_(Abstract!vars)
  <2>1. /\ pc[w] = "map" /\ pc'[w] = "idle"
        /\ UNCHANGED <<dq, cell, answer>>
    BY <1>6, <1>a DEF MapFront, At, TypeOK
  <2> QED
    BY <1>d, <1>f, <1>g, <2>1 DEF Pairs
<1>7. ASSUME NEW i \in Key, Dellist(w, i)
      PROVE  [Abstract!Next]_(Abstract!vars)
  <2>1. /\ pc[w] = "idle" /\ pc'[w] = "delunlink" /\ ma[i] # NoNode
        /\ del'[w] = ma[i] /\ UNCHANGED <<dq, cell, answer>>
    BY <1>7, <1>a DEF Dellist, At, TypeOK
  <2>2. cell[ma[i]].key = i
    BY <1>a, <2>1 DEF OwnKey
  <2>3. Contents' = Drop(Contents, i)
    BY <1>f, <1>g, <2>1, <2>2 DEF Pairs
  <2>4. Abstract!Delete(i)
    BY <2>1, <2>3, AbstractOps DEF Abstract!Delete
  <2> QED
    BY <2>4 DEF Abstract!Next
<1>8. ASSUME DelUnlink(w) PROVE [Abstract!Next]_(Abstract!vars)
  <2>1. /\ pc[w] = "delunlink" /\ pc'[w] = "idle"
        /\ UNCHANGED <<cell, ma, answer>> /\ Erase(del[w])
    BY <1>8, <1>a DEF DelUnlink, At, TypeOK
  <2>2. /\ del[w] \in Linked /\ ma[cell[del[w]].key] = NoNode
        /\ LinkedMapped({del[w]})
    BY <1>a, <2>1 DEF WriterAt
  <2>3. \A m \in Linked \ {del[w]} : cell[m].key # cell[del[w]].key
    BY <1>b, <2>2 DEF LinkedMapped
  <2>4. Drop(Pairs, cell[del[w]].key) = Pairs'
    BY <1>j, <2>1, <2>2, <2>3
  <2> QED
    BY <1>d, <1>f, <1>g, <2>1, <2>4
<1>9. ASSUME NEW i \in Key, Getlist(w, i)
      PROVE  [Abstract!Next]_(Abstract!vars)
  <2>1. /\ pc[w] = "idle" /\ pc'[w] = "idle" /\ UNCHANGED <<dq, cell>>
        /\ answer'[w] = IF ma[i] = NoNode THEN None ELSE cell[ma[i]].value
    BY <1>9, <1>a DEF Getlist, TypeOK
  <2>2. Contents' = Contents /\ Contents = Pairs
    BY <1>f, <1>g, <2>1 DEF Pairs
  <2>3. MappedLinked({}) /\ LinkedMapped({})
    BY <1>a, <2>1 DEF WriterAt
  <2>4. CASE ma[i] = NoNode
    <3>1. i \notin Keys(Pairs)
      BY <1>b, <1>h, <2>3, <2>4 DEF LinkedMapped
    <3>2. Lookup(Pairs, i) = {}
      BY <3>1 DEF Lookup, Keys
    <3> QED
      BY <1>c, <2>1, <2>2, <2>4, <3>2, AbstractOps
         DEF Abstract!Read, Abstract!Next
  <2>5. CASE ma[i] # NoNode
    <3>1. ma[i] \in Linked /\ cell[ma[i]].key = i
      BY <1>a, <2>3, <2>5 DEF MappedLinked, OwnKey
    <3>2. PICK j \in 1 .. Len(dq) : dq[j] = ma[i]
      BY <1>b, <3>1 DEF Linked
    <3>3. DOMAIN Pairs = 1 .. Len(dq) /\ Pairs[j] = cell[ma[i]]
      BY <1>b, <3>2 DEF Pairs, PairsOf
    <3>4. cell[ma[i]].value \in Lookup(Pairs, i)
      BY <3>1, <3>3 DEF Lookup
    <3> QED
      BY <1>c, <2>1, <2>2, <2>5, <3>4, AbstractOps
         DEF Abstract!Read, Abstract!Next
  <2> QED
    BY <2>4, <2>5
<1>10. ASSUME UNCHANGED <<dq, cell, pc, arg, del>>, answer'[w] = answer[w]
       PROVE  [Abstract!Next]_(Abstract!vars)
  BY <1>d, <1>10 DEF Contents
<1>11. ASSUME NEW t \in Thread \ {w}, NEW i \in Key, Getlist(t, i)
       PROVE  [Abstract!Next]_(Abstract!vars)
  <2>1. answer'[w] = answer[w]
    BY <1>11, <1>a DEF Getlist, TypeOK
  <2> QED
    BY <1>10, <1>11, <2>1 DEF Getlist
<1>12. ASSUME NEW t \in Thread, NEW u \in Thread, Race(t, u)
       PROVE  [Abstract!Next]_(Abstract!vars)
  BY <1>10, <1>12 DEF Race
<1>13. CASE UNCHANGED vars
  BY <1>10, <1>13 DEF vars
<1>14. ASSUME NEW t \in Thread, Step(t) PROVE [Abstract!Next]_(Abstract!vars)
  <2>1. t = w
    BY <1>14, OthersStep
  <2> QED
    BY <1>2, <1>3, <1>4, <1>5, <1>6, <1>8, <1>14, <2>1 DEF Step
<1>15. ASSUME NEW t \in Thread, Call(t) PROVE [Abstract!Next]_(Abstract!vars)
  BY <1>1, <1>7, <1>9, <1>11, <1>15 DEF Call
<1> QED
  BY <1>12, <1>13, <1>14, <1>15 DEF Next

(* While one thread writes, the cache is for that thread, whatever the     *)
(* others read, the bounded newest-first list of CacheSpec: every call it  *)
(* makes is one atomic operation on that list (lru_cache.hpp 17 to 112),   *)
(* up to the copy of the cache.                                            *)
THEOREM CacheImplementsSpec ==
  ASSUME NEW w \in Thread, Writer = {w}
  PROVE  HSpec => ImplementsCache
<1>1. HInit => Init
  BY DEF HInit
<1>2. Init => OneWriterInv(w)
  BY InitWriter
<1>3. OneWriterInv(w) => ContentsRight(w)
  BY ContentsOf
<1>4. (OneWriterInv(w) => ContentsRight(w))'
  BY <1>3, PTL
<1>5. Init /\ ContentsRight(w) => Abstract!Init
  <2> SUFFICES ASSUME Init, ContentsRight(w) PROVE Abstract!Init
    OBVIOUS
  <2>1. dq = << >> /\ pc[w] = "idle" /\ (CHOOSE t \in Writer : TRUE) = w
    BY DEF Init
  <2>2. Contents = << >>
    BY <2>1 DEF ContentsRight, Pairs, PairsOf
  <2> QED
    BY <2>1, <2>2 DEF Init, Abstract!Init
<1>6. (copied \/ OneWriterInv(w)) /\ [HNext]_allVars =>
        [Abstract!Next \/ copied']_(Abstract!vars)
  <2> SUFFICES ASSUME OneWriterInv(w), ~copied, [HNext]_allVars, ~copied'
               PROVE  [Abstract!Next]_(Abstract!vars)
    BY HistoryStep
  <2>1. [Next]_vars
    BY HistoryStep
  <2>2. OneWriterInv(w)'
    BY <2>1, WriterStep
  <2> QED
    BY <1>3, <1>4, <2>1, <2>2, RefinementStep
<1> QED
  BY <1>1, <1>2, <1>3, <1>5, <1>6, OneWriterInvariant, PTL
     DEF HSpec, ImplementsCache
=============================================================================
