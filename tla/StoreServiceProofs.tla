------------------------- MODULE StoreServiceProofs -------------------------
(***************************************************************************)
(* What holds of the service for any ring of slaves, any number of clients *)
(* and keys, and caches of any size.                                       *)
(*                                                                         *)
(* Types hold of every run.  That an acknowledged write is on both slaves  *)
(* needs that nobody deletes; that cache and backup agree with the primary *)
(* slave, and that clients see one map, needs that no two clients share a  *)
(* key: while one of them is in a write, others would see half of it.      *)
(***************************************************************************)
EXTENDS StoreService, CacheOpsProofs

Pair == [key : Key, value : Value]

(* Dropping a key, or putting a pair, leaves a cache of pairs.             *)
LEMMA CacheTypes ==
  ASSUME NEW c \in Seq(Pair), NEW k \in Key, NEW v \in Value
  PROVE  /\ Drop(c, k) \in Seq(Pair)
         /\ Put(c, k, v, Capacity) \in Seq(Pair)
<1>1. Drop(c, k) \in Seq(Pair)
  <2>1. CASE k \in Keys(c)
    <3>1. \E i \in DOMAIN c : c[i].key = k
      BY <2>1 DEF Keys
    <3>2. Place(c, k) \in 1 .. Len(c)
      BY <3>1 DEF Place
    <3> QED
      BY <2>1, <3>2, RemoveAtProperties DEF Drop
  <2>2. CASE k \notin Keys(c)
    BY <2>2 DEF Drop
  <2> QED
    BY <2>1, <2>2
<1>2. Len(c) = Capacity => Front(c) \in Seq(Pair)
  <2> SUFFICES ASSUME Len(c) = Capacity PROVE Front(c) \in Seq(Pair)
    OBVIOUS
  <2>1. c # << >>
    BY CapacityAssumption
  <2> QED
    BY <2>1, FrontProperties, RemoveAtProperties
<1>3. PICK d : d = IF k \notin Keys(c) /\ Len(c) = Capacity THEN Front(c)
                   ELSE Drop(c, k)
  OBVIOUS
<1>4. d \in Seq(Pair) /\ [key |-> k, value |-> v] \in Pair
  BY <1>1, <1>2, <1>3 DEF Pair
<1>5. <<[key |-> k, value |-> v]>> \o d \in Seq(Pair)
  BY <1>4, PushProperties
<1> QED
  BY <1>1, <1>3, <1>5 DEF Put

(* A request that is being served is one its client may send; its key has  *)
(* a primary slave.                                                        *)
LEMMA Serving ==
  ASSUME TypeOK, NEW c \in Client, pc[c] # "idle"
  PROVE  /\ op[c] \in OpsOf[c] /\ op[c] \in Operation
         /\ op[c].key \in Key /\ op[c].value \in Value /\ op[c].kind \in Kind
         /\ Primary(c) \in Slave
<1>1. op[c] \in OpsOf[c] /\ op[c] \in Operation
  BY OpsAssumption DEF TypeOK
<1>2. op[c].key \in Key /\ op[c].value \in Value /\ op[c].kind \in Kind
  BY <1>1 DEF Operation
<1> QED
  BY <1>1, <1>2, RingAssumption DEF Primary

(* Each step keeps every variable in its type.                             *)
LEMMA TypeStep == TypeOK /\ [Next]_vars => TypeOK'
<1> SUFFICES ASSUME TypeOK, [Next]_vars PROVE TypeOK'
  OBVIOUS
<1> USE DEF At, caches
<1>1. ASSUME NEW c \in Client, NEW o \in OpsOf[c], Receive(c, o) PROVE TypeOK'
  <2>1. o \in Operation
    BY OpsAssumption
  <2> QED
    BY <1>1, <2>1 DEF Receive, TypeOK
<1>2. ASSUME NEW c \in Client, ClientLeaves(c) PROVE TypeOK'
  BY <1>2 DEF ClientLeaves, TypeOK
<1>3. ASSUME NEW c \in Client, CacheHit(c) PROVE TypeOK'
  <2>1. Primary(c) \in Slave
    BY <1>3, Serving DEF CacheHit
  <2>2. Cached(c) \subseteq Value
    <3>1. PICK d \in Seq(Pair) : d = cache[Primary(c)]
      BY <2>1 DEF TypeOK, Pair
    <3>2. \A i \in DOMAIN d : d[i] \in Pair
      BY <3>1
    <3>3. \A i \in DOMAIN d : d[i].value \in Value
      BY <3>2 DEF Pair
    <3> QED
      BY <3>1, <3>3 DEF Cached, Lookup
  <2> QED
    BY <1>3, <2>2 DEF CacheHit, TypeOK, Entry
<1>4. ASSUME NEW c \in Client, CacheMiss(c) PROVE TypeOK'
  BY <1>4 DEF CacheMiss, TypeOK, Role
<1>5. ASSUME NEW c \in Client, Route(c) PROVE TypeOK'
  <2>1. Primary(c) \in Slave
    BY <1>5, Serving DEF Route
  <2>2. Secondaries(c) \subseteq Slave \cup {Wild}
    BY <2>1, RingAssumption DEF Secondaries
  <2>3. PICK s \in Slave \cup {Wild} :
          /\ secondary' = [secondary EXCEPT ![c] = s]
          /\ RouteAstray(c) \/ RouteTo(c)
    BY <1>5, <2>2 DEF Route
  <2> QED
    <3>1. CASE RouteTo(c)
      <4>1. leg' \in [Client -> [Role -> {"none", "find", "apply", "done", "failed"}]]
        BY <3>1 DEF RouteTo, TypeOK
      <4> QED
        BY <1>5, <2>3, <3>1, <4>1 DEF Route, RouteTo, TypeOK
    <3>2. CASE RouteAstray(c)
      BY <1>5, <2>3, <3>2 DEF Route, RouteAstray, TypeOK
    <3> QED
      BY <2>3, <3>1, <3>2
<1>6. ASSUME NEW c \in Client, NEW r \in Role, LegFails(c, r) PROVE TypeOK'
  BY <1>6 DEF LegFails, TypeOK
<1>7. ASSUME NEW c \in Client, NEW r \in Role, LegFinds(c, r) PROVE TypeOK'
  <2>1. (TableAt(c, r)[op[c].key] # NoValue) \in BOOLEAN
    OBVIOUS
  <2> QED
    BY <1>7, <2>1 DEF LegFinds, TypeOK
<1>8. ASSUME NEW c \in Client, NEW r \in Role, LegApplies(c, r) PROVE TypeOK'
  <2>1. op[c].key \in Key /\ op[c].value \in Value /\ Primary(c) \in Slave
    BY <1>8, Serving DEF LegApplies
  <2>a. leg' \in [Client -> [Role -> {"none", "find", "apply", "done", "failed"}]]
    BY <1>8 DEF LegApplies, TypeOK
  <2>2. CASE r = "primary"
    <3>1. TableAt(c, r)[op[c].key] \in Entry
      BY <2>1, <2>2 DEF TableAt, Target, TypeOK
    <3>2. Written(c, r) \in Entry
      BY <2>1, <3>1, Serving, <1>8 DEF Written, Entry, LegApplies, Kind
    <3>3. Response(c) \in Entry \cup Reply
      BY <3>2, <2>2, Serving, <1>8 DEF Response, Reply, LegApplies, Kind
    <3> QED
      <4>1. /\ curr' = [curr EXCEPT ![Primary(c)][op[c].key] = Written(c, r)]
            /\ resp' = [resp EXCEPT ![c] = Response(c)] /\ prev' = prev
        BY <1>8, <2>2 DEF LegApplies, Target
      <4>2. curr' \in [Slave -> [Key -> Entry]]
        BY <2>1, <3>2, <4>1 DEF TypeOK
      <4>3. resp' \in [Client -> Entry \cup Reply \cup {Nothing}]
        BY <3>3, <4>1 DEF TypeOK
      <4> QED
        BY <1>8, <2>a, <4>1, <4>2, <4>3 DEF LegApplies, TypeOK
  <2>3. CASE r = "secondary"
    <3>1. secondary[c] \in Slave => TableAt(c, r)[op[c].key] \in Entry
      BY <2>1, <2>3 DEF TableAt, Target, TypeOK
    <3>2. secondary[c] \in Slave => Written(c, r) \in Entry
      BY <2>1, <3>1, Serving, <1>8 DEF Written, Entry, LegApplies, Kind
    <3> QED
      <4>1. /\ prev' = [prev EXCEPT ![secondary[c]][op[c].key] = Written(c, r)]
            /\ UNCHANGED <<curr, resp>>
        BY <1>8, <2>3 DEF LegApplies, Target
      <4>2. prev' \in [Slave -> [Key -> Entry]]
        <5>1. CASE secondary[c] \in Slave
          BY <2>1, <3>2, <4>1, <5>1 DEF TypeOK
        <5>2. CASE secondary[c] \notin Slave
          BY <4>1, <5>2 DEF TypeOK
        <5> QED
          BY <5>1, <5>2
      <4> QED
        BY <1>8, <2>a, <4>1, <4>2 DEF LegApplies, TypeOK
  <2> QED
    BY <2>2, <2>3 DEF Role
<1>9. ASSUME NEW c \in Client, Join(c) PROVE TypeOK'
  BY <1>9 DEF Join, TypeOK
<1>10. ASSUME NEW c \in Client, SendReply(c) PROVE TypeOK'
  BY <1>10 DEF SendReply, TypeOK, Entry
<1>11. ASSUME NEW c \in Client, CacheDelete(c) PROVE TypeOK'
  <2>1. op[c].key \in Key /\ op[c].value \in Value /\ Primary(c) \in Slave
    BY <1>11, Serving DEF CacheDelete
  <2>2. Drop(cache[Primary(c)], op[c].key) \in Seq(Pair)
    BY <2>1, CacheTypes DEF TypeOK, Pair
  <2>3. cache' \in [Slave -> Seq(Pair)]
    BY <1>11, <2>2 DEF CacheDelete, CacheLeave, TypeOK, Pair
  <2> QED
    BY <1>11, <2>3 DEF CacheDelete, CacheLeave, Afterwards, TypeOK, Pair
<1>12. ASSUME NEW c \in Client, CachePut(c) PROVE TypeOK'
  <2>1. op[c].key \in Key /\ op[c].value \in Value /\ Primary(c) \in Slave
    BY <1>12, Serving DEF CachePut
  <2>2. Put(cache[Primary(c)], op[c].key, op[c].value, Capacity) \in Seq(Pair)
    BY <2>1, CacheTypes DEF TypeOK, Pair
  <2>3. cache' \in [Slave -> Seq(Pair)]
    BY <1>12, <2>2 DEF CachePut, CacheLeave, TypeOK, Pair
  <2> QED
    BY <1>12, <2>3 DEF CachePut, CacheLeave, Afterwards, TypeOK, Pair
<1>14. ASSUME NEW c \in Client, CacheRace(c) PROVE TypeOK'
  <2>1. Primary(c) \in Slave
    BY <1>14, Serving DEF CacheRace
  <2>0. \/ leg' = leg
        \/ leg' = [leg EXCEPT ![c]["primary"] = "find"]
    BY <1>14 DEF CacheRace
  <2>2. leg' \in [Client -> [Role -> {"none", "find", "apply", "done", "failed"}]]
    <3>1. leg \in [Client -> [Role -> {"none", "find", "apply", "done", "failed"}]]
      BY DEF TypeOK
    <3>2. CASE leg' = [leg EXCEPT ![c]["primary"] = "find"]
      BY <3>1, <3>2 DEF Role
    <3> QED
      BY <2>0, <3>1, <3>2
  <2>3. resp' \in [Client -> Entry \cup Reply \cup {Nothing}]
    BY <1>14 DEF CacheRace, TypeOK, Entry
  <2> QED
    BY <1>14, <2>1, <2>2, <2>3 DEF CacheRace, TypeOK
<1>15. ASSUME NEW c \in Client, CacheEnter(c) PROVE TypeOK'
  <2>1. Primary(c) \in Slave
    BY <1>15, Serving DEF CacheEnter
  <2> QED
    BY <1>15, <2>1 DEF CacheEnter, TypeOK
<1>16. ASSUME NEW c \in Client, CacheBreaks(c) PROVE TypeOK'
  BY <1>16 DEF CacheBreaks, TypeOK
<1>13. CASE UNCHANGED vars
  BY <1>13 DEF vars, TypeOK
<1> QED
  BY <1>1, <1>2, <1>3, <1>4, <1>5, <1>6, <1>7, <1>8, <1>9, <1>10, <1>11,
     <1>12, <1>13, <1>14, <1>15, <1>16 DEF Next, Step

(* Empty tables and caches, and clients that have sent nothing.            *)
LEMMA InitType == Init => TypeOK
  BY RingAssumption DEF Init, TypeOK, Entry

(* Tables, caches, requests and answers keep their types, whichever slaves *)
(* can be reached and whatever the clients send.                           *)
THEOREM ServiceTypeCorrect == Spec => []TypeOK
  BY InitType, TypeStep, PTL DEF Spec
----------------------------------------------------------------------------
(***************************************************************************)
(* The step of one client leaves what the others hold alone.               *)
(***************************************************************************)
Same(c) ==
  /\ pc'[c] = pc[c] /\ op'[c] = op[c] /\ secondary'[c] = secondary[c]
  /\ leg'[c] = leg[c] /\ seen'[c] = seen[c]
  /\ resp'[c] = resp[c] /\ answer'[c] = answer[c]

Act(c) == Step(c) \/ ClientLeaves(c) \/ \E o \in OpsOf[c] : Receive(c, o)

(* Who does not take the step keeps its request, its legs and its answer.  *)
LEMMA OthersStep ==
  ASSUME TypeOK, NEW c \in Client, NEW d \in Client, c # d, Act(d)
  PROVE  Same(c)
<1> USE DEF TypeOK, At, Same
<1>1. ASSUME NEW o, Receive(d, o) PROVE Same(c)
  BY <1>1 DEF Receive
<1>2. CASE ClientLeaves(d)
  BY <1>2 DEF ClientLeaves
<1>3. CASE CacheHit(d)
  BY <1>3 DEF CacheHit
<1>4. CASE CacheMiss(d)
  BY <1>4 DEF CacheMiss
<1>5. CASE Route(d)
  BY <1>5 DEF Route, RouteTo, RouteAstray
<1>6. ASSUME NEW r \in Role, LegFails(d, r) PROVE Same(c)
  BY <1>6 DEF LegFails
<1>7. ASSUME NEW r \in Role, LegFinds(d, r) PROVE Same(c)
  BY <1>7 DEF LegFinds
<1>8. ASSUME NEW r \in Role, LegApplies(d, r) PROVE Same(c)
  BY <1>8 DEF LegApplies
<1>9. CASE Join(d)
  BY <1>9 DEF Join
<1>10. CASE SendReply(d)
  BY <1>10 DEF SendReply
<1>11. CASE CacheDelete(d)
  BY <1>11 DEF CacheDelete, CacheLeave
<1>12. CASE CachePut(d)
  BY <1>12 DEF CachePut, CacheLeave
<1>13. CASE CacheRace(d)
  BY <1>13 DEF CacheRace
<1>14. CASE CacheEnter(d)
  BY <1>14 DEF CacheEnter
<1>15. CASE CacheBreaks(d)
  BY <1>15 DEF CacheBreaks
<1> QED
  BY <1>1, <1>2, <1>3, <1>4, <1>5, <1>6, <1>7, <1>8, <1>9, <1>10, <1>11,
     <1>12, <1>13, <1>14, <1>15 DEF Act, Step

(* The tables change in one step alone, and at one place: where a leg of a *)
(* client's request puts what the handler makes of the key.                *)
LEMMA TableStep ==
  ASSUME TypeOK, NEW c \in Client, Act(c)
  PROVE  \/ UNCHANGED <<curr, prev>>
         \/ LegApplies(c, "primary") \/ LegApplies(c, "secondary")
<1> SUFFICES ASSUME ~LegApplies(c, "primary"), ~LegApplies(c, "secondary")
             PROVE  UNCHANGED <<curr, prev>>
  OBVIOUS
<1>1. \A r \in Role : ~LegApplies(c, r)
  BY DEF Role
<1> QED
  BY <1>1 DEF Act, Step, Receive, ClientLeaves, CacheHit, CacheMiss, Route,
     LegFails, LegFinds, Join, SendReply, CacheDelete, CachePut, CacheLeave,
     CacheRace, CacheEnter, CacheBreaks

(* What a leg puts is a value, or what was there, unless it deletes.       *)
LEMMA WrittenStays ==
  ASSUME TypeOK, NEW c \in Client, NEW r \in Role, LegApplies(c, r),
         op[c].kind # "delete"
  PROVE  /\ TableAt(c, r)[op[c].key] # NoValue => Written(c, r) # NoValue
         /\ op[c].kind = "update" => Written(c, r) # NoValue
         /\ op[c].kind = "put" /\ ~seen[c][r] => Written(c, r) # NoValue
<1>1. op[c].value \in Value /\ op[c].kind \in Kind
  BY Serving DEF LegApplies
<1>2. NoValue \notin Value /\ NoValue # Blank
  BY MarkerAssumption
<1> QED
  BY <1>1, <1>2 DEF Written, Kind
----------------------------------------------------------------------------
(***************************************************************************)
(* An acknowledged write is on both slaves, while nobody deletes.          *)
(***************************************************************************)
NobodyDeletes == \A c \in Client : \A o \in OpsOf[c] : o.kind # "delete"

On(c, r) == TableAt(c, r)[op[c].key] # NoValue

Writes(c) == op[c].kind \in {"put", "update"}

OnBoth(c) ==
  /\ On(c, "primary")
  /\ secondary[c] \in Slave
  /\ secondary[c] \in Unreachable \/ On(c, "secondary")

(* How far a write is: what a leg has found stays on its slave, what it    *)
(* has applied is there, only the primary's leg fills the response.        *)
LegsRight(c) ==
  /\ secondary[c] \in Slave
  /\ \A r \in Role :
       /\ leg[c][r] # "none"
       /\ leg[c][r] = "apply" /\ seen[c][r] => On(c, r)
       /\ leg[c][r] = "done" => On(c, r)
       /\ leg[c][r] = "failed" => Target(c, r) \in Unreachable
  /\ resp[c] # Nothing => leg[c]["primary"] = "done"

AckRight(c) ==
  /\ pc[c] = "lookup" => op[c].kind = "get"
  /\ pc[c] \in {"lookup", "route", "legs", "reply"} => answer[c] = Nothing
  /\ pc[c] \in {"idle", "lookup", "route", "cachedelete", "cacheput"}
       => resp[c] = Nothing
  /\ pc[c] = "legs" /\ Writes(c) => LegsRight(c)
  /\ pc[c] = "reply" /\ Writes(c) /\ resp[c] # Nothing => OnBoth(c)
  /\ answer[c] # Nothing => op[c] \in OpsOf[c]
  /\ answer[c] \in Reply /\ Writes(c) => OnBoth(c)

AckInv == TypeOK /\ \A c \in Client : AckRight(c)

(* While nobody deletes, a key that a slave has, it keeps.                 *)
LEMMA TablesKeep ==
  ASSUME TypeOK, NobodyDeletes, NEW c \in Client, Act(c),
         NEW s \in Slave, NEW k \in Key
  PROVE  /\ curr[s][k] # NoValue => curr'[s][k] # NoValue
         /\ prev[s][k] # NoValue => prev'[s][k] # NoValue
<1>1. ASSUME NEW r \in Role, LegApplies(c, r)
      PROVE  op[c].kind # "delete"
  BY <1>1, Serving DEF LegApplies, NobodyDeletes
<1>2. CASE LegApplies(c, "primary")
  <2>1. /\ curr' = [curr EXCEPT ![Primary(c)][op[c].key] = Written(c, "primary")]
        /\ prev' = prev
    BY <1>2 DEF LegApplies, Target
  <2>2. curr[Primary(c)][op[c].key] # NoValue => Written(c, "primary") # NoValue
    BY <1>1, <1>2, WrittenStays DEF TableAt, Target, Role
  <2> QED
    BY <2>1, <2>2 DEF TypeOK
<1>3. CASE LegApplies(c, "secondary")
  <2>1. /\ prev' = [prev EXCEPT ![secondary[c]][op[c].key]
                     = Written(c, "secondary")]
        /\ curr' = curr
    BY <1>3 DEF LegApplies, Target
  <2>2. prev[secondary[c]][op[c].key] # NoValue => Written(c, "secondary") # NoValue
    BY <1>1, <1>3, WrittenStays DEF TableAt, Target, Role
  <2> QED
    BY <2>1, <2>2 DEF TypeOK
<1> QED
  BY <1>2, <1>3, TableStep

(* What another client does keeps a client's write where it is.            *)
LEMMA AckSame ==
  ASSUME AckInv, NobodyDeletes, NEW d \in Client, Act(d),
         NEW c \in Client, Same(c)
  PROVE  AckRight(c)'
<1>a. TypeOK /\ AckRight(c)
  BY DEF AckInv
<1>1. ASSUME NEW r \in Role, op[c] \in Operation, On(c, r),
             Target(c, r) \in Slave
      PROVE  On(c, r)'
  <2>1. op[c].key \in Key
    BY <1>1 DEF Operation
  <2>2. Target(c, r)' = Target(c, r) /\ op'[c].key = op[c].key
    BY DEF Same, Target, Primary
  <2> QED
    BY <1>a, <1>1, <2>1, <2>2, TablesKeep DEF On, TableAt
<1>2. Primary(c)' = Primary(c) /\ secondary'[c] = secondary[c]
  BY DEF Same, Primary
<1>3. ASSUME op[c] \in Operation PROVE Primary(c) \in Slave
  BY <1>3, RingAssumption DEF Primary, Operation
<1>4. ASSUME op[c] \in Operation, LegsRight(c) PROVE LegsRight(c)'
  <2>1. ASSUME NEW r \in Role PROVE Target(c, r) \in Slave
    BY <1>3, <1>4 DEF Target, LegsRight
  <2>2. \A r \in Role : Target(c, r)' = Target(c, r)
    BY <1>2 DEF Target
  <2> QED
    BY <1>1, <1>4, <2>1, <2>2 DEF LegsRight, Same
<1>5. ASSUME op[c] \in Operation, OnBoth(c)
      PROVE  OnBoth(c)'
  <2>1. On(c, "primary")'
    BY <1>1, <1>3, <1>5 DEF OnBoth, Target, Role
  <2>2. CASE secondary[c] \in Unreachable
    BY <1>2, <1>5, <2>1, <2>2 DEF OnBoth
  <2>3. CASE secondary[c] \notin Unreachable
    <3>1. On(c, "secondary")'
      BY <1>1, <1>5, <2>3 DEF OnBoth, Target, Role
    <3> QED
      BY <1>2, <1>5, <2>1, <3>1 DEF OnBoth
  <2> QED
    BY <2>2, <2>3
<1>6. /\ pc[c] # "idle" => op[c] \in Operation
      /\ answer[c] # Nothing => op[c] \in Operation
  BY <1>a, OpsAssumption DEF TypeOK, AckRight
<1>7. Nothing \notin Reply
  BY MarkerAssumption
<1> QED
  BY <1>a, <1>4, <1>5, <1>6, <1>7 DEF AckRight, Writes, Same

(* A client's own step keeps its write on its way to both slaves.          *)
LEMMA AckOwn ==
  ASSUME AckInv, NobodyDeletes, NEW c \in Client, Act(c)
  PROVE  AckRight(c)'
<1>a. TypeOK /\ AckRight(c)
  BY DEF AckInv
<1>b. ASSUME UNCHANGED <<curr, prev, op, secondary>>
      PROVE  OnBoth(c)' = OnBoth(c) /\ \A r \in Role : On(c, r)' = On(c, r)
  BY <1>b DEF OnBoth, On, TableAt, Target, Primary
<1>c. pc[c] # "idle" => op[c] \in Operation /\ Primary(c) \in Slave
  BY <1>a, Serving
<1>n. Nothing \notin Reply
  BY MarkerAssumption
<1> USE DEF TypeOK, At
<1>1. ASSUME NEW o \in OpsOf[c], Receive(c, o) PROVE AckRight(c)'
  BY <1>a, <1>1, <1>n DEF Receive, AckRight, Writes
<1>2. CASE ClientLeaves(c)
  BY <1>a, <1>2, <1>n DEF ClientLeaves, AckRight, Writes, OnBoth, LegsRight, On,
     TableAt, Target, Primary
<1>3. CASE CacheHit(c)
  BY <1>a, <1>3, <1>n DEF CacheHit, AckRight, Writes
<1>4. CASE CacheMiss(c)
  BY <1>a, <1>4, <1>n DEF CacheMiss, AckRight, Writes
<1>5. CASE Route(c)
  <2>1. PICK s \in Secondaries(c) :
          /\ secondary' = [secondary EXCEPT ![c] = s]
          /\ IF s = Wild THEN RouteAstray(c) ELSE RouteTo(c)
    BY <1>5 DEF Route
  <2>2. pc[c] = "route" /\ UNCHANGED <<op, seen, resp, answer>>
    BY <1>5 DEF Route
  <2>3. CASE s = Wild
    BY <1>a, <2>1, <2>2, <2>3, <1>n DEF RouteAstray, AckRight, Writes
  <2>4. CASE s # Wild
    <3>1. s \in Slave
      BY <1>c, <2>1, <2>2, <2>4, RingAssumption DEF Secondaries
    <3>2. /\ pc'[c] = "legs" /\ leg'[c] = [r \in Role |-> "find"]
          /\ secondary'[c] = s
      BY <1>a, <2>1, <2>4 DEF RouteTo
    <3>3. LegsRight(c)'
      BY <1>a, <2>2, <3>1, <3>2 DEF LegsRight, AckRight
    <3> QED
      BY <1>a, <2>2, <3>2, <3>3, <1>n DEF AckRight, Writes
  <2> QED
    BY <2>3, <2>4
<1>6. ASSUME NEW r \in Role, LegFails(c, r) PROVE AckRight(c)'
  <2>1. /\ pc[c] = "legs" /\ leg[c][r] = "find" /\ Target(c, r) \in Unreachable
        /\ leg' = [leg EXCEPT ![c][r] = "failed"]
        /\ UNCHANGED <<curr, prev, pc, op, secondary, seen, resp, answer>>
    BY <1>6 DEF LegFails
  <2>2. \A q \in Role : Target(c, q)' = Target(c, q) /\ On(c, q)' = On(c, q)
    BY <1>b, <2>1 DEF Target, Primary
  <2>3. LegsRight(c) => LegsRight(c)'
    BY <1>a, <2>1, <2>2 DEF LegsRight
  <2> QED
    BY <1>a, <2>1, <2>3, <1>n DEF AckRight, Writes
<1>7. ASSUME NEW r \in Role, LegFinds(c, r) PROVE AckRight(c)'
  <2>1. /\ pc[c] = "legs" /\ leg[c][r] = "find"
        /\ leg' = [leg EXCEPT ![c][r] = "apply"]
        /\ seen' = [seen EXCEPT ![c][r] = On(c, r)]
        /\ UNCHANGED <<curr, prev, pc, op, secondary, resp, answer>>
    BY <1>7 DEF LegFinds, On
  <2>2. \A q \in Role : Target(c, q)' = Target(c, q) /\ On(c, q)' = On(c, q)
    BY <1>b, <2>1 DEF Target, Primary
  <2>3. ASSUME LegsRight(c) PROVE LegsRight(c)'
    <3>1. ASSUME NEW q \in Role
          PROVE  /\ leg'[c][q] = IF q = r THEN "apply" ELSE leg[c][q]
                 /\ q # r => seen'[c][q] = seen[c][q]
                 /\ q = r /\ seen'[c][q] => On(c, q)
      BY <1>a, <2>1
    <3>2. leg'[c]["primary"] = "done" <=> leg[c]["primary"] = "done"
      BY <2>1, <3>1 DEF Role
    <3> QED
      BY <2>1, <2>2, <2>3, <3>1, <3>2 DEF LegsRight
  <2> QED
    BY <1>a, <2>1, <2>3, <1>n DEF AckRight, Writes
<1>8. ASSUME NEW r \in Role, LegApplies(c, r) PROVE AckRight(c)'
  <2>1. /\ pc[c] = "legs" /\ leg[c][r] = "apply"
        /\ leg' = [leg EXCEPT ![c][r] = "done"]
        /\ UNCHANGED <<pc, op, secondary, seen, answer>>
        /\ r = "secondary" => UNCHANGED <<curr, resp>>
        /\ r = "primary" => UNCHANGED prev
    BY <1>8 DEF LegApplies
  <2>2. \A q \in Role : Target(c, q)' = Target(c, q)
    BY <2>1 DEF Target, Primary
  <2>3. ASSUME LegsRight(c), Writes(c) PROVE LegsRight(c)'
    <3>1. \A q \in Role : Target(c, q) \in Slave
      BY <1>c, <2>1, <2>3 DEF LegsRight, Target
    <3>2. op[c].key \in Key /\ op[c].kind # "delete"
      BY <1>c, <2>1, <2>3 DEF Operation, Writes
    <3>3. \A q \in Role : On(c, q) => On(c, q)'
      BY <1>a, <2>1, <2>2, <3>1, <3>2, TablesKeep DEF On, TableAt
    <3>4. Written(c, r) # NoValue
      <4>1. seen[c][r] => On(c, r)
        BY <2>1, <2>3 DEF LegsRight
      <4> QED
        BY <1>a, <1>8, <2>3, <3>2, <4>1, WrittenStays DEF On, Writes
    <3>5. On(c, r)'
      <4>1. CASE r = "primary"
        <5>1. curr'[Target(c, r)][op[c].key] = Written(c, r)
          BY <1>a, <1>8, <3>1, <3>2, <4>1 DEF LegApplies
        <5> QED
          BY <2>1, <2>2, <3>4, <4>1, <5>1 DEF On, TableAt
      <4>2. CASE r = "secondary"
        <5>1. prev'[Target(c, r)][op[c].key] = Written(c, r)
          BY <1>a, <1>8, <3>1, <3>2, <4>2 DEF LegApplies
        <5> QED
          BY <2>1, <2>2, <3>4, <4>2, <5>1 DEF On, TableAt
      <4> QED
        BY <4>1, <4>2 DEF Role
    <3>6. ASSUME NEW q \in Role
          PROVE  leg'[c][q] = IF q = r THEN "done" ELSE leg[c][q]
      BY <1>a, <2>1
    <3>7. resp'[c] # Nothing => leg'[c]["primary"] = "done"
      BY <2>1, <2>3, <3>6 DEF LegsRight, Role
    <3> QED
      BY <2>1, <2>2, <2>3, <3>3, <3>5, <3>6, <3>7 DEF LegsRight
  <2> QED
    BY <1>a, <2>1, <2>3, <1>n DEF AckRight, Writes
<1>9. CASE Join(c)
  <2>1. /\ pc[c] = "legs" /\ pc'[c] \in {"reply", "ignored"}
        /\ \A r \in Role : leg[c][r] \in {"none", "done", "failed"}
        /\ UNCHANGED <<curr, prev, op, secondary, resp, answer>>
    BY <1>a, <1>9 DEF Join
  <2>2. ASSUME LegsRight(c), resp[c] # Nothing PROVE OnBoth(c)
    <3>1. On(c, "primary") /\ secondary[c] \in Slave
      BY <2>2 DEF LegsRight, Role
    <3>2. leg[c]["secondary"] \in {"done", "failed"}
      BY <2>1, <2>2 DEF LegsRight, Role
    <3> QED
      BY <2>2, <3>1, <3>2 DEF LegsRight, OnBoth, Target, Role
  <2> QED
    BY <1>a, <1>b, <2>1, <2>2, <1>n DEF AckRight, Writes
<1>10. CASE SendReply(c)
  <2>1. /\ pc[c] = "reply" /\ pc'[c] \in {"idle", "cacheput", "cachedelete"}
        /\ answer'[c] \in (IF resp[c] = Nothing THEN {Nothing, Blank} ELSE {resp[c]})
        /\ resp'[c] = Nothing
        /\ UNCHANGED <<curr, prev, op, secondary>>
    BY <1>a, <1>10 DEF SendReply
  <2>2. answer'[c] \in Reply => resp[c] # Nothing
    BY <2>1, MarkerAssumption
  <2>3. op[c] \in OpsOf[c]
    BY <1>a, <2>1 DEF TypeOK
  <2> QED
    BY <1>a, <1>b, <2>1, <2>2, <2>3, <1>n DEF AckRight, Writes
<1>11. CASE CacheDelete(c) \/ CachePut(c) \/ CacheEnter(c) \/ CacheBreaks(c)
  <2>1. /\ pc[c] \in {"cachedelete", "cacheput"}
        /\ pc'[c] \in {"idle", "ignored", "cacheput", "hung", pc[c]}
        /\ UNCHANGED <<curr, prev, op, secondary, resp, answer>>
    BY <1>a, <1>11 DEF CacheDelete, CachePut, CacheLeave, CacheEnter,
       CacheBreaks, Afterwards
  <2> QED
    BY <1>a, <1>b, <2>1, <1>n DEF AckRight, Writes
<1>12. CASE CacheRace(c)
  <2>1. /\ pc[c] = "lookup" /\ pc'[c] \in {"reply", "legs", "hung"}
        /\ UNCHANGED <<op, answer>>
    BY <1>a, <1>12 DEF CacheRace
  <2> QED
    BY <1>a, <2>1, MarkerAssumption, <1>n DEF AckRight, Writes
<1> QED
  BY <1>1, <1>2, <1>3, <1>4, <1>5, <1>6, <1>7, <1>8, <1>9, <1>10, <1>11, <1>12
     DEF Act, Step

(* Nobody has sent anything.                                               *)
LEMMA InitAck == Init => AckInv
  BY InitType, MarkerAssumption DEF Init, AckInv, AckRight

(* Every step, of whichever client, keeps every client's writes safe.      *)
LEMMA AckStep == NobodyDeletes /\ AckInv /\ [Next]_vars => AckInv'
<1> SUFFICES ASSUME NobodyDeletes, AckInv, [Next]_vars PROVE AckInv'
  OBVIOUS
<1>1. TypeOK /\ TypeOK'
  BY TypeStep DEF AckInv
<1>2. ASSUME NEW c \in Client PROVE AckRight(c)'
  <2>1. CASE UNCHANGED vars
    BY <2>1 DEF vars, AckInv, AckRight, LegsRight, OnBoth, On, Writes, TableAt,
       Target, Primary
  <2>2. ASSUME NEW d \in Client, Act(d) PROVE AckRight(c)'
    <3>1. CASE c = d
      BY <2>2, <3>1, AckOwn
    <3>2. CASE c # d
      BY <1>1, <2>2, <3>2, OthersStep, AckSame
    <3> QED
      BY <3>1, <3>2
  <2> QED
    BY <2>1, <2>2 DEF Next, Act
<1> QED
  BY <1>1, <1>2 DEF AckInv

(* Whatever the requests of the clients interleave like, and whichever     *)
(* slaves cannot be reached: a put or update that was answered has left    *)
(* its key on the primary slave and, if that can be reached, on the        *)
(* secondary one, as long as nobody deletes (put_update_delete_handle,     *)
(* which joins both legs before it answers).                               *)
THEOREM AckedOnBothSlaves ==
  ASSUME NobodyDeletes
  PROVE  Spec => []AckedOnBoth
<1>1. Init => AckInv
  BY InitAck
<1>2. AckInv /\ [Next]_vars => AckInv'
  BY AckStep
<1>3. AckInv => AckedOnBoth
  BY DEF AckInv, AckRight, AckedOnBoth, OnBoth, On, Writes, TableAt, Target
<1> QED
  BY <1>1, <1>2, <1>3, PTL DEF Spec
----------------------------------------------------------------------------
(***************************************************************************)
(* Clients that share no key and do not put, with every slave reachable:   *)
(* cache, backup and answers all agree with the primary slave.             *)
(***************************************************************************)
Separate ==
  \A c, d \in Client : c # d =>
    \A o \in OpsOf[c], p \in OpsOf[d] : o.key # p.key

NobodyPuts == \A c \in Client : \A o \in OpsOf[c] : o.kind # "put"

Alone == Separate /\ NobodyPuts /\ Unreachable = {}

Writing(c) == op[c].kind # "get"

(* What an update or a delete leaves of its key.                           *)
Final(c) == IF op[c].kind = "update" THEN op[c].value ELSE NoValue

(* What the legs of a request have done so far.                            *)
LegsAgree(c) ==
  /\ Writing(c) => /\ secondary[c] \in Slave
                   /\ Primary(c) # LastSlave =>
                        secondary[c] = NextSlave[Primary(c)]
  /\ leg[c]["primary"] \in {"find", "apply", "done"}
  /\ leg[c]["secondary"] \in (IF Writing(c) THEN {"find", "apply", "done"}
                                            ELSE {"none"})
  /\ \A r \in Role :
       /\ leg[c][r] = "apply" => seen[c][r] = On(c, r)
       /\ leg[c][r] = "done" /\ Writing(c) =>
            TableAt(c, r)[op[c].key] = Final(c)
  /\ resp[c] # Nothing <=> leg[c]["primary"] = "done"

(* Both slaves hold what the request leaves.                               *)
BothFinal(c) ==
  LET p == Primary(c)
      k == op[c].key
  IN /\ curr[p][k] = Final(c)
     /\ p # LastSlave => prev[NextSlave[p]][k] = Final(c)

ClientRight(c) ==
  /\ pc[c] \in {"idle", "lookup", "route", "cachedelete", "cacheput"}
       => resp[c] = Nothing
  /\ pc[c] \in {"idle", "lookup", "cachedelete", "cacheput"}
       => leg[c]["secondary"] = "none"
  /\ pc[c] = "lookup" => ~Writing(c)
  /\ pc[c] \in {"route", "cachedelete", "cacheput"} => Writing(c)
  /\ pc[c] = "cacheput" => op[c].kind = "update"
  /\ pc[c] = "legs" => LegsAgree(c)
  /\ pc[c] = "reply" => resp[c] # Nothing
  /\ pc[c] \in {"reply", "cachedelete", "cacheput"} /\ Writing(c)
       => BothFinal(c)

(* A write of key k is on its way to the slaves, or to the cache.          *)
Pending(k, where) ==
  \E c \in Client : pc[c] \in where /\ Writing(c) /\ op[c].key = k

(* Each cache that is not torn holds a key of its own slave once, with the *)
(* slave's value.                                                          *)
CacheRight(s) ==
  s \notin torn =>
    /\ OneEach(cache[s])
    /\ \A e \in Range(cache[s]) :
         /\ PrimaryOf[e.key] = s
         /\ \/ curr[s][e.key] = e.value
            \/ Pending(e.key, {"legs", "reply", "cachedelete", "cacheput"})

(* The secondary table of the next slave holds what the primary holds.     *)
BackupRight(k) ==
  LET p == PrimaryOf[k] IN
  p # LastSlave => prev[NextSlave[p]][k] = curr[p][k] \/ Pending(k, {"legs"})

AloneInv ==
  /\ TypeOK
  /\ \A c \in Client : ClientRight(c)
  /\ \A s \in Slave : CacheRight(s)
  /\ \A k \in Key : BackupRight(k)

(* A step changes the tables at no other key than its request's.           *)
LEMMA OneKey ==
  ASSUME TypeOK, NEW d \in Client, Act(d),
         NEW s \in Slave, NEW k \in Key, k # op[d].key
  PROVE  curr'[s][k] = curr[s][k] /\ prev'[s][k] = prev[s][k]
<1>1. CASE LegApplies(d, "primary")
  <2>1. \E v : curr' = [curr EXCEPT ![Primary(d)][op[d].key] = v] /\ prev' = prev
    BY <1>1 DEF LegApplies, Target
  <2> QED
    BY <2>1 DEF TypeOK
<1>2. CASE LegApplies(d, "secondary")
  <2>1. \E v : prev' = [prev EXCEPT ![secondary[d]][op[d].key] = v] /\ curr' = curr
    BY <1>2 DEF LegApplies, Target
  <2> QED
    BY <2>1 DEF TypeOK
<1> QED
  BY <1>1, <1>2, TableStep

(* Two requests that are being served are about different keys.            *)
LEMMA OtherKey ==
  ASSUME TypeOK, Separate, NEW c \in Client, NEW d \in Client, c # d,
         pc[c] # "idle", pc[d] # "idle"
  PROVE  op[c].key # op[d].key
<1>1. op[c] \in OpsOf[c] /\ op[d] \in OpsOf[d]
  BY Serving
<1> QED
  BY <1>1 DEF Separate

(* What another client does leaves a client's request right.               *)
LEMMA AloneSame ==
  ASSUME AloneInv, Alone, NEW d \in Client, Act(d),
         NEW c \in Client, c # d, Same(c)
  PROVE  ClientRight(c)'
<1>a. TypeOK /\ ClientRight(c) /\ Separate
  BY DEF AloneInv, Alone
<1>b. /\ Writing(c)' = Writing(c) /\ Final(c)' = Final(c)
      /\ Primary(c)' = Primary(c) /\ \A r \in Role : Target(c, r)' = Target(c, r)
  BY DEF Same, Writing, Final, Primary, Target
<1>1. CASE pc[c] = "idle"
  BY <1>a, <1>1 DEF ClientRight, Same
<1>2. CASE pc[c] # "idle"
  <2>1. op[c].key \in Key /\ Primary(c) \in Slave
    BY <1>a, <1>2, Serving
  <2>2. ASSUME NEW s \in Slave
        PROVE  /\ curr'[s][op[c].key] = curr[s][op[c].key]
               /\ prev'[s][op[c].key] = prev[s][op[c].key]
    <3>1. CASE pc[d] = "idle"
      BY <1>a, <3>1, TableStep DEF LegApplies
    <3>2. CASE pc[d] # "idle"
      BY <1>2, <1>a, <2>1, <3>2, OtherKey, OneKey
    <3> QED
      BY <3>1, <3>2
  <2>3. BothFinal(c) => BothFinal(c)'
    BY <1>b, <2>1, <2>2, RingAssumption DEF BothFinal, Same
  <2>4. ASSUME NEW r \in Role, Target(c, r) \in Slave
        PROVE  TableAt(c, r)'[op[c].key] = TableAt(c, r)[op[c].key]
    BY <1>b, <2>2, <2>4 DEF TableAt
  <2>5. ASSUME LegsAgree(c) PROVE LegsAgree(c)'
    <3>1. /\ Target(c, "primary") \in Slave
          /\ Writing(c) => Target(c, "secondary") \in Slave
      BY <2>1, <2>5 DEF LegsAgree, Target
    <3>2. ASSUME NEW r \in Role
          PROVE  /\ leg[c][r] = "apply" => seen[c][r] = On(c, r)'
                 /\ leg[c][r] = "done" /\ Writing(c) =>
                      TableAt(c, r)'[op[c].key] = Final(c)
      <4>1. leg[c][r] # "none" => Target(c, r) \in Slave
        BY <2>5, <3>1 DEF LegsAgree, Role
      <4>2. op'[c] = op[c]
        BY DEF Same
      <4> QED
        BY <2>4, <2>5, <4>1, <4>2 DEF LegsAgree, On
    <3> QED
      BY <1>b, <2>5, <3>2 DEF LegsAgree, Same
  <2> QED
    BY <1>a, <1>b, <2>3, <2>5 DEF ClientRight, Same
<1> QED
  BY <1>1, <1>2

(* What a leg puts, and what the primary's leg answers.                    *)
LEMMA WrittenIs ==
  ASSUME AloneInv, Alone, NEW c \in Client, NEW r \in Role, LegApplies(c, r)
  PROVE  /\ op[c].kind \in {"get", "update", "delete"}
         /\ LegsAgree(c) /\ seen[c][r] = On(c, r)
         /\ Writing(c) => Written(c, r) = Final(c)
         /\ ~Writing(c) => Written(c, r) = TableAt(c, r)[op[c].key]
         /\ r = "primary" => Response(c) # Nothing
<1>a. TypeOK /\ ClientRight(c)
  BY DEF AloneInv
<1>1. pc[c] = "legs" /\ leg[c][r] = "apply"
  BY DEF LegApplies
<1>2. op[c] \in OpsOf[c] /\ op[c].kind \in Kind /\ op[c].key \in Key
  BY <1>a, <1>1, Serving
<1>3. op[c].kind \in {"get", "update", "delete"}
  BY <1>2 DEF Alone, NobodyPuts, Kind
<1>4. LegsAgree(c) /\ seen[c][r] = On(c, r)
  BY <1>a, <1>1 DEF ClientRight, LegsAgree
<1>5. Writing(c) => Written(c, r) = Final(c)
  BY <1>3, <1>4 DEF Writing, Written, Final, On
<1>6. ~Writing(c) => Written(c, r) = TableAt(c, r)[op[c].key]
  BY <1>3, <1>4 DEF Writing, Written, On
<1>7. ASSUME r = "primary" PROVE Response(c) # Nothing
  <2>1. TableAt(c, r)[op[c].key] \in Entry
    <3>1. Primary(c) \in Slave
      BY <1>a, <1>1, Serving
    <3> QED
      BY <1>2, <1>7, <1>a, <3>1 DEF TableAt, Target, TypeOK
  <2>2. CASE op[c].kind = "get"
    BY <1>4, <1>6, <1>7, <2>1, <2>2, MarkerAssumption
       DEF Response, On, Writing, Entry, Reply
  <2>3. CASE op[c].kind # "get"
    BY <1>3, <2>3, MarkerAssumption DEF Response, Reply
  <2> QED
    BY <2>2, <2>3
<1> QED
  BY <1>3, <1>4, <1>5, <1>6, <1>7

(* A client's own step leaves its request right.                           *)
LEMMA AloneOwn ==
  ASSUME AloneInv, Alone, NEW c \in Client, Act(c)
  PROVE  ClientRight(c)'
<1>a. TypeOK /\ ClientRight(c) /\ Unreachable = {} /\ NobodyPuts
  BY DEF AloneInv, Alone
<1>b. ASSUME UNCHANGED <<curr, prev, op>>
      PROVE  BothFinal(c)' = BothFinal(c) /\ Writing(c)' = Writing(c)
  BY <1>b DEF BothFinal, Final, Writing, Primary
<1>c. pc[c] # "idle" =>
        /\ op[c] \in OpsOf[c] /\ op[c].kind \in {"get", "update", "delete"}
        /\ op[c].key \in Key /\ Primary(c) \in Slave
  <2>1. pc[c] # "idle" => op[c] \in OpsOf[c] /\ op[c].kind \in Kind
                          /\ op[c].key \in Key /\ Primary(c) \in Slave
    BY <1>a, Serving
  <2> QED
    BY <1>a, <2>1 DEF NobodyPuts, Kind
<1> USE DEF TypeOK, At
<1>1. ASSUME NEW o \in OpsOf[c], Receive(c, o) PROVE ClientRight(c)'
  BY <1>a, <1>1 DEF Receive, ClientRight, Writing
<1>2. CASE ClientLeaves(c)
  BY <1>a, <1>b, <1>2 DEF ClientLeaves, ClientRight
<1>3. CASE CacheHit(c)
  <2>1. PICK v \in Cached(c) : resp' = [resp EXCEPT ![c] = v]
    BY <1>3 DEF CacheHit
  <2>2. pc[c] = "lookup"
    BY <1>3 DEF CacheHit
  <2>3. PICK d \in Seq(Pair) : d = cache[Primary(c)]
    BY <1>a, <1>c, <2>2 DEF Pair
  <2>4. \A i \in DOMAIN d : d[i] \in Pair
    BY <2>3
  <2>5. v \in Value
    BY <2>1, <2>3, <2>4 DEF Cached, Lookup, Pair
  <2>6. resp'[c] # Nothing
    BY <1>a, <2>1, <2>5, MarkerAssumption
  <2> QED
    BY <1>a, <1>3, <2>6 DEF CacheHit, ClientRight, Writing
<1>4. CASE CacheMiss(c)
  <2>1. /\ pc[c] = "lookup" /\ pc'[c] = "legs" /\ UNCHANGED <<op, resp>>
        /\ leg'[c]["primary"] = "find" /\ leg'[c]["secondary"] = "none"
    BY <1>a, <1>4 DEF CacheMiss, ClientRight, Role
  <2>2. ~Writing(c)' /\ resp'[c] = Nothing
    BY <1>a, <2>1 DEF ClientRight, Writing
  <2>3. LegsAgree(c)'
    BY <2>1, <2>2 DEF LegsAgree, Role
  <2> QED
    BY <2>1, <2>2, <2>3 DEF ClientRight
<1>5. CASE Route(c)
  <2>1. PICK s \in Secondaries(c) :
          /\ secondary' = [secondary EXCEPT ![c] = s]
          /\ IF s = Wild THEN RouteAstray(c) ELSE RouteTo(c)
    BY <1>5 DEF Route
  <2>2. pc[c] = "route" /\ UNCHANGED <<op, seen, resp, answer>>
    BY <1>5 DEF Route
  <2>3. CASE s = Wild
    BY <1>a, <2>1, <2>2, <2>3 DEF RouteAstray, ClientRight, Writing
  <2>4. CASE s # Wild
    <3>1. s \in Slave /\ (Primary(c) # LastSlave => s = NextSlave[Primary(c)])
      BY <1>c, <2>1, <2>2, <2>4, RingAssumption DEF Secondaries
    <3>2. /\ pc'[c] = "legs" /\ leg'[c] = [r \in Role |-> "find"]
          /\ secondary'[c] = s
      BY <1>a, <2>1, <2>4 DEF RouteTo
    <3>3. Writing(c)' /\ Primary(c)' = Primary(c)
      BY <1>a, <2>2 DEF ClientRight, Writing, Primary
    <3>4. LegsAgree(c)'
      BY <1>a, <2>2, <3>1, <3>2, <3>3 DEF LegsAgree, ClientRight, Role
    <3> QED
      BY <1>a, <2>2, <3>2, <3>3, <3>4 DEF ClientRight
  <2> QED
    BY <2>3, <2>4
<1>6. ASSUME NEW r \in Role, LegFails(c, r) PROVE ClientRight(c)'
  BY <1>a, <1>6 DEF LegFails
<1>d. ASSUME UNCHANGED <<op, secondary>>
      PROVE  /\ Writing(c)' = Writing(c) /\ Final(c)' = Final(c)
             /\ Primary(c)' = Primary(c)
             /\ \A q \in Role : Target(c, q)' = Target(c, q)
  BY <1>d DEF Writing, Final, Primary, Target
<1>7. ASSUME NEW r \in Role, LegFinds(c, r) PROVE ClientRight(c)'
  <2>1. /\ pc[c] = "legs" /\ leg[c][r] = "find"
        /\ leg' = [leg EXCEPT ![c][r] = "apply"]
        /\ seen' = [seen EXCEPT ![c][r] = On(c, r)]
        /\ UNCHANGED <<curr, prev, pc, op, secondary, resp>>
    BY <1>7 DEF LegFinds, On
  <2>2. LegsAgree(c)
    BY <1>a, <2>1 DEF ClientRight
  <2>3. \A q \in Role : TableAt(c, q)' = TableAt(c, q) /\ On(c, q)' = On(c, q)
    BY <1>d, <2>1 DEF TableAt, On
  <2>4. ASSUME NEW q \in Role
        PROVE  /\ leg'[c][q] = IF q = r THEN "apply" ELSE leg[c][q]
               /\ seen'[c][q] = IF q = r THEN On(c, q) ELSE seen[c][q]
    BY <1>a, <2>1
  <2>5. LegsAgree(c)'
    <3>1. leg'[c]["primary"] = "done" <=> leg[c]["primary"] = "done"
      BY <2>1, <2>4 DEF Role
    <3>2. /\ leg'[c]["primary"] \in {"find", "apply", "done"}
          /\ leg'[c]["secondary"] \in (IF Writing(c) THEN {"find", "apply", "done"}
                                                     ELSE {"none"})
      BY <2>1, <2>2, <2>4 DEF LegsAgree, Role
    <3> QED
      BY <1>d, <2>1, <2>2, <2>3, <2>4, <3>1, <3>2 DEF LegsAgree
  <2> QED
    BY <1>a, <2>1, <2>5 DEF ClientRight
<1>8. ASSUME NEW r \in Role, LegApplies(c, r) PROVE ClientRight(c)'
  <2>1. /\ pc[c] = "legs" /\ leg[c][r] = "apply"
        /\ leg' = [leg EXCEPT ![c][r] = "done"]
        /\ UNCHANGED <<pc, op, secondary, seen>>
    BY <1>8 DEF LegApplies
  <2>2. LegsAgree(c) /\ (Writing(c) => Written(c, r) = Final(c))
    BY <1>8, WrittenIs
  <2>3. op[c].key \in Key /\ Target(c, r) \in Slave
    BY <1>c, <2>1, <2>2 DEF LegsAgree, Target, Role
  <2>4. ASSUME NEW q \in Role
        PROVE  leg'[c][q] = IF q = r THEN "done" ELSE leg[c][q]
    BY <1>a, <2>1
  <2>5. /\ TableAt(c, r)'[op[c].key] = Written(c, r)
        /\ \A q \in Role \ {r} : TableAt(c, q)' = TableAt(c, q)
    <3>1. CASE r = "primary"
      <4>1. curr'[Target(c, r)][op[c].key] = Written(c, r) /\ prev' = prev
        BY <1>a, <1>8, <2>3, <3>1 DEF LegApplies
      <4> QED
        BY <1>d, <2>1, <3>1, <4>1 DEF TableAt
    <3>2. CASE r = "secondary"
      <4>1. prev'[Target(c, r)][op[c].key] = Written(c, r) /\ curr' = curr
        BY <1>a, <1>8, <2>3, <3>2 DEF LegApplies
      <4> QED
        BY <1>d, <2>1, <3>2, <4>1 DEF TableAt, Role
    <3> QED
      BY <3>1, <3>2 DEF Role
  <2>6. resp'[c] # Nothing <=> leg'[c]["primary"] = "done"
    <3>1. CASE r = "primary"
      <4>1. Response(c) # Nothing
        BY <1>8, <3>1, WrittenIs
      <4>2. resp'[c] = Response(c)
        BY <1>a, <1>8, <3>1 DEF LegApplies
      <4> QED
        BY <2>4, <3>1, <4>1, <4>2
    <3>2. CASE r = "secondary"
      BY <1>8, <2>2, <2>4, <3>2 DEF LegApplies, LegsAgree, Role
    <3> QED
      BY <3>1, <3>2 DEF Role
  <2>7. ASSUME NEW q \in Role
        PROVE  /\ leg'[c][q] = "apply" => seen[c][q] = On(c, q)'
               /\ leg'[c][q] = "done" /\ Writing(c) =>
                    TableAt(c, q)'[op[c].key] = Final(c)
    BY <2>1, <2>2, <2>4, <2>5 DEF LegsAgree, On
  <2>8. /\ leg'[c]["primary"] \in {"find", "apply", "done"}
        /\ leg'[c]["secondary"] \in (IF Writing(c) THEN {"find", "apply", "done"}
                                                   ELSE {"none"})
    BY <2>1, <2>2, <2>4 DEF LegsAgree, Role
  <2>9. LegsAgree(c)'
    BY <1>d, <2>1, <2>2, <2>6, <2>7, <2>8 DEF LegsAgree
  <2> QED
    BY <1>a, <2>1, <2>9 DEF ClientRight
<1>9. CASE Join(c)
  <2>1. /\ pc[c] = "legs" /\ UNCHANGED <<curr, prev, op, secondary, resp>>
        /\ \A r \in Role : leg[c][r] \in {"none", "done", "failed"}
    BY <1>9 DEF Join
  <2>2. LegsAgree(c)
    BY <1>a, <2>1 DEF ClientRight
  <2>3. leg[c]["primary"] = "done" /\ (Writing(c) => leg[c]["secondary"] = "done")
    BY <2>1, <2>2 DEF LegsAgree, Role
  <2>4. pc'[c] = "reply" /\ resp[c] # Nothing
    BY <1>9, <1>a, <2>2, <2>3 DEF Join, LegsAgree
  <2>5. Writing(c) => BothFinal(c)
    BY <2>2, <2>3 DEF LegsAgree, BothFinal, TableAt, Target, Role
  <2> QED
    BY <1>b, <2>1, <2>4, <2>5 DEF ClientRight
<1>10. CASE SendReply(c)
  <2>1. /\ pc[c] = "reply" /\ resp'[c] = Nothing
        /\ leg'[c]["secondary"] = "none"
        /\ pc'[c] = IF Writing(c) THEN "cachedelete" ELSE "idle"
        /\ UNCHANGED <<curr, prev, op>>
    BY <1>10, <1>a, <1>c DEF SendReply, Writing, Role
  <2> QED
    BY <1>a, <1>b, <2>1 DEF ClientRight
<1>11. CASE CacheDelete(c) \/ CachePut(c) \/ CacheEnter(c) \/ CacheBreaks(c)
  <2>1. /\ pc[c] \in {"cachedelete", "cacheput"}
        /\ pc'[c] \in {"idle", "ignored", "cacheput", "hung", pc[c]}
        /\ pc'[c] = "cacheput" => pc[c] = "cacheput" \/ op[c].kind = "update"
        /\ UNCHANGED <<curr, prev, op, resp, leg>>
    BY <1>a, <1>11 DEF CacheDelete, CachePut, CacheLeave, CacheEnter,
       CacheBreaks, Afterwards
  <2> QED
    BY <1>a, <1>b, <2>1 DEF ClientRight
<1>12. CASE CacheRace(c)
  <2>1. pc[c] = "lookup" /\ UNCHANGED op
    BY <1>12 DEF CacheRace
  <2>2. ~Writing(c)' /\ resp[c] = Nothing /\ leg[c]["secondary"] = "none"
    BY <1>a, <2>1 DEF ClientRight, Writing
  <2>3. CASE pc'[c] = "reply"
    <3>1. PICK v \in Value : resp' = [resp EXCEPT ![c] = v]
      BY <1>a, <1>12, <2>3 DEF CacheRace
    <3>2. resp'[c] # Nothing
      BY <1>a, <3>1, MarkerAssumption
    <3> QED
      BY <2>2, <2>3, <3>2 DEF ClientRight
  <2>4. CASE pc'[c] = "legs"
    <3>0. resp' = resp /\ leg' = [leg EXCEPT ![c]["primary"] = "find"]
      BY <1>a, <1>12, <2>4 DEF CacheRace
    <3>1. /\ resp' = resp /\ leg'[c]["primary"] = "find"
          /\ leg'[c]["secondary"] = "none"
      BY <1>a, <2>2, <3>0 DEF Role
    <3>2. LegsAgree(c)'
      BY <2>2, <3>1 DEF LegsAgree, Role
    <3> QED
      BY <2>4, <3>2 DEF ClientRight
  <2>5. CASE pc'[c] = "hung"
    BY <2>5 DEF ClientRight
  <2> QED
    BY <1>a, <1>12, <2>3, <2>4, <2>5 DEF CacheRace
<1> QED
  BY <1>1, <1>2, <1>3, <1>4, <1>5, <1>6, <1>7, <1>8, <1>9, <1>10, <1>11, <1>12
     DEF Act, Step

(* A torn cache stays torn.                                                *)
LEMMA TornStays ==
  ASSUME NEW d \in Client, Act(d)
  PROVE  torn \subseteq torn'
  BY DEF Act, Step, Receive, ClientLeaves, CacheHit, CacheMiss, CacheRace, Route,
     LegFails, LegFinds, LegApplies, Join, SendReply, CacheEnter, CacheDelete,
     CachePut, CacheLeave, CacheBreaks, caches

(* A write that is on its way stays so until the client that makes it has  *)
(* applied both legs, or brought the cache up to date.                     *)
LEMMA PendingStays ==
  ASSUME AloneInv, Alone, NEW d \in Client, Act(d), NEW k, NEW where,
         Pending(k, where),
         pc[d] \in where /\ Writing(d) /\ op[d].key = k =>
           pc'[d] \in where /\ UNCHANGED op
  PROVE  Pending(k, where)'
<1>1. PICK c \in Client : pc[c] \in where /\ Writing(c) /\ op[c].key = k
  BY DEF Pending
<1>2. CASE c = d
  BY <1>1, <1>2 DEF Pending, Writing
<1>3. CASE c # d
  <2>1. Same(c)
    BY <1>3, OthersStep DEF AloneInv
  <2> QED
    BY <1>1, <2>1 DEF Pending, Writing, Same
<1> QED
  BY <1>2, <1>3

(* Where the steps of a request lead.                                      *)
LEMMA PcStep ==
  ASSUME AloneInv, Alone, NEW d \in Client, Act(d), pc[d] # "idle"
  PROVE  /\ op' = op
         /\ pc[d] = "legs" => pc'[d] = "legs" \/ (UNCHANGED <<curr, prev>>
                                                /\ pc'[d] = "reply")
         /\ pc[d] = "reply" /\ Writing(d) => pc'[d] = "cachedelete"
         /\ pc[d] \in {"cachedelete", "cacheput"} =>
              \/ pc'[d] = pc[d] \/ CacheDelete(d) \/ CachePut(d)
              \/ Primary(d) \in torn
         /\ CacheDelete(d) \/ CachePut(d) =>
              pc[d] \in {"cachedelete", "cacheput"} /\ UNCHANGED <<curr, prev>>
         /\ cache' # cache => CacheDelete(d) \/ CachePut(d)
<1>a. TypeOK /\ ClientRight(d) /\ Unreachable = {}
  BY DEF AloneInv, Alone
<1>b. op[d].kind \in {"get", "update", "delete"}
  BY <1>a, Serving DEF Alone, NobodyPuts, Kind
<1> USE DEF TypeOK, At, caches, CacheLeave
<1>1. ASSUME NEW o \in OpsOf[d], Receive(d, o) PROVE FALSE
  BY <1>1 DEF Receive
<1>2. CASE ClientLeaves(d)
  BY <1>2 DEF ClientLeaves, CacheDelete, CachePut
<1>3. CASE CacheHit(d)
  BY <1>3 DEF CacheHit, CacheDelete, CachePut
<1>4. CASE CacheMiss(d)
  BY <1>4 DEF CacheMiss, CacheDelete, CachePut
<1>5. CASE Route(d)
  BY <1>5 DEF Route, CacheDelete, CachePut
<1>6. ASSUME NEW r \in Role, LegFails(d, r) PROVE FALSE
  BY <1>a, <1>6 DEF LegFails
<1>7. ASSUME NEW r \in Role, LegFinds(d, r) \/ LegApplies(d, r)
      PROVE  /\ UNCHANGED <<op, pc, cache>> /\ pc[d] = "legs"
             /\ ~CacheDelete(d) /\ ~CachePut(d)
  BY <1>7 DEF LegFinds, LegApplies, CacheDelete, CachePut
<1>8. CASE Join(d)
  <2>1. pc[d] = "legs" /\ LegsAgree(d)
    BY <1>a, <1>8 DEF Join, ClientRight
  <2>2. leg[d]["primary"] # "failed"
    BY <2>1 DEF LegsAgree
  <2> QED
    BY <1>a, <1>8, <2>1, <2>2 DEF Join, CacheDelete, CachePut
<1>9. CASE SendReply(d)
  BY <1>a, <1>b, <1>9 DEF SendReply, Writing, CacheDelete, CachePut
<1>10. CASE CacheDelete(d) \/ CachePut(d)
  BY <1>10 DEF CacheDelete, CachePut
<1>11. CASE CacheRace(d)
  BY <1>11 DEF CacheRace, CacheDelete, CachePut
<1>12. CASE CacheEnter(d) /\ ~CacheDelete(d) /\ ~CachePut(d)
  BY <1>12 DEF CacheEnter
<1>13. CASE CacheBreaks(d) /\ ~CacheDelete(d) /\ ~CachePut(d)
  BY <1>13 DEF CacheBreaks
<1> QED
  BY <1>1, <1>2, <1>3, <1>4, <1>5, <1>6, <1>7, <1>8, <1>9, <1>10, <1>11, <1>12,
     <1>13 DEF Act, Step

(* The slaves' entry for a key, after a step of a client.                  *)
LEMMA CurrStep ==
  ASSUME AloneInv, Alone, NEW d \in Client, Act(d), NEW k \in Key,
         ~(pc[d] = "legs" /\ Writing(d) /\ op[d].key = k)
  PROVE  \A s \in Slave : curr'[s][k] = curr[s][k] /\ prev'[s][k] = prev[s][k]
<1>a. TypeOK
  BY DEF AloneInv
<1> SUFFICES ASSUME NEW s \in Slave
             PROVE  curr'[s][k] = curr[s][k] /\ prev'[s][k] = prev[s][k]
  OBVIOUS
<1>1. CASE op[d].key # k
  BY <1>a, <1>1, OneKey
<1>2. ASSUME op[d].key = k, NEW r \in Role, LegApplies(d, r)
      PROVE  curr'[s][k] = curr[s][k] /\ prev'[s][k] = prev[s][k]
  <2>1. pc[d] = "legs" /\ leg[d][r] = "apply" /\ ~Writing(d) /\ LegsAgree(d)
    BY <1>2, WrittenIs DEF LegApplies
  <2>2. r = "primary"
    BY <2>1 DEF LegsAgree, Role
  <2>3. Written(d, r) = curr[Primary(d)][k]
    BY <1>2, <2>1, <2>2, WrittenIs DEF TableAt, Target
  <2>4. /\ curr' = [curr EXCEPT ![Primary(d)][k] = Written(d, r)]
        /\ prev' = prev
    BY <1>2, <2>2 DEF LegApplies, Target
  <2> QED
    BY <1>a, <2>3, <2>4 DEF TypeOK
<1> QED
  BY <1>a, <1>1, <1>2, TableStep DEF Role

(* A step keeps the backup of every key right.                             *)
LEMMA BackupStep ==
  ASSUME AloneInv, Alone, NEW d \in Client, Act(d), ClientRight(d)',
         NEW k \in Key
  PROVE  BackupRight(k)'
<1>a. TypeOK /\ BackupRight(k)
  BY DEF AloneInv
<1>b. PrimaryOf[k] \in Slave /\ NextSlave[PrimaryOf[k]] \in Slave
  BY RingAssumption
<1>1. CASE pc[d] = "legs" /\ Writing(d) /\ op[d].key = k
  <2>1. op' = op /\ pc'[d] \in {"legs", "reply"}
    BY <1>1, PcStep
  <2>2. CASE pc'[d] = "legs"
    BY <1>1, <2>1, <2>2 DEF BackupRight, Pending, Writing
  <2>3. CASE pc'[d] = "reply"
    <3>1. BothFinal(d)'
      BY <1>1, <2>1, <2>3 DEF ClientRight, Writing
    <3> QED
      BY <1>1, <2>1, <3>1 DEF BothFinal, BackupRight, Primary, Final
  <2> QED
    BY <2>1, <2>2, <2>3
<1>2. CASE ~(pc[d] = "legs" /\ Writing(d) /\ op[d].key = k)
  <2>1. Pending(k, {"legs"}) => Pending(k, {"legs"})'
    BY <1>2, PendingStays
  <2>2. \A s \in Slave : curr'[s][k] = curr[s][k] /\ prev'[s][k] = prev[s][k]
    BY <1>2, CurrStep
  <2> QED
    BY <1>a, <1>b, <2>1, <2>2 DEF BackupRight
<1> QED
  BY <1>1, <1>2

(* A step keeps every cache right: it touches one entry, of a key that     *)
(* nobody else is busy with.                                               *)
LEMMA CacheStep ==
  ASSUME AloneInv, Alone, NEW d \in Client, Act(d), NEW s \in Slave
  PROVE  CacheRight(s)'
<1> SUFFICES ASSUME s \notin torn' PROVE CacheRight(s)'
  BY DEF CacheRight
<1>0. s \notin torn
  BY TornStays
<1> DEFINE busy == {"legs", "reply", "cachedelete", "cacheput"}
           k == op[d].key
           v == op[d].value
           p == Primary(d)
<1>a. /\ TypeOK /\ ClientRight(d) /\ CacheRight(s) /\ OneEach(cache[s])
      /\ \A e \in Range(cache[s]) :
           PrimaryOf[e.key] = s /\ (curr[s][e.key] = e.value \/ Pending(e.key, busy))
  BY <1>0 DEF AloneInv, CacheRight
<1>b. cache[s] \in Seq(Pair)
  BY <1>a DEF TypeOK, Pair
<1>c. \A e \in Range(cache[s]) : e.key \in Key
  <2>1. \A e \in Range(cache[s]) : e \in Pair
    BY <1>b DEF Range
  <2> QED
    BY <2>1 DEF Pair
<1>d. ASSUME NEW e \in Range(cache[s]), pc[d] # "idle",
             \/ e.key # k
             \/ ~CacheDelete(d) /\ ~CachePut(d)
      PROVE  /\ PrimaryOf[e.key] = s
             /\ curr'[s][e.key] = e.value \/ Pending(e.key, busy)'
  <2>1. CASE pc[d] = "legs" /\ Writing(d) /\ k = e.key
    <3>1. op' = op /\ pc'[d] \in busy
      BY <1>d, <2>1, PcStep
    <3>2. Pending(e.key, busy)'
      BY <2>1, <3>1 DEF Pending, Writing
    <3> QED
      BY <1>a, <3>2 DEF CacheRight
  <2>2. CASE ~(pc[d] = "legs" /\ Writing(d) /\ k = e.key)
    <3>1. curr'[s][e.key] = curr[s][e.key]
      BY <1>c, <2>2, CurrStep
    <3>0. k = e.key => Primary(d) \notin torn
      BY <1>0, <1>a DEF Primary
    <3>2. pc[d] \in busy /\ Writing(d) /\ k = e.key =>
            pc'[d] \in busy /\ UNCHANGED op
      BY <1>d, <2>2, <3>0, PcStep
    <3>3. Pending(e.key, busy) => Pending(e.key, busy)'
      BY <3>2, PendingStays
    <3> QED
      BY <1>a, <3>1, <3>3 DEF CacheRight
  <2> QED
    BY <2>1, <2>2
<1>1. CASE pc[d] = "idle"
  <2>1. UNCHANGED <<cache, curr>>
    BY <1>1 DEF Act, Step, At, Receive, ClientLeaves, CacheHit, CacheMiss,
       Route, LegFails, LegFinds, LegApplies, Join, SendReply, CacheDelete,
       CachePut, CacheRace, CacheEnter, CacheBreaks, caches
  <2>2. ASSUME NEW i, Pending(i, busy) PROVE Pending(i, busy)'
    BY <1>1, <2>2, PendingStays
  <2> QED
    BY <1>a, <2>1, <2>2 DEF CacheRight
<1>2. CASE pc[d] # "idle" /\ ~CacheDelete(d) /\ ~CachePut(d)
  <2>1. cache' = cache
    BY <1>2, PcStep
  <2> QED
    BY <1>2, <1>a, <1>d, <2>1 DEF CacheRight
<1>3. CASE CacheDelete(d)
  <2>1. /\ pc[d] # "idle" /\ p \in Slave
        /\ cache' = IF p \in torn THEN cache
                    ELSE [cache EXCEPT ![p] = Drop(cache[p], k)]
    BY <1>3, <1>a, Serving DEF CacheDelete, CacheLeave, At
  <2>2. CASE s = p
    <3>1. cache'[s] = Drop(cache[s], k)
      BY <1>0, <1>a, <2>1, <2>2 DEF TypeOK
    <3>2. /\ OneEach(cache'[s])
          /\ Range(cache'[s]) = {e \in Range(cache[s]) : e.key # k}
      BY <1>a, <1>b, <3>1, DropProperties DEF CacheRight
    <3> QED
      BY <1>d, <2>1, <3>2 DEF CacheRight
  <2>3. CASE s # p
    <3>1. cache'[s] = cache[s]
      BY <1>0, <1>a, <2>1, <2>3 DEF TypeOK
    <3>2. \A e \in Range(cache[s]) : e.key # k
      BY <1>a, <2>3 DEF CacheRight, Primary
    <3> QED
      BY <1>a, <1>d, <2>1, <3>1, <3>2 DEF CacheRight
  <2> QED
    BY <2>2, <2>3
<1>4. CASE CachePut(d)
  <2>1. /\ pc[d] = "cacheput" /\ p \in Slave /\ k \in Key /\ v \in Value
        /\ cache' = IF p \in torn THEN cache
                    ELSE [cache EXCEPT ![p] = Put(cache[p], k, v, Capacity)]
        /\ curr' = curr
    BY <1>4, <1>a, Serving DEF CachePut, CacheLeave, At
  <2>2. curr[p][k] = v
    BY <1>a, <2>1 DEF ClientRight, BothFinal, Final, Writing
  <2>3. CASE s = p
    <3>1. cache'[s] = Put(cache[s], k, v, Capacity)
      BY <1>0, <1>a, <2>1, <2>3 DEF TypeOK
    <3>2. [key |-> k, value |-> v] \in Pair
      BY <2>1 DEF Pair
    <3>3. /\ OneEach(cache'[s])
          /\ \A e \in Range(cache'[s]) :
               \/ e = [key |-> k, value |-> v]
               \/ e \in Range(cache[s]) /\ e.key # k
      BY <1>a, <1>b, <3>1, <3>2, CapacityAssumption, PutProperties
         DEF CacheRight
    <3>4. ASSUME NEW e \in Range(cache'[s])
          PROVE  /\ PrimaryOf[e.key] = s
                 /\ curr'[s][e.key] = e.value \/ Pending(e.key, busy)'
      <4>1. CASE e = [key |-> k, value |-> v]
        BY <2>1, <2>2, <2>3, <4>1 DEF Primary
      <4>2. CASE e \in Range(cache[s]) /\ e.key # k
        BY <1>d, <2>1, <4>2
      <4> QED
        BY <3>3, <4>1, <4>2
    <3> QED
      BY <3>3, <3>4 DEF CacheRight
  <2>4. CASE s # p
    <3>1. cache'[s] = cache[s]
      BY <1>a, <2>1, <2>4 DEF TypeOK
    <3>2. \A e \in Range(cache[s]) : e.key # k
      BY <1>a, <2>4 DEF CacheRight, Primary
    <3> QED
      BY <1>a, <1>d, <2>1, <3>1, <3>2 DEF CacheRight
  <2> QED
    BY <2>3, <2>4
<1> QED
  BY <1>1, <1>2, <1>3, <1>4

(* Empty caches and tables agree.                                          *)
LEMMA InitAlone == Init => AloneInv
<1> SUFFICES ASSUME Init PROVE AloneInv
  OBVIOUS
<1>1. TypeOK
  BY InitType
<1>2. \A c \in Client : ClientRight(c)
  BY DEF Init, ClientRight, Role
<1>3. \A s \in Slave : CacheRight(s)
  BY DEF Init, CacheRight, OneEach, Range
<1>4. \A k \in Key : BackupRight(k)
  BY RingAssumption DEF Init, BackupRight
<1> QED
  BY <1>1, <1>2, <1>3, <1>4 DEF AloneInv

(* Every step, of whichever client, keeps all of it.                       *)
LEMMA AloneStep == Alone /\ AloneInv /\ [Next]_vars => AloneInv'
<1> SUFFICES ASSUME Alone, AloneInv, [Next]_vars PROVE AloneInv'
  OBVIOUS
<1>1. TypeOK'
  BY TypeStep DEF AloneInv
<1>2. CASE UNCHANGED vars
  <2>1. \A c \in Client : ClientRight(c)'
    BY <1>2 DEF vars, AloneInv, ClientRight, LegsAgree, BothFinal, On, Final,
       Writing, TableAt, Target, Primary
  <2>2. \A s \in Slave : CacheRight(s)'
    BY <1>2 DEF vars, caches, AloneInv, CacheRight, Pending, Writing
  <2>3. \A k \in Key : BackupRight(k)'
    BY <1>2 DEF vars, AloneInv, BackupRight, Pending, Writing
  <2> QED
    BY <1>1, <2>1, <2>2, <2>3 DEF AloneInv
<1>3. ASSUME NEW d \in Client, Act(d) PROVE AloneInv'
  <2>1. ASSUME NEW c \in Client PROVE ClientRight(c)'
    <3>1. CASE c = d
      BY <1>3, <3>1, AloneOwn
    <3>2. CASE c # d
      <4>1. Same(c)
        BY <1>3, <3>2, OthersStep DEF AloneInv
      <4> QED
        BY <1>3, <3>2, <4>1, AloneSame
    <3> QED
      BY <3>1, <3>2
  <2>2. \A s \in Slave : CacheRight(s)'
    BY <1>3, CacheStep
  <2>3. \A k \in Key : BackupRight(k)'
    BY <1>3, <2>1, BackupStep
  <2> QED
    BY <1>1, <2>1, <2>2, <2>3 DEF AloneInv
<1> QED
  BY <1>2, <1>3 DEF Next, Act

(* Nothing is on its way when every client waits for its user.             *)
LEMMA QuietRight ==
  ASSUME AloneInv, Quiet
  PROVE  BackupAgrees /\ CacheCoherent
<1>1. \A k, where : "idle" \notin where => ~Pending(k, where)
  BY DEF Quiet, Pending
<1>2. BackupAgrees
  BY <1>1 DEF AloneInv, BackupRight, BackupAgrees
<1>3. ASSUME NEW s \in Slave \ torn, NEW i \in DOMAIN cache[s]
      PROVE  curr[s][cache[s][i].key] = cache[s][i].value
  <2>1. cache[s][i] \in Range(cache[s])
    BY DEF Range
  <2> QED
    BY <1>1, <2>1 DEF AloneInv, CacheRight
<1> QED
  BY <1>2, <1>3 DEF CacheCoherent

(* As long as no two clients share a key, nobody puts and every slave can  *)
(* be reached: with no request on its way the next slave's secondary table *)
(* holds what the primary slave of a key holds (put_update_delete_handle). *)
THEOREM BackupsAgree ==
  ASSUME Alone
  PROVE  Spec => []BackupAgrees
<1>1. Init => AloneInv
  BY InitAlone
<1>2. AloneInv /\ [Next]_vars => AloneInv'
  BY AloneStep
<1>3. AloneInv => BackupAgrees
  BY QuietRight DEF BackupAgrees
<1> QED
  BY <1>1, <1>2, <1>3, PTL DEF Spec

(* And what a cache would answer is what its slave holds, as long as no    *)
(* two clients have been in that cache at once: an update or a delete      *)
(* drops the old entry after the slave has been changed, an update puts    *)
(* the new one (updateData and deleteData of the coordinator).             *)
THEOREM CachesAgree ==
  ASSUME Alone
  PROVE  Spec => []CacheCoherent
<1>1. Init => AloneInv
  BY InitAlone
<1>2. AloneInv /\ [Next]_vars => AloneInv'
  BY AloneStep
<1>3. AloneInv => CacheCoherent
  BY QuietRight DEF CacheCoherent
<1> QED
  BY <1>1, <1>2, <1>3, PTL DEF Spec
----------------------------------------------------------------------------
(***************************************************************************)
(* The refinement of KeyValueStore.  The map is what the primary slaves    *)
(* hold; a request is made when the coordinator receives it and answered   *)
(* when the answer goes out, and takes effect when the primary's leg, or   *)
(* the cache, gives its response.                                          *)
(***************************************************************************)
StoreMap == [k \in Key |-> curr[PrimaryOf[k]][k]]

Underway == {"lookup", "route", "legs", "reply"}

Calls == [c \in Client |-> IF pc[c] \in Underway THEN op[c] ELSE Nothing]

(* Nobody writes keys of the last slave, whose writes may go nowhere.      *)
LastSpared ==
  \A c \in Client : \A o \in OpsOf[c] :
    o.kind # "get" => PrimaryOf[o.key] # LastSlave

(* A step within a request, or after it, changes nothing that is promised. *)
LEMMA StoreStutter ==
  ASSUME UNCHANGED <<curr, op, resp>>,
         \A c \in Client : pc'[c] \in Underway <=> pc[c] \in Underway
  PROVE  UNCHANGED Store!vars
<1>1. [c \in Client |-> IF pc[c] \in {"lookup", "route", "legs", "reply"}
                        THEN op[c] ELSE Nothing]'
      = [c \in Client |-> IF pc[c] \in {"lookup", "route", "legs", "reply"}
                        THEN op[c] ELSE Nothing]
  BY DEF Underway
<1>2. [k \in Key |-> curr[PrimaryOf[k]][k]]' = [k \in Key |-> curr[PrimaryOf[k]][k]]
  OBVIOUS
<1> QED
  BY <1>1, <1>2 DEF Store!vars

(* What a response that takes effect at once must be.                      *)
LEMMA StorePerform ==
  ASSUME TypeOK, NEW d \in Client, pc[d] \in Underway, pc'[d] \in Underway,
         resp[d] = Nothing, op' = op,
         \A c \in Client \ {d} : pc'[c] = pc[c],
         resp' = [resp EXCEPT ![d] = Store!Outcome(StoreMap, op[d])],
         StoreMap' = [StoreMap EXCEPT ![op[d].key] = Store!Effect(StoreMap, op[d])]
  PROVE  Store!Next
<1>1. Calls[d] = op[d] /\ Calls' = Calls
  BY DEF Calls
<1>2. op[d] # Nothing
  <2>1. op[d] \in Operation
    BY Serving DEF Underway
  <2> QED
    BY <2>1, MarkerAssumption
<1>3. Store!Perform(d)
  BY <1>1, <1>2 DEF Store!Perform, StoreMap, Calls, Underway
<1> QED
  BY <1>3 DEF Store!Next

(* Which step of the one map each step of the service is.                  *)
LEMMA StoreStep ==
  ASSUME AloneInv, Alone, LastSpared, NEW d \in Client, Act(d), torn' = {}
  PROVE  [Store!Next]_(Store!vars)
<1>0. torn = {}
  BY TornStays
<1>a. TypeOK /\ ClientRight(d) /\ Separate
  BY DEF AloneInv, Alone
<1>b. \A c \in Client \ {d} : pc'[c] = pc[c] /\ op'[c] = op[c]
  BY <1>a, OthersStep DEF Same
<1>c. pc[d] # "idle" =>
        /\ op[d] \in OpsOf[d] /\ op[d].key \in Key /\ Primary(d) \in Slave
  BY <1>a, Serving
<1>d. ASSUME UNCHANGED <<curr, op, resp>>,
             pc'[d] \in Underway <=> pc[d] \in Underway
      PROVE  [Store!Next]_(Store!vars)
  BY <1>b, <1>d, StoreStutter
<1> USE DEF TypeOK, At
<1>1. ASSUME NEW o \in OpsOf[d], Receive(d, o) PROVE [Store!Next]_(Store!vars)
  <2>1. /\ pc[d] = "idle" /\ pc'[d] \in Underway /\ op'[d] = o
        /\ UNCHANGED <<curr, resp>>
    BY <1>1, <1>a DEF Receive, Underway
  <2>2. Calls[d] = Nothing /\ Calls' = [Calls EXCEPT ![d] = o]
    BY <1>b, <2>1 DEF Calls, Underway
  <2>3. Store!Call(d, o)
    BY <2>1, <2>2 DEF Store!Call, Calls, Underway
  <2>4. o \in UNION {OpsOf[c] : c \in Client}
    OBVIOUS
  <2> QED
    BY <2>3, <2>4 DEF Store!Next
<1>2. CASE ClientLeaves(d)
  BY <1>2, <1>d DEF ClientLeaves
<1>3. CASE CacheHit(d)
  <2>1. /\ pc[d] = "lookup" /\ pc'[d] = "reply" /\ ~Writing(d)
        /\ resp[d] = Nothing /\ UNCHANGED <<curr, op>>
    BY <1>3, <1>a DEF CacheHit, ClientRight
  <2>2. PICK v \in Cached(d) : resp' = [resp EXCEPT ![d] = v]
    BY <1>3 DEF CacheHit
  <2> DEFINE k == op[d].key
             p == Primary(d)
  <2>3. PICK e \in Range(cache[p]) : e.key = k /\ e.value = v
    BY <2>2 DEF Cached, Lookup, Range
  <2>4. v \in Value
    <3>1. cache[p] \in Seq(Pair)
      BY <1>a, <1>c, <2>1 DEF Pair
    <3>2. e \in Pair
      BY <2>3, <3>1 DEF Range
    <3> QED
      BY <2>3, <3>2 DEF Pair
  <2>5. curr[p][k] = v
    <3>1. curr[p][k] = v \/ Pending(k, {"legs", "reply", "cachedelete", "cacheput"})
      BY <1>0, <1>c, <2>1, <2>3 DEF AloneInv, CacheRight
    <3>2. ASSUME NEW c \in Client, pc[c] # "idle", op[c].key = k PROVE c = d
      BY <1>a, <2>1, <3>2, OtherKey
    <3> QED
      BY <2>1, <3>1, <3>2 DEF Pending
  <2>6. StoreMap[k] = v /\ v # NoValue
    BY <1>c, <2>1, <2>4, <2>5, MarkerAssumption DEF StoreMap, Primary
  <2>7. /\ Store!Outcome(StoreMap, op[d]) = v
        /\ Store!Effect(StoreMap, op[d]) = StoreMap[k]
    BY <2>1, <2>6 DEF Store!Outcome, Store!Effect, Writing
  <2>8. StoreMap' = [StoreMap EXCEPT ![k] = StoreMap[k]]
    BY <2>1 DEF StoreMap
  <2> QED
    BY <1>a, <1>b, <2>1, <2>2, <2>7, <2>8, StorePerform DEF Underway
<1>4. CASE CacheMiss(d)
  BY <1>4, <1>d DEF CacheMiss, Underway
<1>5. CASE Route(d)
  <2>1. PICK s \in Secondaries(d) : IF s = Wild THEN RouteAstray(d) ELSE RouteTo(d)
    BY <1>5 DEF Route
  <2>2. pc[d] = "route" /\ Writing(d) /\ UNCHANGED <<curr, op, resp>>
    BY <1>5, <1>a DEF Route, ClientRight
  <2>3. Primary(d) # LastSlave
    BY <1>c, <2>2 DEF LastSpared, Writing, Primary
  <2>4. RouteTo(d)
    BY <1>c, <2>1, <2>2, <2>3, RingAssumption DEF Secondaries
  <2> QED
    BY <1>d, <2>2, <2>4 DEF RouteTo, Underway
<1>6. ASSUME NEW r \in Role, LegFails(d, r) PROVE [Store!Next]_(Store!vars)
  BY <1>6 DEF LegFails, Alone
<1>7. ASSUME NEW r \in Role, LegFinds(d, r) PROVE [Store!Next]_(Store!vars)
  BY <1>7, <1>d DEF LegFinds
<1>8. ASSUME NEW r \in Role, LegApplies(d, r) PROVE [Store!Next]_(Store!vars)
  <2>1. CASE r = "secondary"
    BY <1>8, <1>d, <2>1 DEF LegApplies
  <2>2. CASE r = "primary"
    <3> DEFINE k == op[d].key
               p == Primary(d)
    <3>1. /\ pc[d] = "legs" /\ leg[d][r] = "apply" /\ UNCHANGED <<pc, op>>
          /\ curr' = [curr EXCEPT ![p][k] = Written(d, r)]
          /\ resp' = [resp EXCEPT ![d] = Response(d)]
      BY <1>8, <2>2 DEF LegApplies, Target
    <3>2. /\ op[d].kind \in {"get", "update", "delete"}
          /\ LegsAgree(d) /\ seen[d][r] = On(d, r)
          /\ Writing(d) => Written(d, r) = Final(d)
          /\ ~Writing(d) => Written(d, r) = TableAt(d, r)[k]
      BY <1>8, WrittenIs
    <3>3. resp[d] = Nothing
      BY <2>2, <3>1, <3>2 DEF LegsAgree
    <3>4. TableAt(d, r)[k] = StoreMap[k] /\ k \in Key /\ p \in Slave
      BY <1>c, <2>2, <3>1 DEF TableAt, Target, StoreMap, Primary
    <3>5. Response(d) = Store!Outcome(StoreMap, op[d])
      BY <2>2, <3>2, <3>4 DEF Response, Store!Outcome, On, Writing
    <3>6. Written(d, r) = Store!Effect(StoreMap, op[d])
      BY <3>2, <3>4 DEF Store!Effect, Writing, Final
    <3>7. StoreMap' = [StoreMap EXCEPT ![k] = Written(d, r)]
      <4>1. ASSUME NEW i \in Key
            PROVE  curr'[PrimaryOf[i]][i] = IF i = k THEN Written(d, r)
                                            ELSE curr[PrimaryOf[i]][i]
        BY <1>a, <3>1, <3>4, <4>1, RingAssumption DEF Primary
      <4> QED
        BY <4>1 DEF StoreMap
    <3> QED
      BY <1>a, <1>b, <3>1, <3>3, <3>5, <3>6, <3>7, StorePerform DEF Underway
  <2> QED
    BY <2>1, <2>2 DEF Role
<1>9. CASE Join(d)
  <2>1. pc[d] = "legs" /\ LegsAgree(d) /\ UNCHANGED <<curr, op, resp>>
    BY <1>9, <1>a DEF Join, ClientRight
  <2>2. pc'[d] = "reply"
    BY <1>9, <1>a, <2>1 DEF Join, LegsAgree
  <2> QED
    BY <1>d, <2>1, <2>2 DEF Underway
<1>10. CASE SendReply(d)
  <2>1. /\ pc[d] = "reply" /\ pc'[d] \notin Underway /\ UNCHANGED <<curr, op>>
        /\ resp[d] # Nothing /\ resp' = [resp EXCEPT ![d] = Nothing]
    BY <1>10, <1>a DEF SendReply, ClientRight, Underway
  <2>2. Calls' = [Calls EXCEPT ![d] = Nothing]
    BY <1>b, <2>1 DEF Calls, Underway
  <2>3. Store!Answer(d)
    BY <2>1, <2>2 DEF Store!Answer, Calls, Underway
  <2> QED
    BY <2>3 DEF Store!Next
<1>11. CASE CacheDelete(d) \/ CachePut(d)
  <2>1. /\ pc[d] \notin Underway /\ pc'[d] \notin Underway
        /\ UNCHANGED <<curr, op, resp>>
    BY <1>11, <1>a DEF CacheDelete, CachePut, CacheLeave, Afterwards, Underway
  <2> QED
    BY <1>d, <2>1
<1>12. CASE CacheEnter(d)
  BY <1>12, <1>d DEF CacheEnter
<1>13. CASE CacheRace(d)
  BY <1>13 DEF CacheRace
<1>14. CASE CacheBreaks(d)
  BY <1>0, <1>14 DEF CacheBreaks
<1> QED
  BY <1>1, <1>2, <1>3, <1>4, <1>5, <1>6, <1>7, <1>8, <1>9, <1>10, <1>11, <1>12,
     <1>13, <1>14 DEF Act, Step

(* As long as no two clients share a key, nobody puts, nobody writes keys  *)
(* of the last slave and every slave can be reached: every client sees one *)
(* map, on which each request takes effect at one instant, whether the     *)
(* cache or a slave answers it (getData, updateData and deleteData), until *)
(* two clients are in one cache at once.                                   *)
THEOREM ServiceImplementsStore ==
  ASSUME Alone, LastSpared
  PROVE  Spec => ImplementsStore
<1>1. Init => AloneInv
  BY InitAlone
<1>2. AloneInv /\ [Next]_vars => AloneInv'
  BY AloneStep
<1>3. Init => Store!Init
  <2> SUFFICES ASSUME Init PROVE Store!Init
    OBVIOUS
  <2>1. [k \in Key |-> curr[PrimaryOf[k]][k]] = [k \in Key |-> NoValue]
    BY RingAssumption DEF Init
  <2>2. [c \in Client |-> IF pc[c] \in {"lookup", "route", "legs", "reply"}
                          THEN op[c] ELSE Nothing]
        = [c \in Client |-> Nothing]
    BY DEF Init
  <2> QED
    BY <2>1, <2>2 DEF Init, Store!Init
<1>4. AloneInv /\ [Next]_vars => [Store!Next \/ torn' # {}]_(Store!vars)
  <2> SUFFICES ASSUME AloneInv, [Next]_vars, torn' = {}
               PROVE  [Store!Next]_(Store!vars)
    OBVIOUS
  <2>1. CASE UNCHANGED vars
    BY <2>1, StoreStutter DEF vars
  <2>2. ASSUME NEW d \in Client, Act(d) PROVE [Store!Next]_(Store!vars)
    BY <2>2, StoreStep
  <2> QED
    BY <2>1, <2>2 DEF Next, Act
<1> QED
  BY <1>1, <1>2, <1>3, <1>4, PTL DEF Spec, ImplementsStore
----------------------------------------------------------------------------
(***************************************************************************)
(* Clients whose keys belong to different slaves are never in one cache.   *)
(***************************************************************************)
Apart ==
  \A c, d \in Client : c # d =>
    \A o \in OpsOf[c], p \in OpsOf[d] : PrimaryOf[o.key] # PrimaryOf[p.key]

(* A thread in a cache is at one of the two calls, and no cache is torn.   *)
ApartInv ==
  /\ TypeOK
  /\ \A c \in inside : pc[c] \in {"cachedelete", "cacheput"}
  /\ torn = {}

(* Which steps enter a cache or leave it; the others leave a thread that   *)
(* is in one where it is, unless the cache is torn.                        *)
LEMMA CallStep ==
  ASSUME TypeOK, NEW d \in Client, Act(d)
  PROVE  \/ CacheEnter(d) \/ CacheDelete(d) \/ CachePut(d) \/ CacheRace(d)
         \/ /\ UNCHANGED <<inside, torn>>
            /\ pc[d] \in {"cachedelete", "cacheput"} =>
                 pc'[d] = pc[d] \/ CacheBreaks(d)
<1> USE DEF At, caches, TypeOK
<1> DEFINE Rest == /\ UNCHANGED <<inside, torn>>
                   /\ pc[d] \in {"cachedelete", "cacheput"} =>
                        pc'[d] = pc[d] \/ CacheBreaks(d)
<1>1. ASSUME NEW o \in OpsOf[d], Receive(d, o) PROVE Rest
  BY <1>1 DEF Receive
<1>2. CASE ClientLeaves(d)
  BY <1>2 DEF ClientLeaves
<1>3. CASE CacheHit(d)
  BY <1>3 DEF CacheHit
<1>4. CASE CacheMiss(d)
  BY <1>4 DEF CacheMiss
<1>5. CASE Route(d)
  BY <1>5 DEF Route
<1>6. ASSUME NEW r \in Role, LegFails(d, r) \/ LegFinds(d, r) \/ LegApplies(d, r)
      PROVE  Rest
  BY <1>6 DEF LegFails, LegFinds, LegApplies
<1>7. CASE Join(d)
  BY <1>7 DEF Join
<1>8. CASE SendReply(d)
  BY <1>8 DEF SendReply
<1>9. CASE CacheBreaks(d)
  <2>1. UNCHANGED <<inside, torn>>
    BY <1>9 DEF CacheBreaks
  <2> QED
    BY <1>9, <2>1
<1> QED
  BY <1>1, <1>2, <1>3, <1>4, <1>5, <1>6, <1>7, <1>8, <1>9 DEF Act, Step

(* Each step keeps it: the cache a client uses is that of its own slave.   *)
LEMMA ApartStep == Apart /\ ApartInv /\ [Next]_vars => ApartInv'
<1> SUFFICES ASSUME Apart, ApartInv, [Next]_vars PROVE ApartInv'
  OBVIOUS
<1>1. TypeOK /\ TypeOK'
  BY TypeStep DEF ApartInv
<1>2. CASE UNCHANGED vars
  BY <1>1, <1>2 DEF ApartInv, vars, caches
<1>3. ASSUME NEW d \in Client, Act(d) PROVE ApartInv'
  <2>1. ASSUME pc[d] # "idle" PROVE Calm(d)
    <3>1. op[d] \in OpsOf[d]
      BY <1>1, <2>1, Serving
    <3>2. ASSUME NEW c \in inside \ {d} PROVE Primary(c) # Primary(d)
      <4>1. c \in Client /\ pc[c] # "idle"
        BY <1>1 DEF ApartInv, TypeOK
      <4>2. op[c] \in OpsOf[c]
        BY <1>1, <4>1, Serving
      <4> QED
        BY <3>1, <4>1, <4>2 DEF Apart, Primary
    <3> QED
      BY <3>2 DEF ApartInv, Calm, Company
  <2>2. ~CacheRace(d) /\ ~CacheBreaks(d)
    BY <2>1 DEF CacheRace, CacheBreaks, ApartInv
  <2>3. torn' = {}
    <3>1. CacheEnter(d) => torn' = torn
      BY <2>1 DEF CacheEnter, Calm
    <3>2. CacheDelete(d) \/ CachePut(d) => torn' = torn
      BY DEF CacheDelete, CachePut, CacheLeave
    <3> QED
      BY <1>1, <1>3, <2>2, <3>1, <3>2, CallStep DEF ApartInv
  <2>4. ASSUME NEW c \in inside'
        PROVE  pc'[c] \in {"cachedelete", "cacheput"}
    <3>1. /\ CacheEnter(d) => inside' = inside \cup {d} /\ pc' = pc
                             /\ pc[d] \in {"cachedelete", "cacheput"}
          /\ CacheDelete(d) \/ CachePut(d) => inside' = inside \ {d}
      BY DEF CacheEnter, CacheDelete, CachePut, CacheLeave
    <3>2. CASE c # d
      <4>1. c \in inside
        BY <1>1, <1>3, <2>2, <3>1, <3>2, CallStep
      <4>2. c \in Client /\ pc'[c] = pc[c]
        BY <1>1, <1>3, <3>2, <4>1, OthersStep DEF TypeOK, Same
      <4> QED
        BY <4>1, <4>2 DEF ApartInv
    <3>3. CASE c = d
      BY <1>1, <1>3, <2>2, <3>1, <3>3, CallStep DEF ApartInv
    <3> QED
      BY <3>2, <3>3
  <2> QED
    BY <1>1, <2>3, <2>4 DEF ApartInv
<1> QED
  BY <1>2, <1>3 DEF Next, Act

(* Clients that use keys of different slaves, and do not put, write keys   *)
(* of the last slave or meet a slave that is cut off, see one map for good *)
(* (getData, updateData and deleteData of the coordinator).                *)
THEOREM ApartImplementStore ==
  ASSUME Alone, LastSpared, Apart
  PROVE  Spec => Store!Spec
<1>1. Init => ApartInv
  BY InitType DEF Init, ApartInv
<1>2. ApartInv /\ [Next]_vars => ApartInv'
  BY ApartStep
<1>3. ApartInv => torn = {}
  BY DEF ApartInv
<1>4. (ApartInv => torn = {})'
  BY <1>3, PTL
<1>5. ApartInv' /\ [Store!Next \/ torn' # {}]_(Store!vars)
        => [Store!Next]_(Store!vars)
  BY <1>4
<1>6. Spec => ImplementsStore
  BY ServiceImplementsStore
<1> QED
  BY <1>1, <1>2, <1>5, <1>6, PTL DEF Spec, ImplementsStore, Store!Spec
=============================================================================
