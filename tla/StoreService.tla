---------------------------- MODULE StoreService ----------------------------
(***************************************************************************)
(* The service clients use while the membership is stable: the threads of  *)
(* the coordinator that serve them (coordination_server.cpp), the cache it *)
(* keeps for each slave, and the two tables of each slave.                 *)
(*                                                                         *)
(* A write goes to the primary slave of its key and to the secondary one   *)
(* in two parallel legs, the client gets the primary's response, and then  *)
(* the cache is brought up to date.  A slave's handler is a find() and an  *)
(* access, in two steps; the rest of a slave (its counters, its lock, what *)
(* a race may do to a table) is modelled in SlaveServer.  A call on a      *)
(* cache has a beginning and an end: LruCache shows that it is one atomic  *)
(* operation as long as no other thread is in that cache, and nothing of   *)
(* the kind is assumed once two threads have been in it at once.           *)
(***************************************************************************)
EXTENDS CacheOps

CONSTANTS
  Client,        \* one coordinator thread each
  Slave, Key, Value,
  NoValue,       \* "the table has no such key"
  Blank,         \* the empty string operator[] makes for a missing key
  Nothing,       \* no answer, no request
  Capacity,      \* MAX_CACHE_SIZE
  PrimaryOf,     \* the slave the ring gives for each key
  NextSlave,     \* each slave's successor on the ring, the first one last
  LastSlave,     \* the slave with the greatest hash
  Wild,          \* a pointer that points to no slave
  Unreachable,   \* slaves that are down or cut off, still in the ring
  OpsOf          \* the requests each client may send

Role == {"primary", "secondary"}
Kind == {"get", "put", "update", "delete"}
Operation == [kind : Kind, key : Key, value : Value]
Entry == Value \cup {Blank, NoValue}
Reply == {"failure", "success", "exists", "added", "nexists"}

ASSUME RingAssumption ==
  /\ PrimaryOf \in [Key -> Slave]
  /\ NextSlave \in [Slave -> Slave]
  /\ LastSlave \in Slave
  /\ Unreachable \subseteq Slave
  /\ Wild \notin Slave
ASSUME CapacityAssumption == Capacity \in Nat \ {0}
ASSUME OpsAssumption == OpsOf \in [Client -> SUBSET Operation]
ASSUME MarkerAssumption ==
  /\ NoValue \notin Value \cup {Blank}
  /\ Blank \notin Reply
  /\ Nothing \notin Reply \cup Value \cup {Blank} \cup Operation

VARIABLES
  curr, prev,    \* data_client and data_secondary of each slave
  cache,         \* the coordinator's cache of each slave, newest first
  inside,        \* clients whose thread is in putInSet or deleteKey
  torn,          \* slaves whose cache two threads have been in at once
  pc,            \* where each client's thread is
  op,            \* the request it serves
  secondary,     \* secondaryNode
  leg,           \* how far each leg of the request is
  seen,          \* what the handler's find() returned on each leg
  resp,          \* the response buffer: what the primary answered
  answer,        \* what the client was last told
  up             \* FALSE once the coordinator has crashed

caches == <<cache, inside, torn>>

vars == <<curr, prev, caches, pc, op, secondary, leg, seen, resp, answer, up>>

Init ==
  /\ curr = [s \in Slave |-> [k \in Key |-> NoValue]]
  /\ prev = curr
  /\ cache = [s \in Slave |-> << >>]
  /\ inside = {} /\ torn = {}
  /\ pc = [c \in Client |-> "idle"]
  /\ op = [c \in Client |-> Nothing]
  /\ secondary = [c \in Client |-> Wild]
  /\ leg = [c \in Client |-> [r \in Role |-> "none"]]
  /\ seen = [c \in Client |-> [r \in Role |-> FALSE]]
  /\ resp = [c \in Client |-> Nothing]
  /\ answer = [c \in Client |-> Nothing]
  /\ up = TRUE

At(c, here, there) ==
  /\ up
  /\ pc[c] = here
  /\ pc' = [pc EXCEPT ![c] = there]

Primary(c) == PrimaryOf[op[c].key]
Target(c, r) == IF r = "primary" THEN Primary(c) ELSE secondary[c]
----------------------------------------------------------------------------
ReceiveUnparsed(c, o) ==            \* mutant: the request is not kept
  /\ At(c, "idle", IF o.kind = "get" THEN "lookup" ELSE "route")
  /\ answer' = [answer EXCEPT ![c] = Nothing]
  /\ UNCHANGED <<curr, prev, caches, op, secondary, leg, seen, resp, up>>

(* clientHandle: the next request of a client, or the end of its           *)
(* connection, whose empty message fails an assert.                        *)
Receive(c, o) ==
  /\ At(c, "idle", IF o.kind = "get" THEN "lookup" ELSE "route")
  /\ op' = [op EXCEPT ![c] = o]
  /\ answer' = [answer EXCEPT ![c] = Nothing]
  /\ UNCHANGED <<curr, prev, caches, secondary, leg, seen, resp, up>>

ClientLeaves(c) ==
  /\ up /\ pc[c] \in {"idle", "ignored"}
  /\ up' = FALSE
  /\ UNCHANGED <<curr, prev, caches, pc, op, secondary, leg, seen, resp, answer>>

(* Another thread is in the cache that c is about to use; or it has been   *)
(* torn before.                                                            *)
Company(c) == {d \in inside \ {c} : Primary(d) = Primary(c)}
Calm(c) == Company(c) = {} /\ Primary(c) \notin torn

(* getData: answer from the cache of the primary, or ask the primary.      *)
Cached(c) == Lookup(cache[Primary(c)], op[c].key)

CacheHit(c) ==
  /\ At(c, "lookup", "reply")
  /\ Calm(c) /\ Cached(c) # {}
  /\ \E v \in Cached(c) : resp' = [resp EXCEPT ![c] = v]
  /\ UNCHANGED <<curr, prev, caches, op, secondary, leg, seen, answer, up>>

CacheMiss(c) ==
  /\ At(c, "lookup", "legs")
  /\ Calm(c) /\ Cached(c) = {}
  /\ leg' = [leg EXCEPT ![c]["primary"] = "find"]
  /\ UNCHANGED <<curr, prev, caches, op, secondary, seen, resp, answer, up>>

(* A look into a cache that another thread is changing, or that is torn:   *)
(* any value, a miss, no end, or the end of the process.                   *)
CacheRace(c) ==
  /\ up /\ pc[c] = "lookup" /\ ~Calm(c)
  /\ torn' = torn \cup {Primary(c)}
  /\ \/ /\ At(c, "lookup", "reply")
        /\ \E v \in Value : resp' = [resp EXCEPT ![c] = v]
        /\ UNCHANGED <<leg, up>>
     \/ /\ At(c, "lookup", "legs")
        /\ leg' = [leg EXCEPT ![c]["primary"] = "find"]
        /\ UNCHANGED <<resp, up>>
     \/ /\ At(c, "lookup", "hung")
        /\ up' \in BOOLEAN
        /\ UNCHANGED <<leg, resp>>
  /\ UNCHANGED <<curr, prev, cache, inside, op, secondary, seen, answer>>

RouteSkipsBackup(c) ==              \* mutant: a delete has one leg only
  /\ At(c, "route", "legs")
  /\ secondary' = [secondary EXCEPT ![c] = NextSlave[Primary(c)]]
  /\ leg' = [leg EXCEPT ![c] =
               [r \in Role |-> IF op[c].kind = "delete" /\ r = "secondary"
                               THEN "none" ELSE "find"]]
  /\ UNCHANGED <<curr, prev, caches, op, seen, resp, answer, up>>

(* put_update_delete_handle: findSuccessor leaves secondaryNode unassigned *)
(* when the primary is the last slave, so it is whatever the stack holds:  *)
(* a slave, or a stray pointer.  Its isActive flag is read through that:   *)
(* the process dies, or the flag reads FALSE and the request is dropped.   *)
Secondaries(c) ==
  IF Primary(c) = LastSlave THEN Slave \cup {Wild} ELSE {NextSlave[Primary(c)]}

RouteTo(c) ==
  /\ At(c, "route", "legs")
  /\ leg' = [leg EXCEPT ![c] = [r \in Role |-> "find"]]
  /\ up' = up

RouteAstray(c) ==
  /\ At(c, "route", "ignored")
  /\ up' \in BOOLEAN
  /\ leg' = leg

Route(c) ==
  /\ pc[c] = "route"
  /\ \E s \in Secondaries(c) :
       /\ secondary' = [secondary EXCEPT ![c] = s]
       /\ IF s = Wild THEN RouteAstray(c) ELSE RouteTo(c)
  /\ UNCHANGED <<curr, prev, caches, op, seen, resp, answer>>

(* A leg that cannot connect, or whose recv fails, ends with no response.  *)
LegFails(c, r) ==
  /\ up /\ pc[c] = "legs" /\ leg[c][r] = "find"
  /\ Target(c, r) \in Unreachable
  /\ leg' = [leg EXCEPT ![c][r] = "failed"]
  /\ UNCHANGED <<curr, prev, caches, pc, op, secondary, seen, resp, answer, up>>

(* The slave's handlers: find the key in data_client (primary leg) or in   *)
(* data_secondary, then act on what find() returned.                       *)
TableAt(c, r) == IF r = "primary" THEN curr[Target(c, r)] ELSE prev[Target(c, r)]

LegFinds(c, r) ==
  /\ up /\ pc[c] = "legs" /\ leg[c][r] = "find"
  /\ Target(c, r) \notin Unreachable
  /\ seen' = [seen EXCEPT ![c][r] = TableAt(c, r)[op[c].key] # NoValue]
  /\ leg' = [leg EXCEPT ![c][r] = "apply"]
  /\ UNCHANGED <<curr, prev, caches, pc, op, secondary, resp, answer, up>>

Written(c, r) ==
  LET old == TableAt(c, r)[op[c].key] IN
  CASE op[c].kind = "get" -> IF seen[c][r] /\ old = NoValue THEN Blank ELSE old
    [] op[c].kind = "put" -> IF seen[c][r] THEN old ELSE op[c].value
    [] op[c].kind = "update" -> op[c].value
    [] op[c].kind = "delete" -> IF seen[c][r] THEN NoValue ELSE old

Response(c) ==
  LET found == seen[c]["primary"] IN
  CASE op[c].kind = "get" -> IF found THEN Written(c, "primary") ELSE "failure"
    [] op[c].kind = "put" -> IF found THEN "exists" ELSE "success"
    [] op[c].kind = "update" -> IF found THEN "exists" ELSE "added"
    [] op[c].kind = "delete" -> IF found THEN "success" ELSE "nexists"

LegApplies(c, r) ==
  /\ up /\ pc[c] = "legs" /\ leg[c][r] = "apply"
  /\ leg' = [leg EXCEPT ![c][r] = "done"]
  /\ \/ /\ r = "primary"
        /\ curr' = [curr EXCEPT ![Target(c, r)][op[c].key] = Written(c, r)]
        /\ resp' = [resp EXCEPT ![c] = Response(c)]
        /\ UNCHANGED prev
     \/ /\ r = "secondary"
        /\ prev' = [prev EXCEPT ![Target(c, r)][op[c].key] = Written(c, r)]
        /\ UNCHANGED <<curr, resp>>
  /\ UNCHANGED <<caches, pc, op, secondary, seen, answer, up>>

JoinPrimary(c) ==                   \* mutant: answers after the primary leg
  /\ leg[c]["primary"] \in {"done", "failed"}
  /\ At(c, "legs", IF op[c].kind = "get" /\ leg[c]["primary"] = "failed"
                   THEN "ignored" ELSE "reply")
  /\ UNCHANGED <<curr, prev, caches, op, secondary, leg, seen, resp, answer, up>>

JoinAnswered(c) ==                  \* mutant: waits for every leg's response
  /\ \A r \in Role : leg[c][r] \in {"none", "done"}
  /\ At(c, "legs", "reply")
  /\ UNCHANGED <<curr, prev, caches, op, secondary, leg, seen, resp, answer, up>>

(* Both legs are joined.  A get whose recv failed returns without a word.  *)
Join(c) ==
  /\ \A r \in Role : leg[c][r] \in {"none", "done", "failed"}
  /\ At(c, "legs", IF op[c].kind = "get" /\ leg[c]["primary"] = "failed"
                   THEN "ignored" ELSE "reply")
  /\ UNCHANGED <<curr, prev, caches, op, secondary, leg, seen, resp, answer, up>>

ReplySkipsCache(c) ==               \* mutant: a delete leaves the cache alone
  /\ At(c, "reply", CASE op[c].kind = "put" -> "cacheput"
                      [] op[c].kind = "update" -> "cachedelete"
                      [] OTHER -> "idle")
  /\ answer' = [answer EXCEPT ![c] = resp[c]]
  /\ resp' = [resp EXCEPT ![c] = Nothing]
  /\ leg' = [leg EXCEPT ![c] = [r \in Role |-> "none"]]
  /\ seen' = [seen EXCEPT ![c] = [r \in Role |-> FALSE]]
  /\ UNCHANGED <<curr, prev, caches, op, secondary, up>>

(* The answer is sent and a write goes on to the cache.  With no response  *)
(* from the primary the length is 0, or -1, which send takes for the       *)
(* largest there is: nothing goes out, or the zeroed buffer and whatever   *)
(* the stack holds behind it.                                              *)
SendReply(c) ==
  /\ At(c, "reply", CASE op[c].kind = "get" -> "idle"
                      [] op[c].kind = "put" -> "cacheput"
                      [] OTHER -> "cachedelete")
  /\ \E a \in IF resp[c] = Nothing THEN {Nothing, Blank} ELSE {resp[c]} :
       answer' = [answer EXCEPT ![c] = a]
  /\ resp' = [resp EXCEPT ![c] = Nothing]
  /\ leg' = [leg EXCEPT ![c] = [r \in Role |-> "none"]]
  /\ seen' = [seen EXCEPT ![c] = [r \in Role |-> FALSE]]
  /\ UNCHANGED <<curr, prev, caches, op, secondary, up>>

(* A client that was told nothing sends nothing more.                      *)
Afterwards(c) == IF answer[c] = Nothing THEN "ignored" ELSE "idle"

CacheKeeps(c) ==                    \* mutant: the entry is not deleted
  /\ At(c, "cachedelete", IF op[c].kind = "update" THEN "cacheput"
                          ELSE Afterwards(c))
  /\ c \in inside /\ inside' = inside \ {c}
  /\ UNCHANGED <<curr, prev, cache, torn, op, secondary, leg, seen, resp,
                 answer, up>>

(* putInSet and deleteKey begin, maybe while another thread is in the same *)
(* cache, and end.  What is left of a torn cache is not followed.          *)
CacheEnter(c) ==
  /\ up /\ pc[c] \in {"cachedelete", "cacheput"} /\ c \notin inside
  /\ inside' = inside \cup {c}
  /\ torn' = IF Company(c) = {} THEN torn ELSE torn \cup {Primary(c)}
  /\ UNCHANGED <<curr, prev, cache, pc, op, secondary, leg, seen, resp, answer,
                 up>>

CacheLeave(c, content) ==
  /\ c \in inside /\ inside' = inside \ {c}
  /\ cache' = IF Primary(c) \in torn THEN cache
              ELSE [cache EXCEPT ![Primary(c)] = content]
  /\ UNCHANGED <<curr, prev, torn, op, secondary, leg, seen, resp, answer, up>>

CacheDelete(c) ==
  /\ At(c, "cachedelete", IF op[c].kind = "update" THEN "cacheput"
                          ELSE Afterwards(c))
  /\ CacheLeave(c, Drop(cache[Primary(c)], op[c].key))

CachePut(c) ==
  /\ At(c, "cacheput", Afterwards(c))
  /\ CacheLeave(c, Put(cache[Primary(c)], op[c].key, op[c].value, Capacity))

(* In a torn cache a thread may find no end, or end the process.           *)
CacheBreaks(c) ==
  /\ c \in inside /\ Primary(c) \in torn
  /\ \/ At(c, "cachedelete", "hung")
     \/ At(c, "cacheput", "hung")
  /\ up' \in BOOLEAN
  /\ UNCHANGED <<curr, prev, caches, op, secondary, leg, seen, resp, answer>>

Step(c) ==
  \/ CacheHit(c) \/ CacheMiss(c) \/ CacheRace(c) \/ Route(c)
  \/ \E r \in Role : LegFails(c, r) \/ LegFinds(c, r) \/ LegApplies(c, r)
  \/ Join(c) \/ SendReply(c)
  \/ CacheEnter(c) \/ CacheDelete(c) \/ CachePut(c) \/ CacheBreaks(c)

Next == \E c \in Client :
          Step(c) \/ ClientLeaves(c) \/ \E o \in OpsOf[c] : Receive(c, o)

Spec == Init /\ [][Next]_vars

(* Threads and reachable slaves keep running; no client has to send.       *)
FairSpec == Spec /\ \A c \in Client : WF_vars(Step(c))
----------------------------------------------------------------------------
TypeOK ==
  /\ curr \in [Slave -> [Key -> Entry]]
  /\ prev \in [Slave -> [Key -> Entry]]
  /\ cache \in [Slave -> Seq([key : Key, value : Value])]
  /\ inside \subseteq Client /\ torn \subseteq Slave
  /\ pc \in [Client -> {"idle", "lookup", "route", "legs", "reply",
                        "cachedelete", "cacheput", "ignored", "hung"}]
  /\ op \in [Client -> Operation \cup {Nothing}]
  /\ \A c \in Client : pc[c] # "idle" => op[c] \in OpsOf[c]
  /\ secondary \in [Client -> Slave \cup {Wild}]
  /\ leg \in [Client -> [Role -> {"none", "find", "apply", "done", "failed"}]]
  /\ seen \in [Client -> [Role -> BOOLEAN]]
  /\ resp \in [Client -> Entry \cup Reply \cup {Nothing}]
  /\ answer \in [Client -> Entry \cup Reply \cup {Nothing}]
  /\ up \in BOOLEAN

(* Clients that share no key, and do not put, see the one map of           *)
(* KeyValueStore: every answer, from the cache or from a slave, is the one *)
(* the writes answered before it call for (getData, updateData and         *)
(* deleteData, with the cache in between), until two of them are in one    *)
(* cache at once.  Clients whose keys belong to different slaves never     *)
(* are.                                                                    *)
Store == INSTANCE KeyValueStore
  WITH NoCall <- Nothing,
       Op <- UNION {OpsOf[c] : c \in Client},
       store <- [k \in Key |-> curr[PrimaryOf[k]][k]],
       call <- [c \in Client |->
                 IF pc[c] \in {"lookup", "route", "legs", "reply"} THEN op[c]
                 ELSE Nothing],
       result <- resp

ImplementsStore ==
  Store!Init /\ [][Store!Next \/ torn' # {}]_(Store!vars)

Quiet == up /\ \A c \in Client : pc[c] = "idle"

(* When no request is on its way, the successor of a key's primary holds   *)
(* in its secondary table what the primary holds (for clients that share   *)
(* no key; the last slave has no successor the code could find).           *)
BackupAgrees ==
  Quiet => \A k \in Key : LET p == PrimaryOf[k] IN
             p # LastSlave => prev[NextSlave[p]][k] = curr[p][k]

(* When no request is on its way, what the cache of a slave would answer   *)
(* is what the slave holds (README.md:34, "If value exist then value else  *)
(* failure").  So it is for clients that share no key and do not put, of   *)
(* each cache that no two of them have been in at once; a put of a key     *)
(* that exists leaves its value in the cache all the same.                 *)
CacheCoherent ==
  Quiet => \A s \in Slave \ torn : \A i \in DOMAIN cache[s] :
             curr[s][cache[s][i].key] = cache[s][i].value

(* Whatever interleaves with it, a put or update the client was answered   *)
(* has left its key on the primary and, if that can be reached, on the     *)
(* secondary slave of that request (while nobody deletes): both legs are   *)
(* joined before the answer goes out.                                      *)
AckedOnBoth ==
  \A c \in Client :
    answer[c] \in Reply /\ op[c].kind \in {"put", "update"} =>
      /\ curr[Primary(c)][op[c].key] # NoValue
      /\ \/ secondary[c] \in Unreachable
         \/ prev[secondary[c]][op[c].key] # NoValue

(* "success/exists/failure" (README.md:91), "value ... else failure"       *)
(* (README.md:34): a client that sent a request is told something, unless  *)
(* the coordinator crashes or its thread is lost in a torn cache, also     *)
(* when the slave with the backup cannot be reached.  It need not be told  *)
(* when the primary cannot be reached, or is the last slave and the        *)
(* request a write.                                                        *)
Answerable(c) ==
  /\ pc[c] \in {"lookup", "route"}
  /\ Primary(c) \notin Unreachable
  /\ op[c].kind # "get" => Primary(c) # LastSlave

Lost(c) == ~up \/ (pc[c] = "hung" /\ Primary(c) \in torn)

Answered == \A c \in Client : Answerable(c) ~> answer[c] # Nothing \/ Lost(c)
=============================================================================
