---------------------------- MODULE SlaveServer ----------------------------
(***************************************************************************)
(* One slave process (SlaveServer.cpp).  main() starts a thread for every  *)
(* accepted connection; the thread serves one request and ends.  A data    *)
(* request (get, put, update, delete) and a migration task (merge, send,   *)
(* get) meet in three globals: the counter of data threads at work, the    *)
(* counter of migrations at work, and one mutex.                           *)
(*                                                                         *)
(* The program is built without optimisation, so `thread_count++' is a     *)
(* load followed by a store (Load, StoreIncrement, StoreDecrement), and a  *)
(* handler's find() and the access that follows it are separate steps.     *)
(***************************************************************************)
EXTENDS Integers

CONSTANTS
  Thread,       \* the threads main() may start, one per connection
  Key, Value,   \* what clients store
  NoValue,      \* "the table has no such key"
  Blank,        \* the empty string operator[] makes for a missing key
  NoThread,     \* the owner of a free mutex
  Request,      \* the requests peers may send
  PeerMap       \* the tables a peer may answer a "send" with

(***************************************************************************)
(* "curr" is data_client and "prev" is data_secondary: the names the       *)
(* migration messages give them ("what", "addTo"); addAs "1" and "0" name  *)
(* the same two tables in data requests, where an addAs may also be        *)
(* another number or no number at all.                                     *)
(***************************************************************************)
Table == {"curr", "prev"}
AddAs == Table \cup {"other", "nonumber"}
DataPurpose == {"get", "put", "update", "delete", "termination"}
Task == {"merge", "send", "fetch", "illegal"}

Entry == Value \cup {Blank, NoValue}

RequestType ==
  [purpose : DataPurpose, key : Key, value : Value, table : AddAs]
  \cup [purpose : Task, key : Key, value : Value, table : Table]

ASSUME RequestAssumption == Request \subseteq RequestType
ASSUME PeerMapAssumption == PeerMap \subseteq [Key -> Entry]
ASSUME ThreadAssumption == NoThread \notin Thread
ASSUME MarkerAssumption == NoValue \notin Value \cup {Blank}

VARIABLES
  data,             \* data_client and data_secondary
  migration_count,
  thread_count,
  mutex_sync,       \* the thread that holds the mutex, or NoThread
  pc,               \* where each thread is
  req,              \* the request each thread serves
  reg,              \* the value of thread_count a thread has loaded
  found,            \* the outcome of the handler's find()
  path,             \* the branch of normal_thread taken
  reply,            \* what the handler has sent
  up,               \* FALSE once the process has crashed
  overlapped        \* history: two data requests were unanswered at once

vars == <<data, migration_count, thread_count, mutex_sync, pc, req, reg,
          found, path, reply, up, overlapped>>

Location == {"idle", "check", "lock", "load", "store", "find", "apply",
             "loaddec", "storedec", "count", "wait", "work", "clear", "answer",
             "uncount", "unlock", "done"}

NoRequest == [purpose |-> "none"]     \* the thread has received nothing yet

IsData(t) == req[t].purpose \in DataPurpose

(* The locations between a data thread's increment and its decrement.      *)
Counted(t) == pc[t] \in {"find", "apply", "loaddec", "storedec"}

(* The locations of a migration after `migration_count++'.                 *)
Migrating(t) == pc[t] \in {"wait", "work", "clear", "answer", "uncount"}

(* A data request whose sender has no answer yet.  The answer goes out     *)
(* before thread_count--: a client that has it may send its next request   *)
(* while the thread of the last one has still to count itself down.        *)
Unanswered(t) == IsData(t) /\ reply[t] = "none" /\ pc[t] # "done"

Init ==
  /\ data = [b \in Table |-> [k \in Key |-> NoValue]]
  /\ migration_count = 0
  /\ thread_count = 0
  /\ mutex_sync = NoThread
  /\ pc = [t \in Thread |-> "idle"]
  /\ req = [t \in Thread |-> NoRequest]
  /\ reg = [t \in Thread |-> 0]
  /\ found = [t \in Thread |-> FALSE]
  /\ path = [t \in Thread |-> "none"]
  /\ reply = [t \in Thread |-> "none"]
  /\ up = TRUE
  /\ overlapped = FALSE
----------------------------------------------------------------------------
(***************************************************************************)
(* request_process: the thread has received its request.                   *)
(***************************************************************************)
At(t, here, there) ==
  /\ up
  /\ pc[t] = here
  /\ pc' = [pc EXCEPT ![t] = there]

Overlaps(r) ==
  overlapped' = \/ overlapped
                \/ r.purpose \in DataPurpose /\ \E u \in Thread : Unanswered(u)

ReceiveUnparsed(t, r) ==            \* mutant: the request is not kept
  /\ At(t, "idle", IF r.purpose \in DataPurpose THEN "check" ELSE "lock")
  /\ Overlaps(r)
  /\ UNCHANGED <<data, migration_count, thread_count, mutex_sync, req, reg,
                 found, path, reply, up>>

Receive(t, r) ==
  /\ At(t, "idle", IF r.purpose \in DataPurpose THEN "check" ELSE "lock")
  /\ req' = [req EXCEPT ![t] = r]
  /\ Overlaps(r)
  /\ UNCHANGED <<data, migration_count, thread_count, mutex_sync, reg, found,
                 path, reply, up>>

(* A text without a purpose (a peer that closes at once sends the empty    *)
(* one) fails an assertion of the JSON library, which ends the process.    *)
ReceiveNoPurpose(t) ==
  /\ up
  /\ pc[t] = "idle"
  /\ up' = FALSE
  /\ UNCHANGED <<data, migration_count, thread_count, mutex_sync, pc, req, reg,
                 found, path, reply, overlapped>>

CheckWithoutLock(t) ==              \* mutant: the slow path takes no lock
  /\ At(t, "check", "load")
  /\ path' = [path EXCEPT ![t] = IF migration_count > 0 THEN "slow" ELSE "fast"]
  /\ UNCHANGED <<data, migration_count, thread_count, mutex_sync, req, reg,
                 found, reply, up, overlapped>>

(* normal_thread: the unlocked test of migration_count picks the path.     *)
CheckMigration(t) ==
  /\ \/ migration_count > 0 /\ At(t, "check", "lock")
     \/ migration_count <= 0 /\ At(t, "check", "load")
  /\ path' = [path EXCEPT ![t] = IF migration_count > 0 THEN "slow" ELSE "fast"]
  /\ UNCHANGED <<data, migration_count, thread_count, mutex_sync, req, reg,
                 found, reply, up, overlapped>>

Lock(t) ==
  /\ At(t, "lock", IF IsData(t) THEN "load" ELSE "count")
  /\ mutex_sync = NoThread
  /\ mutex_sync' = t
  /\ UNCHANGED <<data, migration_count, thread_count, req, reg, found, path,
                 reply, up, overlapped>>

Unlock(t) ==
  /\ At(t, "unlock", "done")
  /\ mutex_sync' = NoThread
  /\ UNCHANGED <<data, migration_count, thread_count, req, reg, found, path,
                 reply, up, overlapped>>

(* thread_count++ and thread_count-- : a load, then a store.               *)
Load(t) ==
  /\ At(t, "load", "store") \/ At(t, "loaddec", "storedec")
  /\ reg' = [reg EXCEPT ![t] = thread_count]
  /\ UNCHANGED <<data, migration_count, thread_count, mutex_sync, req, found,
                 path, reply, up, overlapped>>

StoreIncrement(t) ==
  /\ At(t, "store", "find")
  /\ thread_count' = reg[t] + 1
  /\ UNCHANGED <<data, migration_count, mutex_sync, req, reg, found, path,
                 reply, up, overlapped>>

StoreDecrement(t) ==
  /\ At(t, "storedec", IF path[t] = "slow" THEN "unlock" ELSE "done")
  /\ thread_count' = reg[t] - 1
  /\ UNCHANGED <<data, migration_count, mutex_sync, req, reg, found, path,
                 reply, up, overlapped>>
----------------------------------------------------------------------------
(***************************************************************************)
(* The handlers.  Each finds the key in the table the request names (get   *)
(* always in data_client), then acts on what find() returned.              *)
(***************************************************************************)
Present(b, k) == b \in Table /\ data[b][k] # NoValue

TableOf(t) == IF req[t].purpose = "get" THEN "curr" ELSE req[t].table

(* The handlers of writes start with stoi(addAs), whose exception for a    *)
(* text that is no number nobody catches.                                  *)
Find(t) ==
  /\ At(t, "find", "apply")
  /\ found' = [found EXCEPT ![t] = Present(TableOf(t), req[t].key)]
  /\ up' = (TableOf(t) # "nonumber" \/ req[t].purpose = "termination")
  /\ UNCHANGED <<data, migration_count, thread_count, mutex_sync, req, reg,
                 path, reply, overlapped>>

Answer(t, text) == reply' = [reply EXCEPT ![t] = text]

Write(b, k, v) == data' = [data EXCEPT ![b][k] = v]

getUnchecked(t) ==                  \* mutant: operator[] without a find
  /\ req[t].purpose = "get"
  /\ Answer(t, IF Present("curr", req[t].key) THEN "value" ELSE "blank")
  /\ IF Present("curr", req[t].key) THEN UNCHANGED data
     ELSE Write("curr", req[t].key, Blank)
  /\ up' = up

getData(t) ==
  /\ req[t].purpose = "get"
  /\ \/ /\ ~found[t]
        /\ Answer(t, "failure")
        /\ UNCHANGED data
     \/ /\ found[t] /\ Present("curr", req[t].key)
        /\ Answer(t, "value")
        /\ UNCHANGED data
     \/ /\ found[t] /\ ~Present("curr", req[t].key)   \* operator[] inserts
        /\ Answer(t, "blank")
        /\ Write("curr", req[t].key, Blank)
  /\ up' = up

putUnchecked(t) ==                  \* mutant: insertion whatever find() said
  /\ req[t].purpose = "put" /\ req[t].table \in Table
  /\ Answer(t, "success")
  /\ Write(req[t].table, req[t].key, req[t].value)
  /\ up' = up

putData(t) ==
  /\ req[t].purpose = "put" /\ req[t].table \in Table
  /\ \/ /\ ~found[t]
        /\ Answer(t, "success")
        /\ Write(req[t].table, req[t].key, req[t].value)
     \/ /\ found[t]
        /\ Answer(t, "exists")
        /\ UNCHANGED data
  /\ up' = up

updateData(t) ==
  /\ req[t].purpose = "update" /\ req[t].table \in Table
  /\ Answer(t, IF found[t] THEN "exists" ELSE "added")
  /\ Write(req[t].table, req[t].key, req[t].value)
  /\ up' = up

(* erase(itr) on an element another thread has erased is undefined: the    *)
(* process may die, or the erase may do nothing that is ever noticed.      *)
deleteData(t) ==
  /\ req[t].purpose = "delete" /\ req[t].table \in Table
  /\ \/ /\ ~found[t]
        /\ Answer(t, "nexists")
        /\ UNCHANGED <<data, up>>
     \/ /\ found[t]
        /\ Answer(t, "success")
        /\ Write(req[t].table, req[t].key, NoValue)
        /\ up' \in IF Present(req[t].table, req[t].key) THEN {TRUE}
                   ELSE BOOLEAN

(* The else-branch of the three: the number names no table.                *)
no_proper_map(t) ==
  /\ req[t].purpose \in {"put", "update", "delete"}
  /\ req[t].table \notin Table
  /\ Answer(t, "unspecified")
  /\ UNCHANGED <<data, up>>

termination(t) ==
  /\ req[t].purpose = "termination"
  /\ UNCHANGED <<data, reply, up>>

Apply(t) ==
  /\ At(t, "apply", "loaddec")
  /\ \/ getData(t) \/ putData(t) \/ updateData(t) \/ deleteData(t)
     \/ no_proper_map(t) \/ termination(t)
  /\ UNCHANGED <<migration_count, thread_count, mutex_sync, req, reg, found,
                 path, overlapped>>
----------------------------------------------------------------------------
(***************************************************************************)
(* handle_migration_thread, from the moment it holds the mutex.            *)
(***************************************************************************)
MigrationCountLeaks(t) ==           \* mutant: no migration_count--
  /\ \/ At(t, "count", "wait") /\ migration_count' = migration_count + 1
     \/ At(t, "uncount", "unlock") /\ migration_count' = migration_count
  /\ UNCHANGED <<data, thread_count, mutex_sync, req, reg, found, path,
                 reply, up, overlapped>>

MigrationCount(t) ==
  /\ \/ At(t, "count", "wait") /\ migration_count' = migration_count + 1
     \/ At(t, "uncount", "unlock") /\ migration_count' = migration_count - 1
  /\ UNCHANGED <<data, thread_count, mutex_sync, req, reg, found, path,
                 reply, up, overlapped>>

WaitForThreads(t) ==
  /\ thread_count <= 0
  /\ At(t, "wait", "work")
  /\ UNCHANGED <<data, migration_count, thread_count, mutex_sync, req, reg,
                 found, path, reply, up, overlapped>>

(* m's entries overwrite those of table b.                                 *)
Overlay(b, m) ==
  data' = [data EXCEPT ![b] = [k \in Key |-> IF m[k] # NoValue THEN m[k]
                                             ELSE data[b][k]]]

(* merge_maps: copy every entry of data_secondary, then clear it.          *)
MergeCopy(t) ==
  /\ req[t].purpose = "merge"
  /\ At(t, "work", "clear")
  /\ Overlay("curr", data["prev"])
  /\ UNCHANGED <<migration_count, thread_count, mutex_sync, req, reg, found,
                 path, reply, up, overlapped>>

ClearWrongTable(t) ==               \* mutant: data_client.clear()
  /\ At(t, "clear", "uncount")
  /\ data' = [data EXCEPT !["curr"] = [k \in Key |-> NoValue]]
  /\ UNCHANGED <<migration_count, thread_count, mutex_sync, req, reg, found,
                 path, reply, up, overlapped>>

MergeClear(t) ==
  /\ At(t, "clear", "uncount")
  /\ data' = [data EXCEPT !["prev"] = [k \in Key |-> NoValue]]
  /\ UNCHANGED <<migration_count, thread_count, mutex_sync, req, reg, found,
                 path, reply, up, overlapped>>

(* send_map answers another slave; an unknown task is only reported.       *)
SendMap(t) ==
  /\ req[t].purpose \in {"send", "illegal"}
  /\ At(t, "work", "uncount")
  /\ reply' = [reply EXCEPT ![t] = IF req[t].purpose = "send" THEN "map" ELSE @]
  /\ UNCHANGED <<data, migration_count, thread_count, mutex_sync, req, reg,
                 found, path, up, overlapped>>

(* get_data: ask a peer, block for its answer, add what it sent.  An       *)
(* answer cut short by recv() does not parse and aborts the process.       *)
AskPeer(t) ==
  /\ req[t].purpose = "fetch"
  /\ At(t, "work", "answer")
  /\ UNCHANGED <<data, migration_count, thread_count, mutex_sync, req, reg,
                 found, path, reply, up, overlapped>>

AddToMap(t) ==
  /\ req[t].purpose = "fetch"
  /\ At(t, "answer", "uncount")
  /\ \/ /\ \E m \in PeerMap : Overlay(req[t].table, m)
        /\ up' = up
     \/ /\ up' = FALSE
        /\ UNCHANGED data
  /\ UNCHANGED <<migration_count, thread_count, mutex_sync, req, reg, found,
                 path, reply, overlapped>>
----------------------------------------------------------------------------
(***************************************************************************)
(* Two threads inside operations on the same std::unordered_map, one of    *)
(* them changing it, is undefined behaviour: the process may die.  (That   *)
(* nothing goes wrong is the other outcome: the operations' own actions.)  *)
(***************************************************************************)
Touches(t) ==
  CASE pc[t] \in {"find", "apply"} ->
         IF req[t].purpose = "termination" THEN {} ELSE {TableOf(t)} \cap Table
    [] pc[t] = "work" /\ req[t].purpose = "merge" -> Table
    [] pc[t] = "work" /\ req[t].purpose = "send" -> {req[t].table}
    [] pc[t] = "clear" -> {"prev"}
    [] pc[t] = "answer" -> {req[t].table}
    [] OTHER -> {}

Changes(t) ==
  CASE pc[t] = "apply" ->
         IF \/ req[t].purpose \in {"put", "update", "delete"}
            \/ req[t].purpose = "get" /\ found[t] /\ ~Present("curr", req[t].key)
         THEN {TableOf(t)} ELSE {}
    [] pc[t] = "work" /\ req[t].purpose = "merge" -> {"curr"}
    [] pc[t] = "clear" -> {"prev"}
    [] pc[t] = "answer" -> {req[t].table}
    [] OTHER -> {}

TableRace(t, u) ==
  /\ up
  /\ t # u
  /\ Touches(t) \cap Changes(u) # {}
  /\ up' = FALSE
  /\ UNCHANGED <<data, migration_count, thread_count, mutex_sync, pc, req,
                 reg, found, path, reply, overlapped>>

Step(t) ==
  \/ CheckMigration(t) \/ Lock(t) \/ Unlock(t)
  \/ Load(t) \/ StoreIncrement(t) \/ StoreDecrement(t)
  \/ Find(t) \/ Apply(t)
  \/ MigrationCount(t) \/ WaitForThreads(t)
  \/ MergeCopy(t) \/ MergeClear(t) \/ SendMap(t) \/ AskPeer(t) \/ AddToMap(t)

Next ==
  \/ \E t \in Thread : Step(t) \/ ReceiveNoPurpose(t)
  \/ \E t \in Thread, r \in Request : Receive(t, r)
  \/ \E t, u \in Thread : TableRace(t, u)

Spec == Init /\ [][Next]_vars

(* The operating system runs every runnable thread, so each keeps taking   *)
(* steps; nobody has to send a request, and a peer that was asked answers. *)
FairSpec == Spec /\ \A t \in Thread : WF_vars(Step(t))
----------------------------------------------------------------------------
TypeOK ==
  /\ data \in [Table -> [Key -> Entry]]
  /\ migration_count \in Int
  /\ thread_count \in Int
  /\ mutex_sync \in Thread \cup {NoThread}
  /\ pc \in [Thread -> Location]
  /\ req \in [Thread -> Request \cup {NoRequest}]
  /\ \A t \in Thread : pc[t] # "idle" => req[t] \in Request
  /\ reg \in [Thread -> Int]
  /\ found \in [Thread -> BOOLEAN]
  /\ path \in [Thread -> {"none", "slow", "fast"}]
  /\ reply \in [Thread -> {"none", "failure", "value", "blank", "success",
                           "exists", "added", "nexists", "map", "unspecified"}]
  /\ up \in BOOLEAN
  /\ overlapped \in BOOLEAN

(* The locations where a thread must hold mutex_sync.                      *)
Critical(t) ==
  \/ Migrating(t)
  \/ pc[t] \in {"count", "unlock"}
  \/ path[t] = "slow" /\ (Counted(t) \/ pc[t] \in {"load", "store"})

(* The mutex isolates migrations and slow-path requests from one another:  *)
(* no two of them are ever between lock and unlock (SlaveServer.cpp 448    *)
(* and 515).                                                               *)
Isolation == \A t, u \in Thread : Critical(t) /\ Critical(u) => t = u

(* The counter that normal_thread tests without the lock is 1 exactly      *)
(* while a migration is at work and 0 otherwise: increments and decrements *)
(* of migration_count are never lost, unlike those of thread_count.        *)
MigrationCountIsFlag ==
  migration_count = IF \E t \in Thread : Migrating(t) THEN 1 ELSE 0

(* A key whose put into data_client was answered "success" stays in        *)
(* data_client, whatever other requests and migrations do, unless somebody *)
(* asked to delete it.                                                     *)
Acked(t, b) ==
  req[t].purpose = "put" /\ req[t].table = b /\ reply[t] \in {"success", "exists"}

DeleteAsked(b, k) ==
  \E u \in Thread : /\ req[u].purpose = "delete"
                   /\ req[u].table = b
                   /\ req[u].key = k

AckedKeyStays ==
  \A t \in Thread : Acked(t, "curr") => \/ Present("curr", req[t].key)
                                        \/ DeleteAsked("curr", req[t].key)

----------------------------------------------------------------------------
(* As long as data requests come one at a time, each after the answer to   *)
(* the last, no get answers, or leaves, a blank value for a key that       *)
(* vanished between its find() and its operator[] (README.md:34, "If value *)
(* exist then value else failure"), whatever migrations and the threads    *)
(* that have answered but not ended do meanwhile.                          *)
NoBlankEntry ==
  overlapped \/ /\ \A k \in Key : data["curr"][k] # Blank
                /\ \A t \in Thread : reply[t] # "blank"

(* As long as data requests come one at a time, of several puts of a key   *)
(* into data_client only one is told "success" unless somebody asked to    *)
(* delete it (README.md:91, "success/exists/failure").                     *)
OnePutSucceeds ==
  overlapped \/ \A t, u \in Thread :
    /\ Acked(t, "curr") /\ reply[t] = "success"
    /\ Acked(u, "curr") /\ reply[u] = "success"
    /\ req[t].key = req[u].key
    => t = u \/ DeleteAsked("curr", req[t].key)

(* A migration that waits for the threads at work goes on once they have   *)
(* ended (the comment at SlaveServer.cpp:450, "Wait for current thread to  *)
(* exit"), even if requests come one at a time.  Refuted: the next request *)
(* counts itself up while the last one, already answered, counts itself    *)
(* down; one of the two updates of thread_count is lost.                   *)
WaitEnds ==
  \A t \in Thread : pc[t] = "wait" ~> pc[t] # "wait" \/ ~up \/ overlapped
=============================================================================
