------------------------- MODULE SlaveServerProofs -------------------------
(***************************************************************************)
(* What holds of a slave process for any number of threads, keys, values   *)
(* and requests.                                                           *)
(*                                                                         *)
(* The argument: whoever is between lock and unlock is the owner recorded  *)
(* in mutex_sync, so there is at most one (Isolation), so increments and   *)
(* decrements of migration_count alternate (MigrationCountIsFlag).         *)
(***************************************************************************)
EXTENDS SlaveServer, TLAPS

(* Every thread in a critical section is the owner of the mutex, and the   *)
(* owner is in one; a request that waits for the mutex took the slow path. *)
LockHeld == \A t \in Thread : Critical(t) <=> mutex_sync = t

SlowWaits == \A t \in Thread : pc[t] = "lock" /\ IsData(t) => path[t] = "slow"

LockInv == TypeOK /\ LockHeld /\ SlowWaits /\ MigrationCountIsFlag

(* In its initial state a slave satisfies the invariant: no thread has     *)
(* started and the mutex is free.                                          *)
LEMMA InitLock == Init => LockInv
<1> SUFFICES ASSUME Init PROVE LockInv
  OBVIOUS
<1>1. TypeOK
  <2>1. data \in [Table -> [Key -> Entry]]
    BY DEF Init, Entry
  <2>2. /\ req \in [Thread -> Request \cup {NoRequest}]
        /\ pc = [t \in Thread |-> "idle"]
        /\ pc \in [Thread -> Location]
    BY DEF Init, Location
  <2>3. /\ path \in [Thread -> {"none", "slow", "fast"}]
        /\ reply \in [Thread -> {"none", "failure", "value", "blank", "success",
                        "exists", "added", "nexists", "map", "unspecified"}]
    BY DEF Init
  <2>4. /\ migration_count \in Int /\ thread_count \in Int
        /\ mutex_sync \in Thread \cup {NoThread}
        /\ reg \in [Thread -> Int]
    BY DEF Init
  <2>5. found \in [Thread -> BOOLEAN] /\ up \in BOOLEAN
    BY DEF Init
  <2>6. overlapped \in BOOLEAN
    BY DEF Init
  <2> QED
    BY <2>1, <2>2, <2>3, <2>4, <2>5, <2>6 DEF TypeOK
<1>2. LockHeld
  BY ThreadAssumption DEF Init, LockHeld, Critical, Migrating, Counted
<1>3. SlowWaits /\ MigrationCountIsFlag
  BY DEF Init, SlowWaits, MigrationCountIsFlag, Migrating
<1> QED
  BY <1>1, <1>2, <1>3 DEF LockInv

(* Assigning an entry of a table leaves both tables well-typed.             *)
LEMMA WriteType ==
  ASSUME data \in [Table -> [Key -> Entry]],
         NEW b \in Table, NEW k \in Key, NEW v \in Entry, Write(b, k, v)
  PROVE  data' \in [Table -> [Key -> Entry]]
  BY DEF Write

(* Adding a table to another leaves both well-typed.                       *)
LEMMA OverlayType ==
  ASSUME data \in [Table -> [Key -> Entry]],
         NEW b \in Table, NEW m \in [Key -> Entry], Overlay(b, m)
  PROVE  data' \in [Table -> [Key -> Entry]]
  BY DEF Overlay

(* Each step of any thread keeps every variable in its type.               *)
LEMMA TypeStep == TypeOK /\ [Next]_vars => TypeOK'
<1> SUFFICES ASSUME TypeOK, [Next]_vars PROVE TypeOK'
  OBVIOUS
<1> USE DEF TypeOK, At
<1>0. ASSUME NEW t \in Thread, ReceiveNoPurpose(t) PROVE TypeOK'
  BY <1>0 DEF ReceiveNoPurpose
<1>1. ASSUME NEW t \in Thread, NEW r \in Request, Receive(t, r) PROVE TypeOK'
  BY <1>1 DEF Receive, Overlaps, Location
<1>2. ASSUME NEW t \in Thread, CheckMigration(t) PROVE TypeOK'
  BY <1>2 DEF CheckMigration, Location
<1>3. ASSUME NEW t \in Thread, Lock(t) PROVE TypeOK'
  BY <1>3 DEF Lock, Location
<1>4. ASSUME NEW t \in Thread, Unlock(t) PROVE TypeOK'
  BY <1>4 DEF Unlock, Location
<1>5. ASSUME NEW t \in Thread, Load(t) PROVE TypeOK'
  BY <1>5 DEF Load, Location
<1>6. ASSUME NEW t \in Thread, StoreIncrement(t) PROVE TypeOK'
  BY <1>6 DEF StoreIncrement, Location
<1>7. ASSUME NEW t \in Thread, StoreDecrement(t) PROVE TypeOK'
  BY <1>7 DEF StoreDecrement, Location
<1>8. ASSUME NEW t \in Thread, Find(t) PROVE TypeOK'
  BY <1>8 DEF Find, Location, Present
<1>9. ASSUME NEW t \in Thread, Apply(t) PROVE TypeOK'
  <2>1. req[t] \in RequestType
    BY <1>9, RequestAssumption DEF Apply
  <2>2. /\ pc' \in [Thread -> Location]
        /\ \A u \in Thread : pc'[u] # "idle" => req'[u] \in Request
    BY <1>9 DEF Apply, Location
  <2>3. data' \in [Table -> [Key -> Entry]]
    <3> DEFINE k == req[t].key
    <3>1. /\ k \in Key /\ "curr" \in Table
          /\ req[t].value \in Entry /\ Blank \in Entry /\ NoValue \in Entry
      BY <2>1 DEF RequestType, Table, Entry
    <3>2. CASE getData(t)
      BY <3>1, <3>2, WriteType DEF getData
    <3>3. CASE putData(t)
      BY <3>1, <3>3, WriteType DEF putData
    <3>4. CASE updateData(t)
      BY <3>1, <3>4, WriteType DEF updateData
    <3>5. CASE deleteData(t)
      BY <3>1, <3>5, WriteType DEF deleteData
    <3>6. CASE no_proper_map(t) \/ termination(t)
      BY <3>6 DEF no_proper_map, termination
    <3> QED
      BY <1>9, <3>2, <3>3, <3>4, <3>5, <3>6 DEF Apply
  <2>4. /\ reply' \in [Thread -> {"none", "failure", "value", "blank",
                         "success", "exists", "added", "nexists", "map",
                         "unspecified"}]
        /\ up' \in BOOLEAN
    BY <1>9 DEF Apply, getData, putData, updateData, deleteData, no_proper_map,
       termination, Answer
  <2> QED
    BY <1>9, <2>2, <2>3, <2>4 DEF Apply
<1>10. ASSUME NEW t \in Thread, MigrationCount(t) PROVE TypeOK'
  BY <1>10 DEF MigrationCount, Location
<1>11. ASSUME NEW t \in Thread, WaitForThreads(t) PROVE TypeOK'
  BY <1>11 DEF WaitForThreads, Location
<1>12. ASSUME NEW t \in Thread, MergeCopy(t) PROVE TypeOK'
  <2>1. data' \in [Table -> [Key -> Entry]]
    BY <1>12, OverlayType DEF MergeCopy, Table
  <2> QED
    BY <1>12, <2>1 DEF MergeCopy, Location
<1>13. ASSUME NEW t \in Thread, MergeClear(t) PROVE TypeOK'
  BY <1>13 DEF MergeClear, Location, Table, Entry
<1>14. ASSUME NEW t \in Thread, SendMap(t) PROVE TypeOK'
  BY <1>14 DEF SendMap, Location
<1>15. ASSUME NEW t \in Thread, AskPeer(t) PROVE TypeOK'
  BY <1>15 DEF AskPeer, Location
<1>16. ASSUME NEW t \in Thread, AddToMap(t) PROVE TypeOK'
  <2>1. req[t].table \in Table
    BY <1>16, RequestAssumption DEF AddToMap, RequestType, DataPurpose
  <2>2. data' \in [Table -> [Key -> Entry]]
    BY <1>16, <2>1, OverlayType, PeerMapAssumption DEF AddToMap
  <2> QED
    BY <1>16, <2>2 DEF AddToMap, Location
<1>17. ASSUME NEW t \in Thread, NEW u \in Thread, TableRace(t, u) PROVE TypeOK'
  BY <1>17 DEF TableRace
<1>18. CASE UNCHANGED vars
  BY <1>18 DEF vars
<1> QED
  BY <1>0, <1>1, <1>2, <1>3, <1>4, <1>5, <1>6, <1>7, <1>8, <1>9, <1>10, <1>11,
     <1>12, <1>13, <1>14, <1>15, <1>16, <1>17, <1>18 DEF Next, Step

(* The owner recorded in the mutex and the locations of the threads agree  *)
(* after every step.                                                       *)
LEMMA LockStep == LockInv /\ [Next]_vars => LockHeld' /\ SlowWaits'
<1> SUFFICES ASSUME LockInv, [Next]_vars PROVE LockHeld' /\ SlowWaits'
  OBVIOUS
<1> USE DEF LockInv, LockHeld, SlowWaits, TypeOK, At, Critical, Migrating,
            Counted, IsData
<1>0. ASSUME NEW t \in Thread, ReceiveNoPurpose(t)
      PROVE  LockHeld' /\ SlowWaits'
  BY <1>0 DEF ReceiveNoPurpose
<1>1. ASSUME NEW t \in Thread, NEW r \in Request, Receive(t, r)
      PROVE  LockHeld' /\ SlowWaits'
  BY <1>1 DEF Receive, DataPurpose, Task
<1>2. ASSUME NEW t \in Thread, CheckMigration(t) PROVE LockHeld' /\ SlowWaits'
  BY <1>2 DEF CheckMigration
<1>3. ASSUME NEW t \in Thread, Lock(t) PROVE LockHeld' /\ SlowWaits'
  BY <1>3, ThreadAssumption DEF Lock
<1>4. ASSUME NEW t \in Thread, Unlock(t) PROVE LockHeld' /\ SlowWaits'
  BY <1>4, ThreadAssumption DEF Unlock
<1>5. ASSUME NEW t \in Thread, Load(t) PROVE LockHeld' /\ SlowWaits'
  BY <1>5 DEF Load
<1>6. ASSUME NEW t \in Thread, StoreIncrement(t) PROVE LockHeld' /\ SlowWaits'
  BY <1>6 DEF StoreIncrement
<1>7. ASSUME NEW t \in Thread, StoreDecrement(t) PROVE LockHeld' /\ SlowWaits'
  BY <1>7 DEF StoreDecrement
<1>8. ASSUME NEW t \in Thread, Find(t) PROVE LockHeld' /\ SlowWaits'
  BY <1>8 DEF Find
<1>9. ASSUME NEW t \in Thread, Apply(t) PROVE LockHeld' /\ SlowWaits'
  BY <1>9 DEF Apply
<1>10. ASSUME NEW t \in Thread, MigrationCount(t) PROVE LockHeld' /\ SlowWaits'
  BY <1>10 DEF MigrationCount
<1>11. ASSUME NEW t \in Thread, WaitForThreads(t) PROVE LockHeld' /\ SlowWaits'
  BY <1>11 DEF WaitForThreads
<1>12. ASSUME NEW t \in Thread, MergeCopy(t) PROVE LockHeld' /\ SlowWaits'
  BY <1>12 DEF MergeCopy
<1>13. ASSUME NEW t \in Thread, MergeClear(t) PROVE LockHeld' /\ SlowWaits'
  BY <1>13 DEF MergeClear
<1>14. ASSUME NEW t \in Thread, SendMap(t) PROVE LockHeld' /\ SlowWaits'
  BY <1>14 DEF SendMap
<1>15. ASSUME NEW t \in Thread, AskPeer(t) PROVE LockHeld' /\ SlowWaits'
  BY <1>15 DEF AskPeer
<1>16. ASSUME NEW t \in Thread, AddToMap(t) PROVE LockHeld' /\ SlowWaits'
  BY <1>16 DEF AddToMap
<1>17. ASSUME NEW t \in Thread, NEW u \in Thread, TableRace(t, u)
       PROVE  LockHeld' /\ SlowWaits'
  BY <1>17 DEF TableRace
<1>18. CASE UNCHANGED vars
  BY <1>18 DEF vars
<1> QED
  BY <1>0, <1>1, <1>2, <1>3, <1>4, <1>5, <1>6, <1>7, <1>8, <1>9, <1>10, <1>11,
     <1>12, <1>13, <1>14, <1>15, <1>16, <1>17, <1>18 DEF Next, Step

(* migration_count follows the one migration that holds the mutex.         *)
LEMMA FlagStep == LockInv /\ [Next]_vars => MigrationCountIsFlag'
<1> SUFFICES ASSUME LockInv, [Next]_vars PROVE MigrationCountIsFlag'
  OBVIOUS
<1> USE DEF LockInv, MigrationCountIsFlag, TypeOK, At, Migrating
<1>1. ASSUME NEW t \in Thread, MigrationCount(t) PROVE MigrationCountIsFlag'
  <2>1. \A u \in Thread : Migrating(u) \/ pc[u] = "count" => mutex_sync = u
    BY DEF LockHeld, Critical
  <2>2. CASE pc[t] = "count"
    <3>1. ~ \E u \in Thread : Migrating(u)
      BY <2>1, <2>2
    <3>2. Migrating(t)'
      BY <1>1, <2>2 DEF MigrationCount
    <3> QED
      BY <1>1, <2>2, <3>1, <3>2 DEF MigrationCount
  <2>3. CASE pc[t] = "uncount"
    <3>1. \A u \in Thread : Migrating(u) => u = t
      BY <2>1, <2>3
    <3>2. ~ \E u \in Thread : Migrating(u)'
      BY <1>1, <2>3, <3>1 DEF MigrationCount
    <3> QED
      BY <1>1, <2>3, <3>2 DEF MigrationCount
  <2> QED
    BY <1>1, <2>2, <2>3 DEF MigrationCount
<1>2. ASSUME migration_count' = migration_count,
             \A u \in Thread : Migrating(u)' <=> Migrating(u)
      PROVE  MigrationCountIsFlag'
  BY <1>2
<1>3. ASSUME NEW t \in Thread, NEW r \in Request, Receive(t, r)
      PROVE  MigrationCountIsFlag'
  BY <1>3, <1>2 DEF Receive
<1>4. ASSUME NEW t \in Thread, Step(t), ~MigrationCount(t)
      PROVE  MigrationCountIsFlag'
  <2>1. migration_count' = migration_count
    BY <1>4 DEF Step, CheckMigration, Lock, Unlock, Load, StoreIncrement,
       StoreDecrement, Find, Apply, WaitForThreads, MergeCopy, MergeClear,
       SendMap, AskPeer, AddToMap
  <2>2. \A u \in Thread : Migrating(u)' <=> Migrating(u)
    BY <1>4 DEF Step, CheckMigration, Lock, Unlock, Load, StoreIncrement,
       StoreDecrement, Find, Apply, WaitForThreads, MergeCopy, MergeClear,
       SendMap, AskPeer, AddToMap
  <2> QED
    BY <1>2, <2>1, <2>2
<1>5. ASSUME NEW t \in Thread,
             ReceiveNoPurpose(t) \/ \E u \in Thread : TableRace(t, u)
      PROVE  MigrationCountIsFlag'
  BY <1>5, <1>2 DEF ReceiveNoPurpose, TableRace
<1>6. CASE UNCHANGED vars
  BY <1>6, <1>2 DEF vars
<1> QED
  BY <1>1, <1>3, <1>4, <1>5, <1>6 DEF Next
----------------------------------------------------------------------------
(* In every reachable state of a slave the lock discipline holds: the      *)
(* inductive invariant behind the theorems below.                          *)
THEOREM LockInvariant == Spec => []LockInv
<1>1. LockInv /\ [Next]_vars => LockInv'
  BY TypeStep, LockStep, FlagStep DEF LockInv
<1> QED
  BY InitLock, <1>1, PTL DEF Spec

(* Every variable of a slave keeps its type, for any number of threads.    *)
THEOREM TypeCorrect == Spec => []TypeOK
<1>1. LockInv => TypeOK
  BY DEF LockInv
<1> QED
  BY LockInvariant, <1>1, PTL

(* mutex_sync isolates migrations and slow-path requests from one another  *)
(* (SlaveServer.cpp 448 and 515), however many threads there are.          *)
THEOREM MutexIsolates == Spec => []Isolation
<1>1. LockInv => Isolation
  BY DEF LockInv, LockHeld, Isolation
<1> QED
  BY LockInvariant, <1>1, PTL

(* The count of migrations a request tests without the lock is 1 while a   *)
(* migration is at work and 0 otherwise: its updates are never lost.       *)
THEOREM MigrationCountCorrect == Spec => []MigrationCountIsFlag
<1>1. LockInv => MigrationCountIsFlag
  BY DEF LockInv
<1> QED
  BY LockInvariant, <1>1, PTL
----------------------------------------------------------------------------
(***************************************************************************)
(* Acknowledged keys.  No step but a delete's takes a key out of           *)
(* data_client, and a thread keeps its request once it has received one.   *)
(***************************************************************************)
KeyStays(k) == Present("curr", k) \/ DeleteAsked("curr", k)

IdleKnowsNothing ==
  \A t \in Thread : pc[t] = "idle" => req[t] = NoRequest /\ reply[t] = "none"

FoundStays ==
  \A t \in Thread :
    /\ pc[t] = "apply" /\ found[t]
    /\ req[t].purpose = "put" /\ req[t].table = "curr"
    => KeyStays(req[t].key)

AckInv == TypeOK /\ IdleKnowsNothing /\ FoundStays /\ AckedKeyStays

(* A step of another thread changes nothing a thread remembers.            *)
LEMMA OtherStep ==
  ASSUME TypeOK, [Next]_vars, NEW t \in Thread,
         ~Step(t), \A r \in Request : ~Receive(t, r)
  PROVE  /\ pc'[t] = pc[t] /\ req'[t] = req[t]
         /\ found'[t] = found[t] /\ reply'[t] = reply[t]
<1> USE DEF TypeOK, At
<1>1. ASSUME NEW u \in Thread, u # t, Apply(u)
      PROVE  /\ pc'[t] = pc[t] /\ req'[t] = req[t]
             /\ found'[t] = found[t] /\ reply'[t] = reply[t]
  BY <1>1 DEF Apply, getData, putData, updateData, deleteData, no_proper_map,
     termination, Answer
<1>2. ASSUME NEW u \in Thread, u # t, Step(u), ~Apply(u)
      PROVE  /\ pc'[t] = pc[t] /\ req'[t] = req[t]
             /\ found'[t] = found[t] /\ reply'[t] = reply[t]
  BY <1>2 DEF Step, CheckMigration, Lock, Unlock, Load, StoreIncrement,
     StoreDecrement, Find, MigrationCount, WaitForThreads, MergeCopy,
     MergeClear, SendMap, AskPeer, AddToMap
<1>3. ASSUME NEW u \in Thread, u # t, NEW r \in Request, Receive(u, r)
      PROVE  /\ pc'[t] = pc[t] /\ req'[t] = req[t]
             /\ found'[t] = found[t] /\ reply'[t] = reply[t]
  BY <1>3 DEF Receive
<1>4. ASSUME NEW u \in Thread,
             ReceiveNoPurpose(u) \/ \E w \in Thread : TableRace(u, w)
      PROVE  /\ pc'[t] = pc[t] /\ req'[t] = req[t]
             /\ found'[t] = found[t] /\ reply'[t] = reply[t]
  BY <1>4 DEF ReceiveNoPurpose, TableRace
<1>5. CASE UNCHANGED vars
  BY <1>5 DEF vars
<1> QED
  BY <1>1, <1>2, <1>3, <1>4, <1>5 DEF Next

(* Only the handlers and send_map answer.                                  *)
LEMMA AnswerStep ==
  ASSUME TypeOK, [Next]_vars, NEW t \in Thread
  PROVE  Apply(t) \/ SendMap(t) \/ reply'[t] = reply[t]
<1>1. CASE \E r \in Request : Receive(t, r)
  BY <1>1 DEF Receive
<1>2. CASE Step(t)
  BY <1>2 DEF Step, CheckMigration, Lock, Unlock, Load, StoreIncrement,
     StoreDecrement, Find, MigrationCount, WaitForThreads, MergeCopy,
     MergeClear, AskPeer, AddToMap
<1> QED
  BY <1>1, <1>2, OtherStep

(* What each step leaves of a thread's request: a request that was         *)
(* received never changes.                                                 *)
LEMMA RequestStep ==
  ASSUME AckInv, [Next]_vars, NEW t \in Thread
  PROVE  /\ req'[t] = req[t] \/ (req[t] = NoRequest /\ reply[t] = "none")
         /\ pc'[t] = "idle" => pc[t] = "idle" /\ req'[t] = req[t]
  BY DEF AckInv, TypeOK, IdleKnowsNothing, Next, Step, vars, At, Receive,
     CheckMigration, Lock, Unlock, Load, StoreIncrement, StoreDecrement, Find,
     Apply, MigrationCount, WaitForThreads, MergeCopy, MergeClear, SendMap,
     AskPeer, AddToMap, TableRace,
     ReceiveNoPurpose

(* Each step leaves a key in data_client or somebody has asked to delete   *)
(* it.                                                                     *)
LEMMA KeyStep ==
  ASSUME AckInv, [Next]_vars, NEW k \in Key, KeyStays(k)
  PROVE  KeyStays(k)'
<1>1. CASE DeleteAsked("curr", k)
  <2>1. PICK u \in Thread : /\ req[u].purpose = "delete"
                            /\ req[u].table = "curr"
                            /\ req[u].key = k
    BY <1>1 DEF DeleteAsked
  <2>2. req'[u] = req[u]
    BY <2>1, RequestStep DEF NoRequest
  <2> QED
    BY <2>1, <2>2 DEF KeyStays, DeleteAsked
<1>2. CASE Present("curr", k)
  <2> USE <1>2 DEF AckInv, TypeOK, At, Present, KeyStays
  <2>1. ASSUME NEW t \in Thread, Apply(t) PROVE KeyStays(k)'
    <3>1. /\ req[t] \in RequestType
          /\ req'[t] = req[t]
      BY <2>1, RequestAssumption DEF Apply
    <3>2. CASE \/ getData(t) \/ putData(t) \/ updateData(t)
               \/ no_proper_map(t) \/ termination(t)
      BY <3>1, <3>2, MarkerAssumption DEF getData, putData, updateData,
         no_proper_map, termination, Write, RequestType, Table
    <3>3. CASE deleteData(t)
      <4>1. CASE req[t].key = k /\ req[t].table = "curr"
        BY <3>1, <3>3, <4>1 DEF deleteData, DeleteAsked
      <4>2. CASE ~(req[t].key = k /\ req[t].table = "curr")
        <5> DEFINE b == req[t].table
                   i == req[t].key
        <5>1. b \in Table /\ i \in Key /\ (i # k \/ b # "curr")
          BY <3>1, <3>3, <4>2 DEF RequestType, deleteData
        <5>2. data' = data \/ data' = [data EXCEPT ![b][i] = NoValue]
          BY <3>3 DEF deleteData, Write
        <5> QED
          BY <5>1, <5>2 DEF Table
      <4> QED
        BY <4>1, <4>2
    <3> QED
      BY <2>1, <3>2, <3>3 DEF Apply
  <2>2. ASSUME NEW t \in Thread, MergeCopy(t) PROVE KeyStays(k)'
    BY <2>2 DEF MergeCopy, Overlay, Table
  <2>3. ASSUME NEW t \in Thread, MergeClear(t) PROVE KeyStays(k)'
    BY <2>3 DEF MergeClear, Table
  <2>4. ASSUME NEW t \in Thread, AddToMap(t) PROVE KeyStays(k)'
    <3>1. req[t].table \in Table
      BY <2>4, RequestAssumption DEF AddToMap, RequestType, DataPurpose
    <3> DEFINE b == req[t].table
    <3>2. ASSUME NEW m \in PeerMap,
                 data' = [data EXCEPT ![b] = [i \in Key |-> IF m[i] # NoValue
                                               THEN m[i] ELSE data[b][i]]]
          PROVE  KeyStays(k)'
      BY <3>1, <3>2 DEF Table
    <3> QED
      BY <2>4, <3>2 DEF AddToMap, Overlay
  <2>5. CASE data' = data
    BY <2>5
  <2> QED
    BY <2>1, <2>2, <2>3, <2>4, <2>5 DEF Next, Step, vars, Receive,
       CheckMigration, Lock, Unlock, Load, StoreIncrement, StoreDecrement,
       Find, MigrationCount, WaitForThreads, SendMap, AskPeer, TableRace,
     ReceiveNoPurpose
<1> QED
  BY <1>1, <1>2 DEF KeyStays

(* A thread that is told its put succeeded has just put the key, or has    *)
(* found it.                                                               *)
LEMMA AckStep ==
  ASSUME AckInv, [Next]_vars, NEW t \in Thread, Acked(t, "curr")'
  PROVE  KeyStays(req[t].key)'
<1> USE DEF AckInv, TypeOK, At, Acked
<1>1. CASE Acked(t, "curr")
  <2>1. req'[t] = req[t] /\ req[t] \in Request
    BY <1>1, RequestStep DEF NoRequest
  <2>2. req[t].key \in Key /\ KeyStays(req[t].key)
    BY <1>1, <2>1, RequestAssumption DEF RequestType, AckedKeyStays, KeyStays
  <2> QED
    BY <2>1, <2>2, KeyStep
<1>2. CASE ~Acked(t, "curr")
  <2>1. Apply(t) /\ req' = req
    <3>1. CASE reply'[t] = reply[t]
      BY <1>2, <3>1, RequestStep DEF IdleKnowsNothing
    <3>2. CASE SendMap(t)
      BY <1>2, <3>2 DEF SendMap
    <3>3. CASE Apply(t)
      BY <3>3 DEF Apply
    <3> QED
      BY <3>1, <3>2, <3>3, AnswerStep
  <2>2. putData(t) /\ req[t] \in RequestType
    BY <1>2, <2>1, RequestAssumption DEF Apply, getData, updateData, deleteData,
       no_proper_map, termination, Answer
  <2>3. CASE found[t]
    <3>1. KeyStays(req[t].key)
      BY <1>2, <2>1, <2>2, <2>3 DEF FoundStays, Apply
    <3> QED
      BY <2>1, <2>2, <3>1, KeyStep DEF RequestType
  <2>4. CASE ~found[t]
    BY <1>2, <2>1, <2>2, <2>4, MarkerAssumption
       DEF putData, Write, KeyStays, Present, RequestType, Table
  <2> QED
    BY <2>3, <2>4
<1> QED
  BY <1>1, <1>2

(* A handler that found the key keeps it, until it answers.                *)
LEMMA FoundStep ==
  ASSUME AckInv, [Next]_vars, NEW t \in Thread,
         pc'[t] = "apply", found'[t],
         req'[t].purpose = "put", req'[t].table = "curr"
  PROVE  KeyStays(req[t].key)'
<1> USE DEF AckInv, TypeOK, At
<1>1. CASE Find(t)
  <2>1. req' = req /\ req[t] \in RequestType
    BY <1>1, RequestAssumption DEF Find
  <2>2. Present("curr", req[t].key)
    BY <1>1, <2>1 DEF Find, TableOf
  <2> QED
    BY <2>1, <2>2, KeyStep DEF KeyStays, RequestType
<1>2. CASE ~Find(t)
  <2>1. pc[t] = "apply" /\ found'[t] = found[t] /\ req'[t] = req[t]
    <3>1. CASE \E r \in Request : Receive(t, r)
      BY <3>1 DEF Receive
    <3>2. CASE Step(t)
      BY <1>2, <3>2 DEF Step, CheckMigration, Lock, Unlock, Load,
         StoreIncrement, StoreDecrement, Apply, MigrationCount,
         WaitForThreads, MergeCopy, MergeClear, SendMap, AskPeer, AddToMap
    <3> QED
      BY <3>1, <3>2, OtherStep
  <2>2. req[t] \in RequestType /\ KeyStays(req[t].key)
    BY <2>1, RequestAssumption DEF FoundStays
  <2> QED
    BY <2>1, <2>2, KeyStep DEF RequestType
<1> QED
  BY <1>1, <1>2

(* No thread has been answered in the initial state.                       *)
LEMMA InitAck == Init => AckInv
<1>1. Init => TypeOK
  BY InitLock DEF LockInv
<1> QED
  BY <1>1 DEF Init, AckInv, IdleKnowsNothing, FoundStays, AckedKeyStays, Acked

(* Each step of any thread keeps every acknowledged key.                   *)
LEMMA AckInvStep == AckInv /\ [Next]_vars => AckInv'
<1> SUFFICES ASSUME AckInv, [Next]_vars PROVE AckInv'
  OBVIOUS
<1>1. TypeOK'
  BY TypeStep DEF AckInv
<1>2. IdleKnowsNothing'
  <2> SUFFICES ASSUME NEW t \in Thread, pc'[t] = "idle"
               PROVE  req'[t] = NoRequest /\ reply'[t] = "none"
    BY DEF IdleKnowsNothing
  <2>1. pc[t] = "idle" /\ req'[t] = req[t]
    BY RequestStep
  <2>2. reply'[t] = reply[t]
    BY <2>1, AnswerStep DEF AckInv, Apply, SendMap, At
  <2> QED
    BY <2>1, <2>2 DEF AckInv, IdleKnowsNothing
<1>3. FoundStays'
  BY FoundStep DEF FoundStays
<1>4. AckedKeyStays'
  BY AckStep DEF AckedKeyStays, KeyStays, Acked
<1> QED
  BY <1>1, <1>2, <1>3, <1>4 DEF AckInv

(* A key whose put into data_client was answered is there until somebody   *)
(* asks to delete it (SlaveServer.cpp 187 to 236), whatever the other      *)
(* requests and the migrations do.                                         *)
THEOREM AckedKeysStay == Spec => []AckedKeyStays
<1>1. AckInv => AckedKeyStays
  BY DEF AckInv
<1> QED
  BY InitAck, AckInvStep, <1>1, PTL DEF Spec

----------------------------------------------------------------------------
(***************************************************************************)
(* Data requests that come one at a time, as the coordination server sends *)
(* them when it has one client: each after the answer to the last.  The    *)
(* thread that answered has still to count itself down, and migrations     *)
(* come at any time.                                                       *)
(*                                                                         *)
(* The argument: what a handler's find() saw in data_client is still so    *)
(* when it acts on it, because no other handler is at work before it has   *)
(* answered, and no migration takes a key out of data_client or puts a     *)
(* blank one in.                                                           *)
(***************************************************************************)
Working == {"check", "load", "store", "find", "apply"}

DataOnly ==
  \A t \in Thread :
    pc[t] \in Working \cup {"loaddec", "storedec"} => IsData(t)

SilentBefore ==
  \A t \in Thread : pc[t] \in Working \cup {"idle", "lock"} => reply[t] = "none"

OneUnanswered ==
  overlapped \/ \A t, u \in Thread : Unanswered(t) /\ Unanswered(u) => t = u

SerialInv == TypeOK /\ DataOnly /\ SilentBefore /\ OneUnanswered

(* Each step keeps what is known of requests and answers, and there is one *)
(* unanswered request at most until two have overlapped.                   *)
LEMMA SerialStep ==
  ASSUME SerialInv, [Next]_vars
  PROVE  SerialInv' /\ (overlapped => overlapped')
<1>0. TypeOK'
  BY TypeStep DEF SerialInv
<1> USE DEF SerialInv, TypeOK, At, OneUnanswered, DataOnly, SilentBefore,
            Working, Unanswered, IsData
<1>1. ASSUME NEW t \in Thread, NEW r \in Request, Receive(t, r)
      PROVE  /\ DataOnly' /\ SilentBefore' /\ OneUnanswered'
             /\ overlapped => overlapped'
  <2>1. DataOnly' /\ SilentBefore'
    BY <1>1 DEF Receive
  <2>2. overlapped => overlapped'
    BY <1>1 DEF Receive, Overlaps
  <2>3. OneUnanswered'
    <3>1. CASE r.purpose \in DataPurpose
      BY <1>1, <3>1 DEF Receive, Overlaps
    <3>2. CASE r.purpose \notin DataPurpose
      BY <1>1, <3>2 DEF Receive, Overlaps
    <3> QED
      BY <3>1, <3>2
  <2> QED
    BY <2>1, <2>2, <2>3
<1>2. ASSUME NEW t \in Thread, Step(t)
      PROVE  /\ DataOnly' /\ SilentBefore'
             /\ req' = req /\ overlapped' = overlapped
             /\ \A u \in Thread : Unanswered(u)' => Unanswered(u)
  <2>1. CASE Apply(t)
    <3>1. /\ pc' = [pc EXCEPT ![t] = "loaddec"] /\ pc[t] = "apply"
          /\ req' = req /\ overlapped' = overlapped
      BY <2>1 DEF Apply
    <3>2. \A u \in Thread : /\ reply'[u] = "none" => reply[u] = "none"
                            /\ u # t => reply'[u] = reply[u]
      <4>1. CASE getData(t)
        BY <4>1 DEF getData, Answer
      <4>2. CASE putData(t) \/ no_proper_map(t) \/ updateData(t)
        BY <4>2 DEF putData, no_proper_map, updateData, Answer
      <4>3. CASE deleteData(t) \/ termination(t)
        BY <4>3 DEF deleteData, termination, Answer
      <4> QED
        BY <2>1, <4>1, <4>2, <4>3 DEF Apply
    <3> QED
      BY <3>1, <3>2
  <2>2. CASE CheckMigration(t) \/ Lock(t) \/ Unlock(t) \/ Load(t)
    BY <1>2, <2>2 DEF CheckMigration, Lock, Unlock, Load
  <2>3. CASE StoreIncrement(t) \/ StoreDecrement(t) \/ Find(t)
    BY <1>2, <2>3 DEF StoreIncrement, StoreDecrement, Find
  <2>4. CASE MigrationCount(t) \/ WaitForThreads(t) \/ AskPeer(t) \/ AddToMap(t)
    BY <1>2, <2>4 DEF MigrationCount, WaitForThreads, AskPeer, AddToMap
  <2>5. CASE MergeCopy(t) \/ MergeClear(t) \/ SendMap(t)
    BY <1>2, <2>5 DEF MergeCopy, MergeClear, SendMap
  <2> QED
    BY <1>2, <2>1, <2>2, <2>3, <2>4, <2>5 DEF Step
<1>3. ASSUME NEW t \in Thread,
             ReceiveNoPurpose(t) \/ \E u \in Thread : TableRace(t, u)
      PROVE  /\ DataOnly' /\ SilentBefore' /\ OneUnanswered'
             /\ overlapped' = overlapped
  BY <1>3 DEF ReceiveNoPurpose, TableRace
<1>4. CASE UNCHANGED vars
  BY <1>0, <1>4 DEF vars
<1>5. ASSUME NEW t \in Thread, Step(t) PROVE OneUnanswered'
  BY <1>2, <1>5
<1> QED
  BY <1>0, <1>1, <1>2, <1>3, <1>4, <1>5 DEF Next

(* Two threads are never both between a handler's find() and its access.   *)
LEMMA OneHandler ==
  ASSUME SerialInv, ~overlapped, NEW t \in Thread, NEW u \in Thread,
         pc[t] \in {"find", "apply"}, pc[u] \in {"find", "apply"}
  PROVE  t = u
  BY DEF SerialInv, OneUnanswered, Unanswered, DataOnly, SilentBefore, Working

(* No step makes a thread arrive at its access but its own find().         *)
LEMMA ArriveStep ==
  ASSUME TypeOK, [Next]_vars, NEW t \in Thread, pc'[t] = "apply"
  PROVE  \/ Find(t)
         \/ /\ pc[t] = "apply" /\ req'[t] = req[t] /\ found'[t] = found[t]
            /\ ~Apply(t)
<1> USE DEF TypeOK, At
<1>1. CASE \E r \in Request : Receive(t, r)
  BY <1>1 DEF Receive
<1>2. CASE Step(t)
  BY <1>2 DEF Step, CheckMigration, Lock, Unlock, Load, StoreIncrement,
     StoreDecrement, Apply, MigrationCount, WaitForThreads, MergeCopy,
     MergeClear, SendMap, AskPeer, AddToMap
<1> QED
  BY <1>1, <1>2, OtherStep DEF Apply

(* What a step does to data_client when no handler acts: nothing, or one   *)
(* of the migrations' merges, which lay a map over it.                     *)
LEMMA MigrationStep ==
  ASSUME TypeOK, [Next]_vars, \A t \in Thread : ~Apply(t)
  PROVE  \/ data'["curr"] = data["curr"]
         \/ \E m \in PeerMap \cup {data["prev"]} :
              \A k \in Key :
                data'["curr"][k] = IF m[k] # NoValue THEN m[k]
                                   ELSE data["curr"][k]
<1> USE DEF TypeOK, At
<1>1. ASSUME NEW t \in Thread, MergeCopy(t)
      PROVE  \A k \in Key :
               data'["curr"][k] = IF data["prev"][k] # NoValue
                                  THEN data["prev"][k] ELSE data["curr"][k]
  BY <1>1 DEF MergeCopy, Overlay, Table
<1>2. ASSUME NEW t \in Thread, MergeClear(t)
      PROVE  data'["curr"] = data["curr"]
  BY <1>2 DEF MergeClear, Table
<1>3. ASSUME NEW t \in Thread, AddToMap(t)
      PROVE  \/ data'["curr"] = data["curr"]
             \/ \E m \in PeerMap :
                  \A k \in Key :
                    data'["curr"][k] = IF m[k] # NoValue THEN m[k]
                                       ELSE data["curr"][k]
  <2> DEFINE b == req[t].table
  <2>1. b \in Table
    BY <1>3, RequestAssumption DEF AddToMap, RequestType, DataPurpose
  <2>2. CASE data' = data
    BY <2>2
  <2>3. ASSUME NEW m \in PeerMap,
               data' = [data EXCEPT ![b] = [k \in Key |->
                          IF m[k] # NoValue THEN m[k] ELSE data[b][k]]]
        PROVE  \/ data'["curr"] = data["curr"]
               \/ \A k \in Key :
                    data'["curr"][k] = IF m[k] # NoValue THEN m[k]
                                       ELSE data["curr"][k]
    <3>1. CASE b = "curr"
      BY <2>3, <3>1 DEF Table
    <3>2. CASE b # "curr"
      BY <2>3, <3>2 DEF Table
    <3> QED
      BY <3>1, <3>2
  <2> QED
    BY <1>3, <2>2, <2>3 DEF AddToMap, Overlay
<1>4. CASE data' = data
  BY <1>4
<1> QED
  BY <1>1, <1>2, <1>3, <1>4 DEF Next, Step, vars, Receive, CheckMigration,
     Lock, Unlock, Load, StoreIncrement, StoreDecrement, Find, MigrationCount,
     WaitForThreads, SendMap, AskPeer, TableRace,
     ReceiveNoPurpose

(* A key of data_client stays there while no handler acts.                 *)
LEMMA PresentStays ==
  ASSUME TypeOK, [Next]_vars, \A t \in Thread : ~Apply(t),
         NEW k \in Key, Present("curr", k)
  PROVE  Present("curr", k)'
  BY MigrationStep DEF Present
----------------------------------------------------------------------------
(***************************************************************************)
(* No blank values.                                                        *)
(***************************************************************************)
TablesHoldNoBlank == \A b \in Table, k \in Key : data[b][k] # Blank

(* A get that found its key still finds it when it reads the value.        *)
FoundIsPresent ==
  \A t \in Thread :
    pc[t] = "apply" /\ found[t] /\ req[t].purpose = "get"
      => Present("curr", req[t].key)

NoBlankAnswer == \A t \in Thread : reply[t] # "blank"

NothingBlank == TablesHoldNoBlank /\ FoundIsPresent /\ NoBlankAnswer

NoBlankInv == SerialInv /\ (overlapped \/ NothingBlank)

(* What a handler found is there until it acts.                            *)
LEMMA FoundIsPresentStep ==
  ASSUME SerialInv, NothingBlank, ~overlapped, [Next]_vars
  PROVE  FoundIsPresent'
<1> SUFFICES ASSUME NEW t \in Thread, pc'[t] = "apply", found'[t],
                    req'[t].purpose = "get"
             PROVE  data'["curr"][req'[t].key] # NoValue
  BY DEF FoundIsPresent, Present, Table
<1> USE DEF NothingBlank, SerialInv, TypeOK, At
<1>1. CASE Find(t)
  BY <1>1 DEF Find, TableOf, Present
<1>2. CASE ~Find(t)
  <2>1. /\ pc[t] = "apply" /\ req'[t] = req[t] /\ found'[t] = found[t]
        /\ ~Apply(t)
    BY <1>2, ArriveStep
  <2>2. \A u \in Thread : ~Apply(u)
    BY <2>1, OneHandler DEF Apply
  <2>3. req[t].key \in Key
    BY <2>1, RequestAssumption DEF RequestType
  <2>4. Present("curr", req[t].key)
    BY <2>1 DEF FoundIsPresent
  <2>5. data'["curr"][req[t].key] # NoValue
    BY <2>2, <2>3, <2>4, PresentStays DEF Present
  <2> QED
    BY <2>1, <2>5
<1> QED
  BY <1>1, <1>2

(* No step puts a blank value in a table or answers with one, if clients   *)
(* do not store it and peers do not send it.                               *)
LEMMA NoBlankStep ==
  ASSUME Blank \notin Value, \A m \in PeerMap, k \in Key : m[k] # Blank,
         TypeOK, NothingBlank, [Next]_vars
  PROVE  TablesHoldNoBlank' /\ NoBlankAnswer'
<1> USE DEF NothingBlank, TypeOK, At, TablesHoldNoBlank, NoBlankAnswer, Table
<1>1. NoValue # Blank
  BY MarkerAssumption
<1>2. ASSUME NEW t \in Thread, Apply(t)
      PROVE  TablesHoldNoBlank' /\ NoBlankAnswer'
  <2>1. req[t] \in RequestType
    BY <1>2, RequestAssumption DEF Apply
  <2> DEFINE b == req[t].table
             k == req[t].key
             v == req[t].value
  <2>2. k \in Key /\ v \in Value /\ v # Blank
    BY <2>1 DEF RequestType
  <2>3. CASE getData(t)
    <3>1. found[t] => Present("curr", k)
      BY <1>2, <2>3 DEF Apply, getData, FoundIsPresent
    <3> QED
      BY <2>3, <3>1 DEF getData, Answer
  <2>4. CASE putData(t)
    <3>1. data' = data \/ data' = [data EXCEPT ![b][k] = v]
      BY <2>4 DEF putData, Write
    <3> QED
      BY <2>2, <2>4, <3>1 DEF putData, Answer
  <2>5. CASE updateData(t)
    <3>1. data' = [data EXCEPT ![b][k] = v]
      BY <2>5 DEF updateData, Write
    <3> QED
      BY <2>2, <2>5, <3>1 DEF updateData, Answer
  <2>6. CASE deleteData(t)
    <3>1. data' = data \/ data' = [data EXCEPT ![b][k] = NoValue]
      BY <2>6 DEF deleteData, Write
    <3>2. TablesHoldNoBlank'
      BY <1>1, <2>2, <3>1
    <3>3. \A u \in Thread : reply'[u] # "blank"
      BY <2>6 DEF deleteData, Answer
    <3> QED
      BY <3>2, <3>3
  <2>7. CASE no_proper_map(t) \/ termination(t)
    BY <2>7 DEF no_proper_map, termination, Answer
  <2> QED
    BY <1>2, <2>3, <2>4, <2>5, <2>6, <2>7 DEF Apply
<1>3. ASSUME NEW t \in Thread, MergeCopy(t)
      PROVE  TablesHoldNoBlank' /\ NoBlankAnswer'
  BY <1>3 DEF MergeCopy, Overlay
<1>4. ASSUME NEW t \in Thread, MergeClear(t)
      PROVE  TablesHoldNoBlank' /\ NoBlankAnswer'
  BY <1>1, <1>4 DEF MergeClear
<1>5. ASSUME NEW t \in Thread, AddToMap(t)
      PROVE  TablesHoldNoBlank' /\ NoBlankAnswer'
  <2> DEFINE b == req[t].table
  <2>1. b \in Table
    BY <1>5, RequestAssumption DEF AddToMap, RequestType, DataPurpose
  <2>2. ASSUME NEW m \in PeerMap,
               data' = [data EXCEPT ![b] = [k \in Key |->
                          IF m[k] # NoValue THEN m[k] ELSE data[b][k]]]
        PROVE  TablesHoldNoBlank'
    BY <2>1, <2>2
  <2> QED
    BY <1>5, <2>2 DEF AddToMap, Overlay
<1>6. ASSUME NEW t \in Thread, SendMap(t)
      PROVE  TablesHoldNoBlank' /\ NoBlankAnswer'
  BY <1>6 DEF SendMap
<1>7. CASE data' = data /\ reply' = reply
  BY <1>7
<1> QED
  BY <1>2, <1>3, <1>4, <1>5, <1>6, <1>7 DEF Next, Step, vars, Receive,
     CheckMigration, Lock, Unlock, Load, StoreIncrement, StoreDecrement, Find,
     MigrationCount, WaitForThreads, AskPeer, TableRace, ReceiveNoPurpose

(* The state a slave starts in is one of the serial invariant.             *)
LEMMA InitSerial == Init => SerialInv
<1>1. Init => TypeOK
  BY InitLock DEF LockInv
<1> QED
  BY <1>1 DEF Init, SerialInv, DataOnly, SilentBefore, OneUnanswered,
     Unanswered, Working, IsData, NoRequest, DataPurpose

(* As long as data requests come one at a time, no get answers or stores a *)
(* blank value (SlaveServer.cpp 167 to 185: find() and operator[] are      *)
(* separate), whatever the migrations and the threads that have answered   *)
(* do meanwhile, if neither clients nor peers send one.                    *)
THEOREM SerialNoBlank ==
  ASSUME Blank \notin Value, \A m \in PeerMap, k \in Key : m[k] # Blank
  PROVE  Spec => []NoBlankEntry
<1>1. Init => NoBlankInv
  BY InitSerial, MarkerAssumption
     DEF Init, NoBlankInv, NothingBlank, TablesHoldNoBlank, FoundIsPresent,
         NoBlankAnswer, Table
<1>2. NoBlankInv /\ [Next]_vars => NoBlankInv'
  <2> SUFFICES ASSUME NoBlankInv, [Next]_vars PROVE NoBlankInv'
    OBVIOUS
  <2>1. SerialInv' /\ (overlapped => overlapped')
    BY SerialStep DEF NoBlankInv
  <2>2. CASE overlapped
    BY <2>1, <2>2 DEF NoBlankInv
  <2>3. CASE ~overlapped
    <3>1. TypeOK /\ SerialInv /\ NothingBlank
      BY <2>3 DEF NoBlankInv, SerialInv
    <3> QED
      BY <2>1, <2>3, <3>1, FoundIsPresentStep, NoBlankStep
         DEF NoBlankInv, NothingBlank
  <2> QED
    BY <2>2, <2>3
<1>3. NoBlankInv => NoBlankEntry
  BY DEF NoBlankInv, NothingBlank, TablesHoldNoBlank, NoBlankAnswer,
     NoBlankEntry, Table
<1> QED
  BY <1>1, <1>2, <1>3, PTL DEF Spec
----------------------------------------------------------------------------
(***************************************************************************)
(* One successful put.  A put that did not find its key is still the only  *)
(* one when it inserts it.                                                 *)
(***************************************************************************)
AbsentNobodyPut ==
  \A t, u \in Thread :
    /\ pc[t] = "apply" /\ ~found[t]
    /\ req[t].purpose = "put" /\ req[t].table = "curr"
    /\ Acked(u, "curr") /\ req[u].key = req[t].key
    => DeleteAsked("curr", req[t].key)

OnePut ==
  \A t, u \in Thread :
    /\ Acked(t, "curr") /\ reply[t] = "success"
    /\ Acked(u, "curr") /\ reply[u] = "success"
    /\ req[t].key = req[u].key
    => t = u \/ DeleteAsked("curr", req[t].key)

OnePutInv == SerialInv /\ AckInv /\ (overlapped \/ (AbsentNobodyPut /\ OnePut))

(* That a key was asked to be deleted is never forgotten.                  *)
LEMMA DeleteAskedStays ==
  ASSUME AckInv, [Next]_vars, NEW k \in Key, DeleteAsked("curr", k)
  PROVE  DeleteAsked("curr", k)'
<1>1. PICK u \in Thread : /\ req[u].purpose = "delete"
                          /\ req[u].table = "curr"
                          /\ req[u].key = k
  BY DEF DeleteAsked
<1>2. req'[u] = req[u]
  BY <1>1, RequestStep DEF NoRequest
<1> QED
  BY <1>1, <1>2 DEF DeleteAsked

(* A put's answer is an earlier one or the thread's own handler gave it.   *)
LEMMA AckOrigin ==
  ASSUME AckInv, [Next]_vars, NEW t \in Thread, Acked(t, "curr")'
  PROVE  \/ /\ Acked(t, "curr") /\ req'[t] = req[t] /\ reply'[t] = reply[t]
            /\ req[t].key \in Key
         \/ /\ Apply(t) /\ putData(t) /\ req' = req
            /\ req[t].table = "curr" /\ req[t].key \in Key
<1> USE DEF AckInv, TypeOK, At, Acked
<1>1. CASE reply'[t] = reply[t]
  <2>1. req'[t] = req[t] /\ req[t] \in Request
    BY <1>1, RequestStep DEF NoRequest
  <2> QED
    BY <1>1, <2>1, RequestAssumption DEF RequestType
<1>2. CASE SendMap(t)
  BY <1>2 DEF SendMap
<1>3. CASE Apply(t)
  <2>1. req' = req /\ req[t] \in RequestType
    BY <1>3, RequestAssumption DEF Apply
  <2> QED
    BY <1>3, <2>1 DEF Apply, getData, updateData, deleteData,
       no_proper_map, termination, Answer, RequestType
<1> QED
  BY <1>1, <1>2, <1>3, AnswerStep

(* What find() did not see is not put by another thread before the access. *)
LEMMA AbsentStep ==
  ASSUME OnePutInv, ~overlapped, [Next]_vars
  PROVE  AbsentNobodyPut'
<1> SUFFICES ASSUME NEW t \in Thread, NEW u \in Thread,
                    pc'[t] = "apply", ~found'[t],
                    req'[t].purpose = "put", req'[t].table = "curr",
                    Acked(u, "curr")', req'[u].key = req'[t].key,
                    NEW k, k = req'[t].key
             PROVE  DeleteAsked("curr", k)'
  BY DEF AbsentNobodyPut, DeleteAsked
<1>0. TypeOK
  BY DEF OnePutInv, SerialInv
<1>1. CASE Find(t)
  <2>1. req' = req /\ ~Present("curr", k) /\ req[t].key = k
    BY <1>0, <1>1 DEF Find, TableOf, TypeOK
  <2>2. ~Apply(u)
    BY <1>0, <1>1 DEF Find, Apply, At, TypeOK
  <2>3. Acked(u, "curr") /\ k \in Key /\ req[u].key = k
    BY <2>1, <2>2, AckOrigin DEF OnePutInv
  <2>4. DeleteAsked("curr", k)
    BY <2>1, <2>3 DEF OnePutInv, AckInv, AckedKeyStays
  <2> QED
    BY <2>3, <2>4, DeleteAskedStays DEF OnePutInv
<1>2. CASE ~Find(t)
  <2>1. /\ pc[t] = "apply" /\ req'[t] = req[t] /\ found'[t] = found[t]
        /\ ~Apply(t)
    BY <1>0, <1>2, ArriveStep
  <2>2. ~Apply(u)
    BY <2>1, OneHandler DEF Apply, At, OnePutInv
  <2>3. Acked(u, "curr") /\ k \in Key /\ req[u].key = k
    BY <2>1, <2>2, AckOrigin DEF OnePutInv
  <2>4. DeleteAsked("curr", k)
    BY <2>1, <2>3 DEF OnePutInv, AbsentNobodyPut
  <2> QED
    BY <2>3, <2>4, DeleteAskedStays DEF OnePutInv
<1> QED
  BY <1>1, <1>2

(* Of two puts of a key that were told "success", one handler's answer is  *)
(* the older, and the other handler had not found the key.                 *)
LEMMA OnePutStep ==
  ASSUME OnePutInv, ~overlapped, [Next]_vars
  PROVE  OnePut'
<1>1. ASSUME NEW t \in Thread, NEW u \in Thread, t # u,
             Acked(t, "curr")', reply'[t] = "success", Apply(t), putData(t),
             Acked(u, "curr")', req'[u].key = req'[t].key
      PROVE  DeleteAsked("curr", req[t].key)' /\ req'[t] = req[t]
  <2>1. ~Apply(u)
    BY <1>1 DEF Apply, At, OnePutInv, SerialInv, TypeOK
  <2>2. /\ Acked(u, "curr") /\ req' = req
        /\ req[t].table = "curr" /\ req[t].key \in Key
    <3>1. Acked(u, "curr") /\ req' = req
      BY <1>1, <2>1, AckOrigin DEF OnePutInv, Apply
    <3>2. req[t].table = "curr" /\ req[t].key \in Key
      BY <1>1, <3>1, AckOrigin DEF OnePutInv, Acked
    <3> QED
      BY <3>1, <3>2
  <2>3. ~found[t] /\ pc[t] = "apply" /\ req[t].purpose = "put"
    <3>1. reply'[t] = IF found[t] THEN "exists" ELSE "success"
      BY <1>1 DEF putData, Answer, OnePutInv, SerialInv, TypeOK
    <3> QED
      BY <1>1, <3>1 DEF putData, Apply, At
  <2>4. DeleteAsked("curr", req[t].key)
    BY <1>1, <2>2, <2>3 DEF OnePutInv, AbsentNobodyPut
  <2> QED
    BY <2>2, <2>4, DeleteAskedStays DEF OnePutInv
<1> SUFFICES ASSUME NEW t \in Thread, NEW u \in Thread, t # u,
                    Acked(t, "curr")', reply'[t] = "success",
                    Acked(u, "curr")', reply'[u] = "success",
                    req'[t].key = req'[u].key,
                    NEW k, k = req'[t].key
             PROVE  DeleteAsked("curr", k)'
  BY DEF OnePut, DeleteAsked
<1>2. CASE Apply(t) /\ putData(t)
  <2>1. req'[t] = req[t] /\ DeleteAsked("curr", req[t].key)'
    BY <1>1, <1>2
  <2> QED
    BY <2>1 DEF DeleteAsked
<1>3. CASE Apply(u) /\ putData(u)
  <2>1. req'[u] = req[u] /\ DeleteAsked("curr", req[u].key)'
    BY <1>1, <1>3
  <2> QED
    BY <2>1 DEF DeleteAsked
<1>4. CASE ~(Apply(t) /\ putData(t)) /\ ~(Apply(u) /\ putData(u))
  <2>1. /\ Acked(t, "curr") /\ reply[t] = "success" /\ req[t].key = k
        /\ Acked(u, "curr") /\ reply[u] = "success" /\ req[u].key = k
        /\ k \in Key
    BY <1>4, AckOrigin DEF OnePutInv
  <2>2. DeleteAsked("curr", k)
    BY <2>1 DEF OnePutInv, OnePut
  <2> QED
    BY <2>1, <2>2, DeleteAskedStays DEF OnePutInv
<1> QED
  BY <1>2, <1>3, <1>4

(* As long as data requests come one at a time, of several puts of a key   *)
(* into data_client only one is told "success" (SlaveServer.cpp 187 to     *)
(* 236), however many threads there are, unless somebody asked to delete   *)
(* it.                                                                     *)
THEOREM SerialOnePut == Spec => []OnePutSucceeds
<1>1. Init => OnePutInv
  BY InitSerial, InitAck
     DEF Init, OnePutInv, AbsentNobodyPut, OnePut, Acked
<1>2. OnePutInv /\ [Next]_vars => OnePutInv'
  <2> SUFFICES ASSUME OnePutInv, [Next]_vars PROVE OnePutInv'
    OBVIOUS
  <2>1. SerialInv' /\ (overlapped => overlapped')
    BY SerialStep DEF OnePutInv
  <2>2. AckInv'
    BY AckInvStep DEF OnePutInv
  <2>3. CASE overlapped
    BY <2>1, <2>2, <2>3 DEF OnePutInv
  <2>4. CASE ~overlapped
    BY <2>1, <2>2, <2>4, AbsentStep, OnePutStep DEF OnePutInv
  <2> QED
    BY <2>3, <2>4
<1>3. OnePutInv => OnePutSucceeds
  BY DEF OnePutInv, OnePut, OnePutSucceeds
<1> QED
  BY <1>1, <1>2, <1>3, PTL DEF Spec
=============================================================================
