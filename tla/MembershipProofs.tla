-------------------------- MODULE MembershipProofs --------------------------
(***************************************************************************)
(* What holds of the ring's members, for any number of slaves and of runs  *)
(* of a slave.                                                             *)
(*                                                                         *)
(* The inductive invariant counts: the ring has, at each point, as many    *)
(* nodes as there are processes of that point whose thread has inserted    *)
(* one and has not given it up (CountRight).  For a step to keep the       *)
(* count, a thread must start once only, which is what LoopRight says of   *)
(* the queue, and a process that sends heartbeats must have been           *)
(* registered (HeardRight).  All of it is said of the coordinator until    *)
(* two threads are in the tree, or in slavemap, at once: after that the    *)
(* module does not follow what the coordinator does.                       *)
(***************************************************************************)
EXTENDS Membership, TLAPS, SequenceTheorems, FiniteSetTheorems

Handlers == {"none", "insert", "inserting", "register", "registering", "returned",
             "monitor", "deleting", "migrate", "closed"}
HasNode == {"register", "registering", "returned", "monitor", "deleting"}

(* The processes that the ring has a node for, at point x.                 *)
Members(x) == {p \in Process : Point[p] = x /\ handler[p] \in HasNode}

Types ==
  /\ coord \in {"up", "down"}
  /\ backlog \in Seq(Process) /\ current \in Process \cup {NoPeer}
  /\ inbox \in [Process -> Seq({Syn, HeartBeat})]
  /\ DOMAIN outbox = Process /\ DOMAIN end = Process
  /\ ring \in [Points -> Nat]
  /\ pc \in [Process -> {"off", "syn", "ack", "beat", "dead"}]
  /\ handler \in [Process -> Handlers]

CountRight ==
  \A x \in Points : IsFiniteSet(Members(x)) /\ ring[x] = Cardinality(Members(x))

(* The loop has accepted, or has yet to accept, only who has no thread.    *)
Queued(p) == p = current \/ \E i \in DOMAIN backlog : backlog[i] = p

LoopRight ==
  /\ \A i, j \in DOMAIN backlog : backlog[i] = backlog[j] => i = j
  /\ \A i \in DOMAIN backlog : backlog[i] # current
  /\ \A p \in Process : Queued(p) => handler[p] = "none" /\ pc[p] # "off"
  /\ \A p \in Process : pc[p] = "off" => handler[p] = "none"

HeardRight ==
  \A p \in Process :
    pc[p] = "beat" \/ outbox[p] # <<>>
      => handler[p] \in {"returned", "monitor", "deleting", "migrate", "closed"}

MembersInv == Types /\ CountRight /\ LoopRight /\ HeardRight

----------------------------------------------------------------------------
Step(p) == Proceed(p) \/ Crash(p) \/ alwaysListen(p) \/ slaveHandle(p) \/ expire(p)

(* How the thread of p may go on; nobody else's does.                      *)
Turns(p) ==
  \/ handler' = handler /\ ring' = ring
  \/ /\ current = p /\ handler' = [handler EXCEPT ![p] = "insert"] /\ ring' = ring
  \/ /\ handler[p] = "insert" /\ handler' = [handler EXCEPT ![p] = "inserting"]
     /\ ring' = ring
  \/ /\ handler[p] = "inserting" /\ handler' = [handler EXCEPT ![p] = "register"]
     /\ ring' = [ring EXCEPT ![Point[p]] = @ + 1]
  \/ /\ handler[p] = "register" /\ handler' = [handler EXCEPT ![p] = "registering"]
     /\ ring' = ring
  \/ /\ handler[p] = "registering" /\ ring' = ring
     /\ \E to \in {"returned", "monitor"} : handler' = [handler EXCEPT ![p] = to]
  \/ /\ handler[p] = "monitor" /\ handler' = [handler EXCEPT ![p] = "deleting"]
     /\ ring' = ring
  \/ /\ handler[p] = "deleting" /\ handler' = [handler EXCEPT ![p] = "migrate"]
     /\ ring' = [ring EXCEPT ![Point[p]] = IF @ > 0 THEN @ - 1 ELSE @]
  \/ /\ handler[p] = "migrate" /\ handler' = [handler EXCEPT ![p] = "closed"]
     /\ ring' = ring

(* A step of a process, or of its thread, is one of the turns above.       *)
LEMMA TurnsStep ==
  ASSUME NEW p \in Process, Step(p) PROVE Turns(p)
<1>1. CASE Proceed(p) \/ Crash(p)
  BY <1>1 DEF Proceed, connection_establish, send_sync, synced, heart_beat_thr,
     LoseCoordinator, Crash, Here, Turns
<1>2. CASE alwaysListen(p)
  BY <1>2 DEF alwaysListen, FirstMessage, Turns
<1>3. CASE insert(p) \/ insertBST(p) \/ register(p) \/ poll(p)
  BY <1>3 DEF insert, insertBST, register, poll, Handle, Turns
<1>4. CASE registered(p)
  BY <1>4 DEF registered, Handle, Turns
<1>5. CASE expire(p) \/ delete(p) \/ migrated(p)
  BY <1>5 DEF expire, delete, migrated, Handle, Leave, Turns
<1> QED
  BY <1>1, <1>2, <1>3, <1>4, <1>5 DEF Step, slaveHandle

(* The count follows the threads.                                          *)
LEMMA CountStep ==
  ASSUME Types, CountRight, LoopRight, NEW p \in Process, Turns(p)
  PROVE  CountRight'
<1> DEFINE x == Point[p]
<1>a. /\ handler \in [Process -> Handlers] /\ ring \in [Points -> Nat] /\ x \in Points
      /\ \A y \in Points : IsFiniteSet(Members(y)) /\ ring[y] = Cardinality(Members(y))
  BY DEF Types, CountRight, Points
<1>1. ASSUME NEW to, NEW from, from = handler[p], handler' = [handler EXCEPT ![p] = to]
      PROVE  /\ \A y \in Points : y # x => Members(y)' = Members(y)
             /\ from \in HasNode /\ to \in HasNode => Members(x)' = Members(x)
             /\ from \notin HasNode /\ to \notin HasNode => Members(x)' = Members(x)
             /\ from \notin HasNode /\ to \in HasNode =>
                  p \notin Members(x) /\ Members(x)' = Members(x) \cup {p}
             /\ from \in HasNode /\ to \notin HasNode =>
                  p \in Members(x) /\ Members(x)' = Members(x) \ {p}
  BY <1>a, <1>1 DEF Members
<1>2. ASSUME ring' = ring, \A y \in Points : Members(y)' = Members(y)
      PROVE  CountRight'
  BY <1>a, <1>2 DEF CountRight
<1>3. ASSUME NEW to, NEW from, from = handler[p], handler' = [handler EXCEPT ![p] = to],
             ring' = ring, from \in HasNode <=> to \in HasNode
      PROVE  CountRight'
  <2>1. \A y \in Points : Members(y)' = Members(y)
    BY <1>1, <1>3
  <2> QED
    BY <1>2, <1>3, <2>1
<1>4. CASE handler' = handler /\ ring' = ring
  <2>1. \A y \in Points : Members(y)' = Members(y)
    BY <1>4 DEF Members
  <2> QED
    BY <1>2, <1>4, <2>1
<1>5. CASE current = p /\ handler' = [handler EXCEPT ![p] = "insert"] /\ ring' = ring
  <2>1. handler[p] = "none"
    BY <1>5 DEF LoopRight, Queued
  <2> QED
    BY <1>3, <1>5, <2>1 DEF HasNode
<1>6. CASE /\ handler[p] = "inserting" /\ handler' = [handler EXCEPT ![p] = "register"]
           /\ ring' = [ring EXCEPT ![x] = @ + 1]
  <2>1. /\ \A y \in Points : y # x => Members(y)' = Members(y)
        /\ p \notin Members(x) /\ Members(x)' = Members(x) \cup {p}
    BY <1>1, <1>6 DEF HasNode
  <2>2. /\ IsFiniteSet(Members(x)')
        /\ Cardinality(Members(x)') = Cardinality(Members(x)) + 1
    BY <1>a, <2>1, FS_AddElement
  <2>3. ring'[x] = ring[x] + 1 /\ \A y \in Points : y # x => ring'[y] = ring[y]
    BY <1>a, <1>6
  <2>4. ASSUME NEW y \in Points
        PROVE  IsFiniteSet(Members(y)') /\ ring'[y] = Cardinality(Members(y)')
    BY <1>a, <2>1, <2>2, <2>3
  <2> QED
    BY <2>4 DEF CountRight
<1>7. CASE /\ handler[p] = "registering" /\ ring' = ring
           /\ \E to \in {"returned", "monitor"} : handler' = [handler EXCEPT ![p] = to]
  BY <1>3, <1>7 DEF HasNode
<1>8. CASE /\ handler[p] = "deleting" /\ handler' = [handler EXCEPT ![p] = "migrate"]
           /\ ring' = [ring EXCEPT ![x] = IF @ > 0 THEN @ - 1 ELSE @]
  <2>1. /\ \A y \in Points : y # x => Members(y)' = Members(y)
        /\ p \in Members(x) /\ Members(x)' = Members(x) \ {p}
    BY <1>1, <1>8 DEF HasNode
  <2>2. /\ IsFiniteSet(Members(x)')
        /\ Cardinality(Members(x)') = Cardinality(Members(x)) - 1
        /\ Cardinality(Members(x)') \in Nat
    BY <1>a, <2>1, FS_RemoveElement, FS_CardinalityType
  <2>3. ring[x] > 0
    BY <1>a, <2>2
  <2>4. ring'[x] = ring[x] - 1 /\ \A y \in Points : y # x => ring'[y] = ring[y]
    BY <1>a, <1>8, <2>3
  <2>5. ASSUME NEW y \in Points
        PROVE  IsFiniteSet(Members(y)') /\ ring'[y] = Cardinality(Members(y)')
    BY <1>a, <2>1, <2>2, <2>4
  <2> QED
    BY <2>5 DEF CountRight
<1>9. CASE /\ handler[p] = "migrate" /\ handler' = [handler EXCEPT ![p] = "closed"]
           /\ ring' = ring
  BY <1>3, <1>9 DEF HasNode
<1>10. CASE /\ handler[p] = "insert" /\ handler' = [handler EXCEPT ![p] = "inserting"]
            /\ ring' = ring
  BY <1>3, <1>10 DEF HasNode
<1>11. CASE /\ handler[p] = "register"
            /\ handler' = [handler EXCEPT ![p] = "registering"]
            /\ ring' = ring
  BY <1>3, <1>11 DEF HasNode
<1>12. CASE /\ handler[p] = "monitor" /\ handler' = [handler EXCEPT ![p] = "deleting"]
            /\ ring' = ring
  BY <1>3, <1>12 DEF HasNode
<1> QED
  BY <1>4, <1>5, <1>6, <1>7, <1>8, <1>9, <1>10, <1>11, <1>12 DEF Turns

(* A process is in the queue once, and has a thread only afterwards.       *)
LEMMA LoopStep ==
  ASSUME Types, LoopRight, NEW p \in Process, Step(p), Turns(p)
  PROVE  LoopRight'
<1> USE MembershipAssumption DEF loop, wires, Here
<1>a. /\ backlog \in Seq(Process) /\ current \in Process \cup {NoPeer}
      /\ NoPeer \notin Process
      /\ DOMAIN pc = Process /\ handler \in [Process -> Handlers]
  BY AcceptAssumption DEF Types
<1>1. CASE connection_establish(p)
  <2>1. backlog' = Append(backlog, p) /\ current' = current /\ handler' = handler
        /\ pc[p] = "off" /\ pc' = [pc EXCEPT ![p] = "syn"]
    BY <1>1 DEF connection_establish, Connect, Goto
  <2>2. current # p /\ \A i \in DOMAIN backlog : backlog[i] # p
    BY <1>a, <2>1 DEF LoopRight, Queued
  <2>3. /\ DOMAIN backlog = 1 .. Len(backlog) /\ Len(backlog) \in Nat
        /\ DOMAIN backlog' = 1 .. Len(backlog) + 1
        /\ \A i \in 1 .. Len(backlog) : backlog'[i] = backlog[i]
        /\ backlog'[Len(backlog) + 1] = p
    BY <1>a, <2>1, AppendProperties, LenProperties
  <2>4. \A i \in DOMAIN backlog' : \/ i \in DOMAIN backlog /\ backlog'[i] = backlog[i]
                                   \/ i = Len(backlog) + 1 /\ backlog'[i] = p
    BY <2>3
  <2>5. \A i, j \in DOMAIN backlog' : backlog'[i] = backlog'[j] => i = j
    BY <1>a, <2>2, <2>4 DEF LoopRight
  <2>6. \A i \in DOMAIN backlog' : backlog'[i] # current'
    BY <1>a, <2>1, <2>2, <2>4 DEF LoopRight
  <2>7. ASSUME NEW q \in Process, Queued(q)'
        PROVE  handler'[q] = "none" /\ pc'[q] # "off"
    <3>1. CASE q = p
      BY <1>a, <2>1, <3>1 DEF LoopRight
    <3>2. CASE q # p
      <4>1. Queued(q)
        BY <2>1, <2>4, <2>7, <3>2 DEF Queued
      <4> QED
        BY <1>a, <2>1, <3>2, <4>1 DEF LoopRight
    <3> QED
      BY <3>1, <3>2
  <2>8. \A q \in Process : pc'[q] = "off" => handler'[q] = "none"
    BY <1>a, <2>1 DEF LoopRight
  <2> QED
    BY <2>5, <2>6, <2>7, <2>8 DEF LoopRight
<1>2. CASE accept(p) /\ UNCHANGED <<ring, slavemap, pc, handler, torn>>
  <2>1. /\ current = NoPeer /\ current' = p /\ p = Head(backlog) /\ backlog # << >>
        /\ backlog' = Tail(backlog) /\ UNCHANGED <<pc, handler>>
    BY <1>2 DEF accept
  <2>2. /\ p = backlog[1] /\ 1 \in DOMAIN backlog
        /\ \A i \in DOMAIN backlog' : /\ i \in Nat \ {0} /\ i + 1 \in DOMAIN backlog
                                      /\ backlog'[i] = backlog[i + 1]
    BY <1>a, <2>1, HeadTailProperties, LenProperties
  <2>3. \A i, j \in DOMAIN backlog' : backlog'[i] = backlog'[j] => i = j
    <3> SUFFICES ASSUME NEW i \in DOMAIN backlog', NEW j \in DOMAIN backlog',
                        backlog'[i] = backlog'[j]
                 PROVE  i = j
      OBVIOUS
    <3>1. i + 1 = j + 1
      BY <1>a, <2>2 DEF LoopRight
    <3> QED
      BY <2>2, <3>1
  <2>4. \A i \in DOMAIN backlog' : backlog'[i] # current'
    <3> SUFFICES ASSUME NEW i \in DOMAIN backlog', backlog'[i] = p PROVE FALSE
      BY <2>1
    <3>1. i + 1 = 1
      BY <1>a, <2>2 DEF LoopRight
    <3> QED
      BY <2>2, <3>1
  <2>5. \A q \in Process : Queued(q)' => Queued(q)
    BY <2>1, <2>2 DEF Queued
  <2> QED
    BY <1>a, <2>1, <2>3, <2>4, <2>5 DEF LoopRight
<1>3. CASE FirstMessage(p, "slave") /\ UNCHANGED <<outbox, ring, slavemap, pc, torn>>
           /\ handler' = [handler EXCEPT ![p] = "insert"]
  <2>1. current = p /\ current' = NoPeer /\ UNCHANGED <<backlog, pc>>
    BY <1>3 DEF FirstMessage
  <2>2. \A i \in DOMAIN backlog : backlog[i] # p /\ backlog[i] \in Process
    BY <1>a, <2>1 DEF LoopRight
  <2>3. pc[p] # "off"
    BY <2>1 DEF LoopRight, Queued
  <2> QED
    BY <1>a, <1>3, <2>1, <2>2, <2>3 DEF LoopRight, Queued
<1>4. ASSUME UNCHANGED loop,
             \A q \in Process : pc'[q] # "off" \/ pc'[q] = pc[q],
             \/ handler' = handler
             \/ handler[p] # "none" /\ \A q \in Process : q # p => handler'[q] = handler[q]
      PROVE  LoopRight'
  BY <1>a, <1>4 DEF LoopRight, Queued
<1>5. CASE send_sync(p) \/ synced(p) \/ heart_beat_thr(p) \/ LoseCoordinator(p) \/ Crash(p)
  BY <1>a, <1>4, <1>5 DEF send_sync, synced, heart_beat_thr, LoseCoordinator,
     Crash, Goto
<1>6. CASE FirstFails(p) /\ UNCHANGED <<ring, slavemap, pc, handler, torn>>
  BY <1>4, <1>6 DEF FirstFails
<1>7. CASE slaveHandle(p) \/ expire(p)
  BY <1>a, <1>4, <1>7 DEF slaveHandle, insert, insertBST, register, registered,
     poll, expire, delete, migrated, Handle
<1> QED
  BY <1>1, <1>2, <1>3, <1>5, <1>6, <1>7 DEF Step, Proceed, alwaysListen

(* Nobody is answered, or beats, before it is registered.                  *)
LEMMA HeardStep ==
  ASSUME Types, HeardRight, LoopRight, NEW p \in Process, Step(p), Turns(p)
  PROVE  HeardRight'
<1> USE MembershipAssumption DEF loop, wires, Here
<1>a. /\ DOMAIN outbox = Process /\ DOMAIN pc = Process /\ DOMAIN handler = Process
  BY DEF Types
<1>1. CASE synced(p)
  <2>1. outbox[p] = <<Connected>> /\ handler' = handler
        /\ pc' = [pc EXCEPT ![p] = "beat"] /\ outbox' = [outbox EXCEPT ![p] = << >>]
    BY <1>1 DEF synced, Goto
  <2>2. <<Connected>> # << >>
    OBVIOUS
  <2> QED
    BY <1>a, <2>1, <2>2 DEF HeardRight
<1>2. CASE connection_establish(p) \/ send_sync(p) \/ heart_beat_thr(p)
           \/ LoseCoordinator(p) \/ Crash(p)
  BY <1>2, <1>a DEF connection_establish, send_sync, heart_beat_thr,
     LoseCoordinator, Crash, Goto, HeardRight
<1>3. CASE FirstMessage(p, "slave") /\ UNCHANGED <<outbox, ring, slavemap, pc, torn>>
           /\ handler' = [handler EXCEPT ![p] = "insert"]
  <2>1. handler[p] = "none"
    BY <1>3 DEF FirstMessage, LoopRight, Queued
  <2> QED
    BY <1>3, <1>a, <2>1 DEF HeardRight
<1>4. CASE \/ accept(p) /\ UNCHANGED <<ring, slavemap, pc, handler, torn>>
           \/ FirstFails(p) /\ UNCHANGED <<ring, slavemap, pc, handler, torn>>
  BY <1>4 DEF accept, FirstFails, HeardRight
<1>5. CASE registered(p)
  <2>1. /\ handler[p] = "registering" /\ pc' = pc
        /\ \A q \in Process :
              q # p => handler'[q] = handler[q] /\ outbox'[q] = outbox[q]
        /\ handler'[p] \in {"returned", "monitor"}
    BY <1>5, <1>a DEF registered, Handle, Notify, Answer
  <2> QED
    BY <2>1 DEF HeardRight
<1>6. CASE insert(p) \/ insertBST(p) \/ register(p) \/ poll(p)
  BY <1>6, <1>a DEF insert, insertBST, register, poll, Handle, HeardRight
<1>7. CASE expire(p) \/ delete(p) \/ migrated(p)
  BY <1>7, <1>a DEF expire, delete, migrated, Handle, HeardRight
<1> QED
  BY <1>1, <1>2, <1>3, <1>4, <1>5, <1>6, <1>7 DEF Step, Proceed, alwaysListen,
     slaveHandle

(* Every step keeps the types.                                             *)
LEMMA TypesStep ==
  ASSUME Types, NEW p \in Process, Step(p), Turns(p)
  PROVE  Types'
<1> USE MembershipAssumption DEF loop, wires, Here
<1>a. Types
  OBVIOUS
<1>1. coord' \in {"up", "down"}
  BY <1>a DEF Types, Step, Proceed, connection_establish, send_sync, synced,
     heart_beat_thr, LoseCoordinator, Crash, alwaysListen, accept, FirstMessage,
     FirstFails, slaveHandle, insert, insertBST, register, registered, poll, migrated, expire, delete
<1>2. backlog' \in Seq(Process) /\ current' \in Process \cup {NoPeer}
  <2>1. CASE connection_establish(p)
    BY <1>a, <2>1, AppendProperties DEF connection_establish, Connect, Types
  <2>2. CASE accept(p)
    BY <1>a, <2>2, HeadTailProperties DEF accept, Types
  <2>3. CASE FirstMessage(p, "slave") \/ FirstFails(p)
    BY <1>a, <2>3 DEF FirstMessage, FirstFails, Types
  <2>4. CASE UNCHANGED loop
    BY <1>a, <2>4 DEF Types
  <2> QED
    BY <2>1, <2>2, <2>3, <2>4 DEF Step, Proceed, send_sync, synced,
       heart_beat_thr, LoseCoordinator, Crash, alwaysListen, slaveHandle,
       insert, insertBST, register, registered, poll, migrated, expire, delete
<1>3. inbox' \in [Process -> Seq({Syn, HeartBeat})]
  <2> DEFINE M == {Syn, HeartBeat}
  <2>a. inbox \in [Process -> Seq(M)] /\ inbox[p] \in Seq(M)
    BY <1>a DEF Types
  <2>1. ASSUME Taken(p) PROVE inbox' \in [Process -> Seq(M)]
    <3>1. SubSeq(inbox[p], Fits(p) + 1, Len(inbox[p])) \in Seq(M)
      <4>1. Len(inbox[p]) \in Nat /\ Fits(p) \in Nat /\ DOMAIN inbox[p] = 1 .. Len(inbox[p])
        BY <2>a, AcceptAssumption, LenProperties DEF Fits
      <4>2. /\ Fits(p) + 1 \in Int
            /\ \A i \in Fits(p) + 1 .. Len(inbox[p]) : i \in 1 .. Len(inbox[p])
        BY <4>1
      <4>3. \A i \in Fits(p) + 1 .. Len(inbox[p]) : inbox[p][i] \in M
        BY <2>a, <4>2, ElementOfSeq
      <4> QED
        BY <4>1, <4>2, <4>3, SubSeqProperties
    <3> QED
      BY <2>a, <2>1, <3>1 DEF Taken
  <2>2. ASSUME NEW m \in M, Send(p, <<m>>) PROVE inbox' \in [Process -> Seq(M)]
    <3>1. inbox[p] \o <<m>> \in Seq(M)
      <4>1. <<m>> \in Seq(M)
        OBVIOUS
      <4> QED
        BY <2>a, <4>1, ConcatProperties
    <3> QED
      BY <2>a, <2>2, <3>1 DEF Send
  <2>3. CASE send_sync(p) \/ heart_beat_thr(p)
    BY <2>2, <2>3 DEF send_sync, heart_beat_thr
  <2>4. CASE FirstMessage(p, "slave") \/ poll(p)
    BY <2>1, <2>4 DEF FirstMessage, poll
  <2>5. CASE inbox' = inbox
    BY <2>a, <2>5
  <2> QED
    BY <2>3, <2>4, <2>5 DEF Step, Proceed, connection_establish, synced,
       LoseCoordinator, Crash, alwaysListen, accept, FirstFails, slaveHandle,
       insert, insertBST, register, registered, migrated, expire, delete
<1>4. DOMAIN outbox' = Process /\ DOMAIN end' = Process
  BY <1>a DEF Types, Step, Proceed, connection_establish, send_sync, synced,
     heart_beat_thr, LoseCoordinator, Crash, alwaysListen, accept, FirstMessage,
     FirstFails, slaveHandle, insert, insertBST, register, registered, poll, migrated, expire, delete,
     Notify, Answer, Close
<1>5. pc' \in [Process -> {"off", "syn", "ack", "beat", "dead"}]
  BY <1>a DEF Types, Step, Proceed, connection_establish, send_sync, synced,
     heart_beat_thr, LoseCoordinator, Crash, alwaysListen, slaveHandle,
     insert, insertBST, register, registered, poll, migrated, expire, delete, Goto
<1>6. handler' \in [Process -> Handlers] /\ ring' \in [Points -> Nat]
  <2>1. handler \in [Process -> Handlers] /\ ring \in [Points -> Nat] /\ Point[p] \in Points
    BY <1>a DEF Types, Points
  <2>2. handler' \in [Process -> Handlers]
    BY <2>1 DEF Turns, Handlers
  <2>3. ring' \in [Points -> Nat]
    BY <2>1 DEF Turns
  <2> QED
    BY <2>2, <2>3
<1> QED
  BY <1>1, <1>2, <1>3, <1>4, <1>5, <1>6 DEF Types

(* The invariant is inductive.                                             *)
LEMMA MembersInvInit == Init => MembersInv
<1> SUFFICES ASSUME Init PROVE MembersInv
  OBVIOUS
<1> USE MembershipAssumption DEF Init, AcceptInit
<1>1. Types
  BY EmptySeq DEF Types, Handlers
<1>2. CountRight
  <2>1. \A x \in Points : Members(x) = {}
    BY DEF Members, HasNode
  <2> QED
    BY <2>1, FS_EmptySet DEF CountRight
<1>3. LoopRight
  BY AcceptAssumption DEF LoopRight, Queued
<1> QED
  BY <1>1, <1>2, <1>3 DEF MembersInv, HeardRight

(* Every step keeps the inductive invariant.                               *)
LEMMA MembersInvStep == MembersInv /\ [Next]_vars => MembersInv'
<1> SUFFICES ASSUME MembersInv, [Next]_vars PROVE MembersInv'
  OBVIOUS
<1>1. ASSUME NEW p \in Process, Step(p) PROVE MembersInv'
  <2>1. Turns(p)
    BY <1>1, TurnsStep
  <2> QED
    BY <1>1, <2>1, CountStep, LoopStep, HeardStep, TypesStep DEF MembersInv
<1>2. ASSUME UNCHANGED <<loop, wires, ring, pc, handler>>, coord' \in {"up", "down"}
      PROVE  MembersInv'
  <2>1. Types'
    BY <1>2 DEF loop, wires, MembersInv, Types
  <2>2. CountRight'
    BY <1>2 DEF MembersInv, CountRight, Members
  <2>3. LoopRight' /\ HeardRight'
    BY <1>2 DEF loop, wires, MembersInv, LoopRight, Queued, HeardRight
  <2> QED
    BY <2>1, <2>2, <2>3 DEF MembersInv
<1>3. CASE UNCHANGED vars \/ broken_tree
  BY <1>2, <1>3 DEF vars, broken_tree, MembersInv, Types
<1> QED
  BY <1>1, <1>2, <1>3 DEF Next, Step

(* Whatever slaves register, are given up and come back (slaveHandle,      *)
(* coordination_server.cpp), the ring has as many nodes at a point as      *)
(* threads have inserted there and not deleted: the inductive invariant.   *)
THEOREM MembersInvariant == Spec => []MembersInv
BY MembersInvInit, MembersInvStep, PTL DEF Spec

(* A slave that sends its heartbeats is in the ring until it is given up,  *)
(* however many runs of it, or slaves at its point, come and go, as long   *)
(* as no two threads are in the tree or in slavemap at once.               *)
THEOREM AliveAreInRing == Spec => []AliveInRing
<1>1. MembersInv => AliveInRing
  <2> SUFFICES ASSUME MembersInv, NEW p \in Process, pc[p] = "beat",
                      handler[p] \in {"returned", "monitor"}
               PROVE  ring[Point[p]] > 0
    BY DEF AliveInRing
  <2>1. p \in Members(Point[p]) /\ Point[p] \in Points
    BY DEF MembersInv, Types, Members, HasNode, Points
  <2>2. /\ IsFiniteSet(Members(Point[p]))
        /\ ring[Point[p]] = Cardinality(Members(Point[p]))
    BY <2>1 DEF MembersInv, CountRight
  <2>3. Cardinality(Members(Point[p])) \in Nat /\ Cardinality(Members(Point[p])) # 0
    BY <2>1, <2>2, FS_CardinalityType, FS_EmptySet
  <2> QED
    BY <2>2, <2>3
<1> QED
  BY <1>1, MembersInvariant, PTL

----------------------------------------------------------------------------
(* The tree as RingMembers has it: a bag of points.                        *)
Tree == INSTANCE RingMembers WITH Hash <- Points, members <- ring

(* The bag of points that stands for the tree here changes as RingMembers  *)
(* allows, which is what RingTree is shown to implement: a thread gives up *)
(* only a node that is there.  RingTree has one call at a time; once two   *)
(* threads are in the tree at once, neither module follows it.             *)
THEOREM RingIsMembers == Spec => Tree!Spec
<1>1. MembersInv /\ [Next]_vars => [Tree!Next]_ring
  <2> SUFFICES ASSUME MembersInv, [Next]_vars PROVE [Tree!Next]_ring
    OBVIOUS
  <2>1. ASSUME NEW p \in Process, Step(p) PROVE [Tree!Next]_ring
    <3>1. Turns(p) /\ Point[p] \in Points
      BY <2>1, TurnsStep DEF Points
    <3>2. CASE ring' = ring
      BY <3>2
    <3>3. CASE ring' = [ring EXCEPT ![Point[p]] = @ + 1]
      BY <3>1, <3>3 DEF Tree!Next, Tree!Join
    <3>4. CASE /\ handler[p] = "deleting"
               /\ ring' = [ring EXCEPT ![Point[p]] = IF @ > 0 THEN @ - 1 ELSE @]
      <4>1. p \in Members(Point[p])
        BY <3>4 DEF Members, HasNode
      <4>2. ring[Point[p]] = Cardinality(Members(Point[p]))
            /\ IsFiniteSet(Members(Point[p]))
        BY <3>1 DEF MembersInv, CountRight
      <4>3. ring[Point[p]] > 0
        BY <4>1, <4>2, FS_CardinalityType, FS_EmptySet
      <4>4. ring' = [ring EXCEPT ![Point[p]] = @ - 1]
        BY <3>4, <4>3
      <4> QED
        BY <3>1, <4>3, <4>4 DEF Tree!Next, Tree!Leave
    <3> QED
      BY <3>1, <3>2, <3>3, <3>4 DEF Turns
  <2>2. CASE UNCHANGED vars \/ broken_tree
    BY <2>2 DEF vars, broken_tree
  <2> QED
    BY <2>1, <2>2 DEF Next, Step
<1>2. Init => Tree!Init
  BY DEF Init, Tree!Init
<1> QED
  BY <1>1, <1>2, MembersInvariant, PTL DEF Spec, Tree!Spec
=============================================================================
