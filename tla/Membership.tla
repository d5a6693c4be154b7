----------------------------- MODULE Membership -----------------------------
(***************************************************************************)
(* Who is in the ring: a slave's life from main to its last heartbeat, and *)
(* slaveHandle, the coordinator's thread that registers it, listens to its *)
(* heartbeats and gives it up.  A process is one run of a slave; another   *)
(* run on the same host, or of the same slave, is another process.  The    *)
(* ring is a bag of points: its tree is in RingTree, what a migration does *)
(* in Migration.                                                           *)
(***************************************************************************)
EXTENDS AcceptLoop, FiniteSets

CONSTANTS
  Process,
  Address,     \* the IP address of each process, the key of slavemap
  Point,       \* and the hash of its address and port
  MaxBeats     \* heartbeats that a connection holds before send blocks

ASSUME MembershipAssumption ==
  /\ Process = Peer
  /\ DOMAIN Address = Process /\ DOMAIN Point = Process
  /\ \A p, q \in Process : Point[p] = Point[q] => Address[p] = Address[q]
  /\ MaxBeats \in Nat \ {0}

VARIABLES
  ring,      \* how many nodes of the tree have each point
  slavemap,  \* the addresses in slavemap; none is ever erased
  pc,        \* where each process is
  handler,   \* the slaveHandle thread of each process
  torn       \* have two threads been in the tree, or in slavemap, at once?

vars == <<coord, loop, wires, ring, slavemap, pc, handler, torn>>

Syn == [type |-> "slave"]
HeartBeat == [type |-> "1"]
Connected == [status |-> "connected"]

Points == {Point[p] : p \in Process}

Init ==
  /\ AcceptInit
  /\ ring = [x \in Points |-> 0]
  /\ slavemap = {}
  /\ pc = [p \in Process |-> "off"]
  /\ handler = [p \in Process |-> "none"]
  /\ torn = FALSE
----------------------------------------------------------------------------
(***************************************************************************)
(* The slave.                                                              *)
(***************************************************************************)
Goto(p, from, to) == pc[p] \in from /\ pc' = [pc EXCEPT ![p] = to]
Here == <<coord, ring, slavemap, handler, torn>>

(* A process needs the port that an earlier run of the slave had.          *)
connection_establish(p) ==
  /\ \A q \in Process \ {p} : Point[q] = Point[p] => pc[q] \in {"off", "dead"}
  /\ Connect(p)
  /\ Goto(p, {"off"}, "syn")
  /\ UNCHANGED <<Here, current, wires>>

send_sync(p) ==
  /\ Goto(p, {"syn"}, "ack")
  /\ Send(p, <<Syn>>)
  /\ UNCHANGED <<Here, loop, outbox, end>>

(* The answer has come: the heartbeat thread starts, and main listens.     *)
synced(p) ==
  /\ outbox[p] = <<Connected>>
  /\ Goto(p, {"ack"}, "beat")
  /\ outbox' = [outbox EXCEPT ![p] = <<>>]
  /\ UNCHANGED <<Here, loop, inbox, end>>

(* The coordinator has closed the connection, or has ended.                *)
Broken(p) == coord = "down" \/ handler[p] = "closed"

heart_beat_thr(p) ==
  /\ pc[p] = "beat" /\ ~Broken(p)
  /\ Len(inbox[p]) < MaxBeats
  /\ Send(p, <<HeartBeat>>)
  /\ UNCHANGED <<Here, loop, pc, outbox, end>>

(* The first send is answered with a reset, the next raises SIGPIPE; a     *)
(* slave that still waits for the answer reads the empty text and aborts.  *)
LoseCoordinator(p) ==
  /\ Broken(p)
  /\ Goto(p, {"syn", "ack", "beat"}, "dead")
  /\ outbox' = [outbox EXCEPT ![p] = <<>>]
  /\ Close(p, "reset")
  /\ UNCHANGED <<Here, loop, inbox>>

Crash(p) ==
  /\ ~Broken(p)
  /\ Goto(p, {"syn", "ack", "beat"}, "dead")
  /\ outbox' = [outbox EXCEPT ![p] = <<>>]
  /\ Close(p, IF outbox[p] = <<>> THEN "closed" ELSE "reset")
  /\ UNCHANGED <<Here, loop, inbox>>
----------------------------------------------------------------------------
(***************************************************************************)
(* The coordinator.  Its threads use the tree and slavemap without a lock, *)
(* and what two of them at once make of either is undefined: the           *)
(* coordinator may end, and what it does otherwise is not followed.        *)
(***************************************************************************)
alwaysListen(p) ==
  /\ ~torn
  /\ \/ accept(p) /\ UNCHANGED <<ring, slavemap, pc, handler, torn>>
     \/ /\ FirstMessage(p, "slave")
        /\ handler' = [handler EXCEPT ![p] = "insert"]
        /\ UNCHANGED <<outbox, ring, slavemap, pc, torn>>
     \/ FirstFails(p) /\ UNCHANGED <<ring, slavemap, pc, handler, torn>>

Handle(p, from, to) ==
  /\ coord = "up" /\ ~torn
  /\ handler[p] = from /\ handler' = [handler EXCEPT ![p] = to]

(* What is written to a process that is gone is lost.                      *)
Notify(p) == IF end[p] = "open" THEN Answer(p, Connected) ELSE UNCHANGED outbox

(* Where a thread is in the tree, and where in slavemap.                   *)
InTree == {"inserting", "deleting"}
InSlavemap == {"registering"}

Enter(p, room) == torn' = (torn \/ \E q \in Process \ {p} : handler[q] \in room)

(* The tree has the new node before slavemap is asked about the address.   *)
insert(p) ==
  /\ Handle(p, "insert", "inserting")
  /\ Enter(p, InTree)
  /\ UNCHANGED <<coord, loop, wires, ring, slavemap, pc>>

insertBST(p) ==
  /\ Handle(p, "inserting", "register")
  /\ ring' = [ring EXCEPT ![Point[p]] = @ + 1]
  /\ UNCHANGED <<coord, loop, wires, slavemap, pc, torn>>

(* An address that was there before, from another slave of the host or an  *)
(* earlier run, is told the same, but nobody listens to its heartbeats.    *)
register(p) ==
  /\ Handle(p, "register", "registering")
  /\ Enter(p, InSlavemap)
  /\ UNCHANGED <<coord, loop, wires, ring, slavemap, pc>>

registered(p) ==
  /\ Handle(p, "registering",
            IF Address[p] \in slavemap THEN "returned" ELSE "monitor")
  /\ slavemap' = slavemap \cup {Address[p]}
  /\ Notify(p)
  /\ UNCHANGED <<coord, loop, inbox, end, ring, pc, torn>>

(* One recv, every two seconds: what it takes restarts the clock.          *)
poll(p) ==
  /\ coord = "up" /\ ~torn
  /\ handler[p] = "monitor"
  /\ inbox[p] # <<>>
  /\ Taken(p)
  /\ UNCHANGED <<coord, loop, outbox, end, ring, slavemap, pc, handler, torn>>

LeaveAll(x) == ring' = [ring EXCEPT ![x] = 0]   \* mutant: all of a point

(* deleteBST: one node of that point.                                      *)
Leave(x) == ring' = [ring EXCEPT ![x] = IF @ > 0 THEN @ - 1 ELSE @]

(* A recv found nothing and a millisecond of the coordinator's own CPU     *)
(* time has passed since one did: the slave is down, whatever it is doing. *)
expire(p) ==
  /\ Handle(p, "monitor", "deleting")
  /\ inbox[p] = <<>>
  /\ Enter(p, InTree)
  /\ UNCHANGED <<coord, loop, wires, ring, slavemap, pc>>

(* deleteBST and the look-ups around it.  With nobody left in the tree     *)
(* findMinimum follows a null pointer.                                     *)
delete(p) ==
  /\ Handle(p, "deleting", "migrate")
  /\ Leave(Point[p])
  /\ coord' = IF \A x \in Points : ring'[x] = 0 THEN "down" ELSE coord
  /\ UNCHANGED <<loop, wires, slavemap, pc, torn>>

migrated_open(p) ==                 \* mutant: no close(fd)
  /\ Handle(p, "migrate", "returned")
  /\ UNCHANGED <<coord, loop, wires, ring, slavemap, pc, torn>>

(* migrationInitDown is over: close(fd).                                   *)
migrated(p) ==
  /\ Handle(p, "migrate", "closed")
  /\ UNCHANGED <<coord, loop, wires, ring, slavemap, pc, torn>>

slaveHandle(p) ==
  \/ insert(p) \/ insertBST(p) \/ register(p) \/ registered(p) \/ poll(p)
  \/ delete(p) \/ migrated(p)

broken_tree ==
  /\ torn /\ coord = "up"
  /\ coord' = "down"
  /\ UNCHANGED <<loop, wires, ring, slavemap, pc, handler, torn>>
----------------------------------------------------------------------------
Proceed(p) ==
  \/ connection_establish(p) \/ send_sync(p) \/ synced(p)
  \/ heart_beat_thr(p) \/ LoseCoordinator(p)

Next ==
  \/ \E p \in Process :
       Proceed(p) \/ Crash(p) \/ alwaysListen(p) \/ slaveHandle(p) \/ expire(p)
  \/ broken_tree

(* Threads run.  A recv that finds nothing prints so, which uses CPU time: *)
(* a monitor that never hears anything again does expire.                  *)
Spec ==
  /\ Init /\ [][Next]_vars
  /\ \A p \in Process :
       /\ WF_vars(Proceed(p)) /\ WF_vars(alwaysListen(p))
       /\ WF_vars(slaveHandle(p)) /\ WF_vars(expire(p))
----------------------------------------------------------------------------
TypeOK ==
  /\ AcceptTypeOK({Syn, HeartBeat}, {Connected})
  /\ \A p \in Process : Len(inbox[p]) <= MaxBeats /\ Len(outbox[p]) <= 1
  /\ ring \in [Points -> 0..Cardinality(Process)]
  /\ slavemap \subseteq {Address[p] : p \in Process}
  /\ pc \in [Process -> {"off", "syn", "ack", "beat", "dead"}]
  /\ handler \in [Process -> {"none", "insert", "inserting", "register", "registering",
                              "returned", "monitor", "deleting", "migrate", "closed"}]
  /\ torn \in BOOLEAN

(* A slave that has registered and sends its heartbeats is in the ring     *)
(* until its own monitor gives it up: neither the death of an earlier run  *)
(* nor others' registrations and deaths take anything from it, as long as  *)
(* no two threads are in the tree or in slavemap at once, which nothing    *)
(* prevents.                                                               *)
AliveInRing ==
  coord = "up" /\ ~torn =>
    \A p \in Process :
      pc[p] = "beat" /\ handler[p] \in {"returned", "monitor"} => ring[Point[p]] > 0

(* Slave and coordinator come to agree, also after a false suspicion: a    *)
(* monitored slave that dies is given up, whatever heartbeats are still    *)
(* unread; a slave that was given up dies; and none outlives a coordinator *)
(* that has ended.  The first two hold as long as no two threads are in    *)
(* the tree or in slavemap at once.                                        *)
ViewsConverge ==
  \A p \in Process :
    /\ handler[p] = "monitor" /\ pc[p] = "dead"
         ~> (handler[p] = "closed" \/ coord = "down" \/ torn)
    /\ handler[p] \in {"deleting", "migrate"} ~> (pc[p] = "dead" \/ torn)
    /\ coord = "down" ~> pc[p] \in {"off", "dead"}
=============================================================================
