---------------------------- MODULE RingMembers ----------------------------
(***************************************************************************)
(* What the coordinator's tree is for: how many registered slaves there    *)
(* are at each point of the hash ring.  (A slave that comes back is        *)
(* registered again, so a point may hold more than one.)  RingTree is      *)
(* shown to implement this specification.                                  *)
(***************************************************************************)
EXTENDS Naturals

CONSTANT Hash

VARIABLE members      \* how many slaves are registered at each hash

Init == members = [h \in Hash |-> 0]

Join(h) == members' = [members EXCEPT ![h] = @ + 1]

Leave(h) == members[h] > 0 /\ members' = [members EXCEPT ![h] = @ - 1]

Next == \E h \in Hash : Join(h) \/ Leave(h)

Spec == Init /\ [][Next]_members
=============================================================================
