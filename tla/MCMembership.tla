---------------------------- MODULE MCMembership ----------------------------
(***************************************************************************)
(* An instance of Membership: p2 is the slave p1 run again, p3 is a slave  *)
(* on another host.                                                        *)
(***************************************************************************)
EXTENDS Membership

CONSTANTS p1, p2, p3, host1, host2

MCProcess == {p1, p2, p3}
MCAddress == [p \in MCProcess |-> IF p = p3 THEN host2 ELSE host1]
MCPoint == [p \in MCProcess |-> IF p = p3 THEN 3 ELSE 1]
=============================================================================
