----------------------------- MODULE MCRingTree -----------------------------
(***************************************************************************)
(* Small instances of RingTree: the cells of the heap are interchangeable. *)
(***************************************************************************)
EXTENDS RingTree, TLC

MCHash == 1..5
MCNodeSymmetry == Permutations(Node)
=============================================================================
