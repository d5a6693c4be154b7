---------------------------- MODULE MCMigration ----------------------------
(***************************************************************************)
(* Small instances of Migration: keys lie between the slaves' points; the  *)
(* cells of the tree are interchangeable.                                  *)
(***************************************************************************)
EXTENDS Migration, TLC

MCSlave == {1, 3, 5, 7}
MCKey == {2, 4, 8}
MCNodeSymmetry == Permutations(Node)
=============================================================================
