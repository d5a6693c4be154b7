--------------------------- MODULE MCStoreService ---------------------------
(***************************************************************************)
(* Small instances of StoreService: a ring of three slaves; two keys of    *)
(* the first slave, which share a cache, and one key of the last slave.    *)
(***************************************************************************)
EXTENDS StoreService

CONSTANTS c1, c2, s1, s2, s3, ka, kb, kz, v1, v2

MCPrimaryOf == [k \in Key |-> IF k = kz THEN s3 ELSE s1]
MCNextSlave == [s \in Slave |-> CASE s = s1 -> s2 [] s = s2 -> s3 [] OTHER -> s1]

Ops(kinds, keys) == [kind : kinds, key : keys, value : {v1}]
Updates(keys) == [kind : {"update"}, key : keys, value : {v1, v2}]

MCDisjointOps ==
  [c \in Client |-> LET own == IF c = c1 THEN {ka} ELSE {kb}
                    IN Updates(own) \cup Ops({"get", "delete"}, own)]
MCWritersOps == [c \in Client |-> IF c = c1 THEN Ops({"get", "put"}, Key)
                                  ELSE Ops({"update"}, Key)]
=============================================================================
