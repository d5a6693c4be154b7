--------------------------- MODULE MCSlaveServer ---------------------------
(***************************************************************************)
(* Small instances of SlaveServer: what peers may send and answer.         *)
(***************************************************************************)
EXTENDS SlaveServer, TLC

CONSTANTS k1, v1, v2

Ask(p, b, v) == [purpose |-> p, key |-> k1, value |-> v, table |-> b]

(* One key is enough for two operations to meet.                           *)
PrimaryRequests == {Ask("get", "curr", v1), Ask("put", "curr", v1),
                    Ask("update", "curr", v2), Ask("delete", "curr", v1)}
BackupRequests == {Ask("put", "prev", v1), Ask("delete", "prev", v1)}
Migrations == {Ask("merge", "prev", v1), Ask("fetch", "prev", v1)}

MCAllRequest == PrimaryRequests \cup BackupRequests \cup Migrations
                \cup {Ask("fetch", "curr", v1), Ask("send", "curr", v1),
                      Ask("illegal", "curr", v1), Ask("termination", "curr", v1),
                      Ask("put", "other", v1), Ask("delete", "nonumber", v1)}

(* What two requests of one client and a migration need.                   *)
MCFewRequest == {Ask("put", "curr", v1), Ask("get", "curr", v1),
                 Ask("merge", "prev", v1)}

MCPeerMap == {[k \in {k1} |-> NoValue], [k \in {k1} |-> v2]}

Symmetry == Permutations(Thread)
=============================================================================
