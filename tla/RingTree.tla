------------------------------ MODULE RingTree ------------------------------
(***************************************************************************)
(* The hash ring of the coordinator: a binary search tree of slaves, by    *)
(* hash, built by slaveHandle when a slave registers and changed by        *)
(* migrationInitDown when one is found dead.  Nodes are cells of a heap,   *)
(* as in the code: deletion copies the successor's data into the node and  *)
(* frees the successor's cell, and a freed cell may be allocated again.    *)
(***************************************************************************)
EXTENDS Integers, FiniteSets

CONSTANTS Node, NULL, Hash

ASSUME NodeAssumption == NULL \notin Node
ASSUME HashAssumption == Hash \subseteq Nat

VARIABLES
  treeRoot,
  left, right, hash,   \* the fields of each node
  plan,                \* the neighbours migrationInitDown has just found
  up                   \* FALSE once the coordinator has crashed

vars == <<treeRoot, left, right, hash, plan, up>>

NoPlan == [gone |-> -1, pre |-> NULL, succ |-> NULL, succsucc |-> NULL]

Init ==
  /\ treeRoot = NULL
  /\ left = [n \in Node |-> NULL]
  /\ right = [n \in Node |-> NULL]
  /\ hash = [n \in Node |-> 0]
  /\ plan = NoPlan
  /\ up = TRUE
----------------------------------------------------------------------------
(***************************************************************************)
(* Walks down a tree with fields l, r and h.                               *)
(***************************************************************************)
Below(l, r) ==
  LET f[n \in Node \cup {NULL}] ==
        IF n = NULL THEN {} ELSE {n} \cup f[l[n]] \cup f[r[n]]
  IN f

Linked == Below(left, right)[treeRoot]

findMinimum(root, l) ==
  LET f[n \in Node] == IF l[n] = NULL THEN n ELSE f[l[n]] IN f[root]

findMaximum(root, r) ==
  LET f[n \in Node] == IF r[n] = NULL THEN n ELSE f[r[n]] IN f[root]

(* The first node on the search path of v that holds v, NULL if none does. *)
Search(root, l, r, h, v) ==
  LET f[n \in Node \cup {NULL}] ==
        IF n = NULL \/ h[n] = v THEN n ELSE f[IF v < h[n] THEN l[n] ELSE r[n]]
  IN f[root]

strictUpperBound(root, l, r, h, v) ==    \* mutant: > for >=
  LET f[n \in Node \cup {NULL}] ==
        IF n = NULL \/ (h[n] > v /\ (l[n] = NULL \/ h[l[n]] <= v)) THEN n
        ELSE f[IF h[n] <= v THEN r[n] ELSE l[n]]
  IN f[root]

(* bst_upperBound, test by test.                                           *)
bst_upperBound(root, l, r, h, v) ==
  LET f[n \in Node \cup {NULL}] ==
        IF n = NULL \/ (h[n] >= v /\ (l[n] = NULL \/ h[l[n]] < v)) THEN n
        ELSE f[IF h[n] <= v THEN r[n] ELSE l[n]]
  IN f[root]

forgetfulPredecessor(v) ==          \* mutant: no `pre = root' on a right turn
  LET f[n \in Node \cup {NULL}] ==
        CASE n = NULL -> NULL
          [] n # NULL /\ hash[n] = v ->
               IF left[n] # NULL THEN findMaximum(left[n], right) ELSE NULL
          [] n # NULL /\ v < hash[n] -> f[left[n]]
          [] OTHER -> f[right[n]]
  IN f[treeRoot]

forgetfulSuccessor(root, l, r, h, v) ==  \* mutant: no `succ = root'
  LET f[n \in Node \cup {NULL}] ==
        CASE n = NULL -> NULL
          [] n # NULL /\ h[n] = v ->
               IF r[n] # NULL THEN findMinimum(r[n], l) ELSE NULL
          [] n # NULL /\ v < h[n] -> f[l[n]]
          [] OTHER -> f[r[n]]
  IN f[root]

(* findPredecessor and findSuccessor leave their result as it was when the *)
(* key's node has no suitable child: the last turn of the path decides.    *)
(* They walk with the node and what the result is so far.                  *)
Walk == (Node \cup {NULL}) \X (Node \cup {NULL})

findPredecessor(v) ==
  LET f[at \in Walk] ==
        LET n == at[1]
        IN IF n = NULL THEN NULL
           ELSE IF hash[n] = v
           THEN IF left[n] # NULL THEN findMaximum(left[n], right) ELSE at[2]
           ELSE f[IF v < hash[n] THEN <<left[n], at[2]>> ELSE <<right[n], n>>]
  IN f[<<treeRoot, NULL>>]

findSuccessor(root, l, r, h, v) ==
  LET f[at \in Walk] ==
        LET n == at[1]
        IN IF n = NULL THEN NULL
           ELSE IF h[n] = v
           THEN IF r[n] # NULL THEN findMinimum(r[n], l) ELSE at[2]
           ELSE f[IF v < h[n] THEN <<l[n], n>> ELSE <<r[n], at[2]>>]
  IN f[<<root, NULL>>]
----------------------------------------------------------------------------
insertEqualLeft(v) ==               \* mutant: equal hashes go to the left
  LET leaf[n \in Node] ==
        LET c == IF v <= hash[n] THEN left[n] ELSE right[n]
        IN IF c = NULL THEN n ELSE leaf[c]
  IN \E new \in Node \ Linked :
       /\ hash' = [hash EXCEPT ![new] = v]
       /\ IF treeRoot = NULL
          THEN /\ treeRoot' = new
               /\ left' = [left EXCEPT ![new] = NULL]
               /\ right' = [right EXCEPT ![new] = NULL]
          ELSE LET p == leaf[treeRoot] IN
               /\ treeRoot' = treeRoot
               /\ left' = [left EXCEPT ![new] = NULL,
                                       ![p] = IF v <= hash[p] THEN new ELSE @]
               /\ right' = [right EXCEPT ![new] = NULL,
                                         ![p] = IF v <= hash[p] THEN @ ELSE new]

(* The node at the end of the search path of v that has room for it.       *)
leafFor(v) ==
  LET f[n \in Node] ==
        LET c == IF v < hash[n] THEN left[n] ELSE right[n]
        IN IF c = NULL THEN n ELSE f[c]
  IN f[treeRoot]

(* insertBST: a new leaf; equal hashes go to the right.                    *)
insertBST(v) ==
  \E new \in Node \ Linked :
    /\ hash' = [hash EXCEPT ![new] = v]
    /\ IF treeRoot = NULL
       THEN /\ treeRoot' = new
            /\ left' = [left EXCEPT ![new] = NULL]
            /\ right' = [right EXCEPT ![new] = NULL]
       ELSE LET p == leafFor(v) IN
            /\ treeRoot' = treeRoot
            /\ left' = [left EXCEPT ![new] = NULL,
                                    ![p] = IF v < hash[p] THEN new ELSE @]
            /\ right' = [right EXCEPT ![new] = NULL,
                                      ![p] = IF v < hash[p] THEN @ ELSE new]

(* slaveHandle: every connection of a slave inserts a node.                *)
Register(v) ==
  /\ up
  /\ insertBST(v)
  /\ plan' = NoPlan
  /\ up' = up

(* The tree after the pointer to n is replaced by n's only child.          *)
Unlinked(n, h) ==
  LET child == IF left[n] = NULL THEN right[n] ELSE left[n]
      Bypass(p) == IF p = n THEN child ELSE p
  IN [root |-> Bypass(treeRoot),
      left |-> [m \in Node |-> Bypass(left[m])],
      right |-> [m \in Node |-> Bypass(right[m])],
      hash |-> h]

deleteCopyOnly(v) ==                \* mutant: the copied node is not unlinked
  LET n == Search(treeRoot, left, right, hash, v)
      temp == findMinimum(right[n], left)
  IN CASE n = NULL -> [root |-> treeRoot, left |-> left, right |-> right,
                       hash |-> hash]
       [] n # NULL /\ (left[n] = NULL \/ right[n] = NULL) -> Unlinked(n, hash)
       [] OTHER -> [root |-> treeRoot, left |-> left, right |-> right,
                    hash |-> [hash EXCEPT ![n] = hash[temp]]]

(* deleteBST: unlink the node of v or, if it has two children, copy the    *)
(* data of the least node to its right into it and unlink that one.  The   *)
(* data is the whole slaveData: here its hash, which says whose data it    *)
(* is; what the copy makes of the cache in it is Copy of LruCacheHistory.  *)
deleteBST(v) ==
  LET n == Search(treeRoot, left, right, hash, v)
      temp == findMinimum(right[n], left)
  IN CASE n = NULL -> [root |-> treeRoot, left |-> left, right |-> right,
                       hash |-> hash]
       [] n # NULL /\ (left[n] = NULL \/ right[n] = NULL) -> Unlinked(n, hash)
       [] OTHER -> Unlinked(Search(right[n], left, right, hash, hash[temp]),
                            [hash EXCEPT ![n] = hash[temp]])

(* migrationInitDown, as far as the tree goes.  It has found pre, the slave *)
(* before the dead one; t is the tree without the dead one, and bound the  *)
(* first slave of it at or after the dead one.  That slave or, failing it, *)
(* the least one takes over; the one after it fetches its backup.  On a    *)
(* ring that becomes empty the code follows a null pointer.                *)
TakeOver(v, pre, t, bound) ==
  LET succ == IF bound = NULL THEN findMinimum(t.root, t.left) ELSE bound
      next == findSuccessor(t.root, t.left, t.right, t.hash, t.hash[succ])
  IN /\ treeRoot' = t.root
     /\ left' = t.left
     /\ right' = t.right
     /\ hash' = t.hash
     /\ IF t.root = NULL THEN up' = FALSE /\ plan' = NoPlan
        ELSE /\ up' = up
             /\ plan' = [gone |-> v, pre |-> pre, succ |-> succ,
                         succsucc |-> IF next = NULL
                                      THEN findMinimum(t.root, t.left)
                                      ELSE next]

BoundIn(t, v) == bst_upperBound(t.root, t.left, t.right, t.hash, v)

PredecessorOnRing(v) ==
  LET pre == findPredecessor(v)
  IN IF pre = NULL THEN findMaximum(treeRoot, right) ELSE pre

migrationUnwrapped(v) ==            \* mutant: no predecessor of the least slave
  LET t == deleteBST(v)
  IN TakeOver(v, findPredecessor(v), t, BoundIn(t, v))

migrationBoundFirst(v) ==           \* mutant: bst_upperBound before deleteBST
  TakeOver(v, PredecessorOnRing(v), deleteBST(v),
           bst_upperBound(treeRoot, left, right, hash, v))

migrationInitDown(v) ==
  LET t == deleteBST(v)
  IN TakeOver(v, PredecessorOnRing(v), t, BoundIn(t, v))

(* A slave whose heartbeats stop; each connection is given up once.        *)
SlaveDown(v) ==
  /\ up
  /\ \E n \in Linked : hash[n] = v
  /\ migrationInitDown(v)

Next == \E v \in Hash : Register(v) \/ SlaveDown(v)

Spec == Init /\ [][Next]_vars
----------------------------------------------------------------------------
TypeOK ==
  /\ treeRoot \in Node \cup {NULL}
  /\ left \in [Node -> Node \cup {NULL}]
  /\ right \in [Node -> Node \cup {NULL}]
  /\ hash \in [Node -> Hash \cup {0}]
  /\ plan \in {NoPlan}
       \cup [gone : Hash, pre : Node, succ : Node, succsucc : Node]
  /\ up \in BOOLEAN

(* The slaves registered at each hash, read off the tree.                  *)
Ring == INSTANCE RingMembers
  WITH members <- [h \in Hash |-> Cardinality({n \in Linked : hash[n] = h})]

(* Whatever the order of registrations and deaths, the tree holds exactly  *)
(* the registered slaves: inserting loses none, and deleting a node with   *)
(* two children (data copied, another cell freed) removes just the one.    *)
ImplementsRing == Ring!Spec

(* The tree stays a search tree: equal hashes are on the right.            *)
SearchTree ==
  \A n \in Linked :
    /\ \A m \in Below(left, right)[left[n]] : hash[m] < hash[n]
    /\ \A m \in Below(left, right)[right[n]] : hash[m] >= hash[n]

Points == {hash[n] : n \in Linked}

UpperBound(v) == bst_upperBound(treeRoot, left, right, hash, v)

(* "If hash value of key is greater than the last slave server, search     *)
(* slave with smallest hash value" (coordination_server.cpp:571): the      *)
(* search fails exactly then; otherwise it gives a registered slave at or  *)
(* after the key's hash, so every key has a primary.                       *)
RouteFindsSlave ==
  treeRoot # NULL =>
    \A v \in Hash :
      IF \A p \in Points : p < v THEN UpperBound(v) = NULL
      ELSE UpperBound(v) \in Linked /\ hash[UpperBound(v)] >= v

(* The point before v on the ring of points, and the point after it.       *)
Before(v) == LET lower == {p \in Points : p < v}
                 S == IF lower = {} THEN Points ELSE lower
             IN CHOOSE p \in S : \A q \in S : q <= p
After(v) == LET upper == {p \in Points : p > v}
                S == IF upper = {} THEN Points ELSE upper
            IN CHOOSE p \in S : \A q \in S : p <= q

(* The predecessor is found before the tree is changed and used after: it  *)
(* is still a node of the tree then, and it is the slave before the dead   *)
(* one on the ring (coordination_server.cpp 652 to 656).  With two slaves  *)
(* left it is not the one that takes over and is told to ask it for its    *)
(* table (step 3, line 692), with its own mutex held.                      *)
PredecessorSurvives ==
  plan.gone # -1 => /\ plan.pre \in Linked
                    /\ hash[plan.pre] = Before(plan.gone)
                    /\ Cardinality(Points) > 1 => hash[plan.pre] # hash[plan.succ]

(* The slave that is told to fetch the new owner's backup (step 1,         *)
(* coordination_server.cpp:669) is the one after the new owner on the ring *)
(* (as long as no slave is registered twice).                              *)
NoDuplicates ==
  /\ plan.gone \notin Points
  /\ Cardinality(Points) = Cardinality(Linked)

BackupHolderFollowsOwner ==
  plan.gone # -1 /\ NoDuplicates =>
    hash[plan.succsucc] = After(hash[plan.succ])

(* The point whose slave is the primary of a key with hash v, and the      *)
(* point of the slave that has the backup of the primary at x.             *)
Route(v) ==
  LET n == UpperBound(v)
  IN hash[IF n = NULL THEN findMinimum(treeRoot, left) ELSE n]

Holder(x) == hash[findSuccessor(treeRoot, left, right, hash, x)]

(* When a slave dies that was the primary of some keys, they are routed    *)
(* afterwards to the slave that is told to merge its backup, and that one  *)
(* is the slave that holds the backup (unless a slave is registered twice, *)
(* or the dead one is the last on the ring, for which it does not hold).   *)
BackupIsPromoted ==
  [][\A x \in Hash :
       /\ SlaveDown(x)
       /\ Cardinality(Points) = Cardinality(Linked)
       /\ \E p \in Points : p > x
       => \A v \in Hash : Route(v) = x =>
            Route(v)' = hash'[plan'.succ] /\ hash'[plan'.succ] = Holder(x)]_vars
=============================================================================
