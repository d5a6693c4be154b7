--------------------------- MODULE RingTreeProofs ---------------------------
(***************************************************************************)
(* The hash ring, for any number of cells and any hashes: the tree stays a *)
(* search tree without circles that holds the registered slaves, and every *)
(* walk of coordination_server.cpp finds in it what its caller relies on.  *)
(*                                                                         *)
(* The walks are recursive functions.  That a function satisfies the       *)
(* recursion is proved for every heap, with or without circles             *)
(* (WalkExists, BelowStep); what a walk returns is proved by induction     *)
(* over heaps without circles (HeapInduction), which speaks of sets of     *)
(* nodes, not of predicates.  That the heap has no circle is part of the   *)
(* invariant.                                                              *)
(***************************************************************************)
EXTENDS RingTree, FiniteSetTheorems, TLAPS

(* The places that a walk reaches from x before it stops.                  *)
Trail(D, Z, nx, x) ==
  {y \in D : \A S \in SUBSET D :
     x \in S /\ (\A z \in S \ Z : nx[z] \in S) => y \in S}

(* A walk that starts where walks stop goes nowhere.                       *)
LEMMA TrailStop ==
  ASSUME NEW D, NEW Z, NEW nx \in [D -> D], NEW x \in D, x \in Z
  PROVE  Trail(D, Z, nx, x) = {x}
<1>1. x \in Trail(D, Z, nx, x)
  BY DEF Trail
<1>2. ASSUME NEW y \in Trail(D, Z, nx, x) PROVE y = x
  <2>1. {x} \in SUBSET D /\ \A z \in {x} \ Z : nx[z] \in {x}
    OBVIOUS
  <2> QED
    BY <2>1 DEF Trail
<1> QED
  BY <1>1, <1>2

(* A walk that goes on reaches its start and what it reaches from the next *)
(* place.                                                                  *)
LEMMA TrailStep ==
  ASSUME NEW D, NEW Z, NEW nx \in [D -> D], NEW x \in D, x \notin Z
  PROVE  Trail(D, Z, nx, x) = {x} \cup Trail(D, Z, nx, nx[x])
<1>1. x \in Trail(D, Z, nx, x)
  BY DEF Trail
<1>2. ASSUME NEW y \in Trail(D, Z, nx, nx[x]) PROVE y \in Trail(D, Z, nx, x)
  <2> SUFFICES ASSUME NEW S \in SUBSET D, x \in S, \A z \in S \ Z : nx[z] \in S
               PROVE  y \in S
    BY <1>2 DEF Trail
  <2>1. nx[x] \in S
    OBVIOUS
  <2> QED
    BY <1>2, <2>1 DEF Trail
<1>3. ASSUME NEW y \in Trail(D, Z, nx, x) PROVE y \in {x} \cup Trail(D, Z, nx, nx[x])
  <2> SUFFICES ASSUME y # x, NEW S \in SUBSET D, nx[x] \in S,
                      \A z \in S \ Z : nx[z] \in S
               PROVE  y \in S
    BY <1>3 DEF Trail
  <2>1. /\ {x} \cup S \in SUBSET D /\ x \in {x} \cup S
        /\ \A z \in ({x} \cup S) \ Z : nx[z] \in {x} \cup S
    OBVIOUS
  <2>2. y \in {x} \cup S
    BY <1>3, <2>1 DEF Trail
  <2> QED
    BY <2>2
<1> QED
  BY <1>1, <1>2, <1>3

(* f returns what is at the place where the walk stops: in Z it is out[x], *)
(* elsewhere what is returned from the next place.                         *)
IsWalk(f, D, Z, nx, out) ==
  f = [x \in D |-> IF x \in Z THEN out[x] ELSE f[nx[x]]]

(* A walk that may go on for ever still has a function that returns, where *)
(* it stops, what is there, and that agrees with itself on the way: the    *)
(* recursive definitions of RingTree are satisfied by some function        *)
(* whatever the tree looks like.                                           *)
LEMMA WalkExists ==
  ASSUME NEW D, NEW Z, NEW nx \in [D -> D], NEW out
  PROVE  \E f : IsWalk(f, D, Z, nx, out)
<1> DEFINE End(x) == Trail(D, Z, nx, x) \cap Z
           g == [x \in D |-> CHOOSE y : \E z \in End(x) : y = out[z]]
<1>1. ASSUME NEW x \in D, x \in Z PROVE g[x] = out[x]
  <2>1. End(x) = {x}
    BY <1>1, TrailStop
  <2>2. (CHOOSE y : \E z \in End(x) : y = out[z]) = (CHOOSE y : y = out[x])
    BY <2>1
  <2> QED
    BY <2>2
<1>2. ASSUME NEW x \in D, x \notin Z PROVE g[x] = g[nx[x]]
  <2>1. End(x) = End(nx[x])
    BY <1>2, TrailStep
  <2>2. nx[x] \in D
    OBVIOUS
  <2> QED
    BY <2>1, <2>2
<1>3. g = [x \in D |-> IF x \in Z THEN out[x] ELSE g[nx[x]]]
  <2> HIDE DEF g
  <2>1. DOMAIN g = D /\ g = [x \in D |-> g[x]]
    BY DEF g
  <2> QED
    BY <1>1, <1>2, <2>1
<1> QED
  BY <1>3 DEF IsWalk
----------------------------------------------------------------------------
(***************************************************************************)
(* What the walks of RingTree return, one step at a time.                  *)
(***************************************************************************)
(* A node or none, and the fields of a heap of nodes.                      *)
Place == Node \cup {NULL}

Fields(l, r) == l \in [Node -> Place] /\ r \in [Node -> Place]

(* The least node to the left is that of the left child, if there is one.  *)
LEMMA MinimumStep ==
  ASSUME NEW l \in [Node -> Place]
  PROVE  \A n \in Node :
           findMinimum(n, l) = IF l[n] = NULL THEN n ELSE findMinimum(l[n], l)
<1> DEFINE Z == {n \in Node : l[n] = NULL}
           nx == [n \in Node |-> IF l[n] = NULL THEN n ELSE l[n]]
           out == [n \in Node |-> n]
           P(f) == f = [n \in Node |-> IF l[n] = NULL THEN n ELSE f[l[n]]]
<1>1. PICK f : IsWalk(f, Node, Z, nx, out)
  <2>1. nx \in [Node -> Node]
    BY DEF Place
  <2> HIDE DEF nx, Z, out
  <2> QED
    BY <2>1, WalkExists
<1>2. P(f)
  BY <1>1 DEF IsWalk
<1>3. P(CHOOSE h : P(h))
  BY <1>2
<1>4. \A root : findMinimum(root, l) = (CHOOSE h : P(h))[root]
  BY DEF findMinimum
<1> HIDE DEF P
<1>5. PICK g : P(g) /\ \A root : findMinimum(root, l) = g[root]
  BY <1>3, <1>4
<1> QED
  BY <1>5 DEF P

(* The greatest node to the right is that of the right child, if there is  *)
(* one.                                                                    *)
LEMMA MaximumStep ==
  ASSUME NEW r \in [Node -> Place]
  PROVE  \A n \in Node :
           findMaximum(n, r) = IF r[n] = NULL THEN n ELSE findMaximum(r[n], r)
<1> DEFINE Z == {n \in Node : r[n] = NULL}
           nx == [n \in Node |-> IF r[n] = NULL THEN n ELSE r[n]]
           out == [n \in Node |-> n]
           P(f) == f = [n \in Node |-> IF r[n] = NULL THEN n ELSE f[r[n]]]
<1>1. PICK f : IsWalk(f, Node, Z, nx, out)
  <2>1. nx \in [Node -> Node]
    BY DEF Place
  <2> HIDE DEF nx, Z, out
  <2> QED
    BY <2>1, WalkExists
<1>2. P(f)
  BY <1>1 DEF IsWalk
<1>3. P(CHOOSE h : P(h))
  BY <1>2
<1>4. \A root : findMaximum(root, r) = (CHOOSE h : P(h))[root]
  BY DEF findMaximum
<1> HIDE DEF P
<1>5. PICK g : P(g) /\ \A root : findMaximum(root, r) = g[root]
  BY <1>3, <1>4
<1> QED
  BY <1>5 DEF P

(* The search for v stops at a node that holds it and goes on below the    *)
(* others.                                                                 *)
LEMMA SearchStep ==
  ASSUME NEW l, NEW r, Fields(l, r), NEW h, NEW v
  PROVE  /\ Search(NULL, l, r, h, v) = NULL
         /\ \A n \in Node :
              Search(n, l, r, h, v) =
                IF h[n] = v THEN n
                ELSE Search(IF v < h[n] THEN l[n] ELSE r[n], l, r, h, v)
<1> DEFINE D == Node \cup {NULL}
           Z == {n \in D : n = NULL \/ h[n] = v}
           nx == [n \in D |-> IF n \in Z THEN n
                              ELSE IF v < h[n] THEN l[n] ELSE r[n]]
           out == [n \in D |-> n]
           P(f) == f = [n \in D |->
                         IF n = NULL \/ h[n] = v THEN n
                         ELSE f[IF v < h[n] THEN l[n] ELSE r[n]]]
<1>1. PICK f : IsWalk(f, D, Z, nx, out)
  <2>1. nx \in [D -> D]
    BY DEF Place, Fields
  <2> HIDE DEF nx, Z, out, D
  <2> QED
    BY <2>1, WalkExists
<1>2. P(f)
  BY <1>1 DEF IsWalk
<1>3. P(CHOOSE g : P(g))
  BY <1>2
<1>4. \A root : Search(root, l, r, h, v) = (CHOOSE g : P(g))[root]
  BY DEF Search
<1> HIDE DEF P
<1>5. PICK g : P(g) /\ \A root : Search(root, l, r, h, v) = g[root]
  BY <1>3, <1>4
<1> QED
  BY <1>5, NodeAssumption DEF P

(* The upper bound of v is the node, if it passes bst_upperBound's test,   *)
(* or that of the child that the code goes on to.                          *)
LEMMA UpperBoundStep ==
  ASSUME NEW l, NEW r, Fields(l, r), NEW h, NEW v
  PROVE  /\ bst_upperBound(NULL, l, r, h, v) = NULL
         /\ \A n \in Node :
              bst_upperBound(n, l, r, h, v) =
                IF h[n] >= v /\ (l[n] = NULL \/ h[l[n]] < v) THEN n
                ELSE bst_upperBound(IF h[n] <= v THEN r[n] ELSE l[n], l, r, h, v)
<1> DEFINE D == Node \cup {NULL}
           Stops(n) == n = NULL \/ (h[n] >= v /\ (l[n] = NULL \/ h[l[n]] < v))
           Z == {n \in D : Stops(n)}
           nx == [n \in D |-> IF n \in Z THEN n
                              ELSE IF h[n] <= v THEN r[n] ELSE l[n]]
           out == [n \in D |-> n]
           P(f) == f = [n \in D |->
                         IF n = NULL \/ (h[n] >= v /\ (l[n] = NULL \/ h[l[n]] < v))
                         THEN n ELSE f[IF h[n] <= v THEN r[n] ELSE l[n]]]
<1>1. PICK f : IsWalk(f, D, Z, nx, out)
  <2>1. nx \in [D -> D]
    BY DEF Place, Fields
  <2> HIDE DEF nx, Z, out, D
  <2> QED
    BY <2>1, WalkExists
<1>2. P(f)
  BY <1>1 DEF IsWalk
<1>3. P(CHOOSE g : P(g))
  BY <1>2
<1>4. \A root : bst_upperBound(root, l, r, h, v) = (CHOOSE g : P(g))[root]
  BY DEF bst_upperBound
<1> HIDE DEF P
<1>5. PICK g : P(g) /\ \A root : bst_upperBound(root, l, r, h, v) = g[root]
  BY <1>3, <1>4
<1> QED
  BY <1>5, NodeAssumption DEF P

(* insertBST goes on to the child on the side of v as long as there is     *)
(* one.                                                                    *)
LEMMA LeafStep ==
  ASSUME Fields(left, right), NEW v
  PROVE  \E f : /\ \A n \in Node :
                     LET c == IF v < hash[n] THEN left[n] ELSE right[n]
                     IN f[n] = IF c = NULL THEN n ELSE f[c]
                /\ leafFor(v) = f[treeRoot]
<1> DEFINE C(n) == IF v < hash[n] THEN left[n] ELSE right[n]
           Z == {n \in Node : C(n) = NULL}
           nx == [n \in Node |-> IF n \in Z THEN n ELSE C(n)]
           out == [n \in Node |-> n]
           P(f) == f = [n \in Node |-> IF C(n) = NULL THEN n ELSE f[C(n)]]
<1>1. PICK f : IsWalk(f, Node, Z, nx, out)
  <2>1. nx \in [Node -> Node]
    BY DEF Place, Fields
  <2> HIDE DEF nx, Z, out
  <2> QED
    BY <2>1, WalkExists
<1>2. P(f)
  BY <1>1 DEF IsWalk
<1>3. P(CHOOSE g : P(g))
  BY <1>2
<1>4. leafFor(v) = (CHOOSE g : P(g))[treeRoot]
  BY DEF leafFor
<1> HIDE DEF P
<1>5. PICK g : P(g) /\ leafFor(v) = g[treeRoot]
  BY <1>3, <1>4
<1>6. \A n \in Node : g[n] = IF C(n) = NULL THEN n ELSE g[C(n)]
  BY <1>5 DEF P
<1> QED
  BY <1>5, <1>6

(* What findSuccessor's walk returns at a node n when p is the result so   *)
(* far.                                                                    *)
SuccessorWalk(f, l, r, h, v) ==
  /\ \A p \in Place : f[<<NULL, p>>] = NULL
  /\ \A n \in Node, p \in Place :
       /\ h[n] = v /\ r[n] # NULL => f[<<n, p>>] = findMinimum(r[n], l)
       /\ h[n] = v /\ r[n] = NULL => f[<<n, p>>] = p
       /\ h[n] # v /\ v < h[n] => f[<<n, p>>] = f[<<l[n], n>>]
       /\ h[n] # v /\ ~(v < h[n]) => f[<<n, p>>] = f[<<r[n], p>>]

(* findSuccessor starts at the root with nothing found.                    *)
LEMMA SuccessorStep ==
  ASSUME NEW l, NEW r, Fields(l, r), NEW h, NEW v
  PROVE  \E f : /\ SuccessorWalk(f, l, r, h, v)
                /\ \A root : findSuccessor(root, l, r, h, v) = f[<<root, NULL>>]
<1> DEFINE Stops(n) == n = NULL \/ h[n] = v
           Z == {at \in Walk : Stops(at[1])}
           nx == [at \in Walk |->
                   IF at \in Z THEN at
                   ELSE IF v < h[at[1]] THEN <<l[at[1]], at[1]>>
                   ELSE <<r[at[1]], at[2]>>]
           out == [at \in Walk |->
                    IF at[1] = NULL THEN NULL
                    ELSE IF r[at[1]] # NULL THEN findMinimum(r[at[1]], l) ELSE at[2]]
           P(f) == f = [at \in Walk |->
                     LET n == at[1]
                     IN IF n = NULL THEN NULL
                        ELSE IF h[n] = v
                        THEN IF r[n] # NULL THEN findMinimum(r[n], l) ELSE at[2]
                        ELSE f[IF v < h[n] THEN <<l[n], n>> ELSE <<r[n], at[2]>>]]
<1>1. PICK f : IsWalk(f, Walk, Z, nx, out)
  <2>1. nx \in [Walk -> Walk]
    BY DEF Place, Fields, Walk
  <2> HIDE DEF nx, Z, out
  <2> QED
    BY <2>1, WalkExists
<1>2. P(f)
  BY <1>1 DEF IsWalk
<1>3. P(CHOOSE g : P(g))
  BY <1>2
<1>4. \A root : findSuccessor(root, l, r, h, v) = (CHOOSE g : P(g))[<<root, NULL>>]
  BY DEF findSuccessor
<1> HIDE DEF P
<1>5. PICK g : P(g) /\ \A root : findSuccessor(root, l, r, h, v) = g[<<root, NULL>>]
  BY <1>3, <1>4
<1>6. \A p \in Place : <<NULL, p>> \in Walk /\ g[<<NULL, p>>] = NULL
  BY <1>5 DEF P, Walk, Place
<1>7. \A n \in Node, p \in Place :
        /\ <<n, p>> \in Walk
        /\ g[<<n, p>>] = IF h[n] = v
                       THEN IF r[n] # NULL THEN findMinimum(r[n], l) ELSE p
                       ELSE g[IF v < h[n] THEN <<l[n], n>> ELSE <<r[n], p>>]
  BY <1>5, NodeAssumption DEF P, Walk, Place
<1>8. SuccessorWalk(g, l, r, h, v)
  BY <1>6, <1>7 DEF SuccessorWalk
<1> QED
  BY <1>5, <1>8

(* The same for findPredecessor.                                           *)
PredecessorWalk(f, v) ==
  /\ \A p \in Place : f[<<NULL, p>>] = NULL
  /\ \A n \in Node, p \in Place :
       /\ hash[n] = v /\ left[n] # NULL => f[<<n, p>>] = findMaximum(left[n], right)
       /\ hash[n] = v /\ left[n] = NULL => f[<<n, p>>] = p
       /\ hash[n] # v /\ v < hash[n] => f[<<n, p>>] = f[<<left[n], p>>]
       /\ hash[n] # v /\ ~(v < hash[n]) => f[<<n, p>>] = f[<<right[n], n>>]

(* findPredecessor starts at the root with nothing found.                  *)
LEMMA PredecessorStep ==
  ASSUME Fields(left, right), NEW v
  PROVE  \E f : /\ PredecessorWalk(f, v)
                /\ findPredecessor(v) = f[<<treeRoot, NULL>>]
<1> DEFINE Stops(n) == n = NULL \/ hash[n] = v
           Z == {at \in Walk : Stops(at[1])}
           nx == [at \in Walk |->
                   IF at \in Z THEN at
                   ELSE IF v < hash[at[1]] THEN <<left[at[1]], at[2]>>
                   ELSE <<right[at[1]], at[1]>>]
           out == [at \in Walk |->
                    IF at[1] = NULL THEN NULL
                    ELSE IF left[at[1]] # NULL THEN findMaximum(left[at[1]], right)
                    ELSE at[2]]
           P(f) == f = [at \in Walk |->
                LET n == at[1]
                IN IF n = NULL THEN NULL
                   ELSE IF hash[n] = v
                   THEN IF left[n] # NULL THEN findMaximum(left[n], right) ELSE at[2]
                   ELSE f[IF v < hash[n] THEN <<left[n], at[2]>> ELSE <<right[n], n>>]]
<1>1. PICK f : IsWalk(f, Walk, Z, nx, out)
  <2>1. nx \in [Walk -> Walk]
    BY DEF Place, Fields, Walk
  <2> HIDE DEF nx, Z, out
  <2> QED
    BY <2>1, WalkExists
<1>2. P(f)
  BY <1>1 DEF IsWalk
<1>3. P(CHOOSE g : P(g))
  BY <1>2
<1>4. findPredecessor(v) = (CHOOSE g : P(g))[<<treeRoot, NULL>>]
  BY DEF findPredecessor
<1> HIDE DEF P
<1>5. PICK g : P(g) /\ findPredecessor(v) = g[<<treeRoot, NULL>>]
  BY <1>3, <1>4
<1>6. \A p \in Place : <<NULL, p>> \in Walk /\ g[<<NULL, p>>] = NULL
  BY <1>5 DEF P, Walk, Place
<1>7. \A n \in Node, p \in Place :
        /\ <<n, p>> \in Walk
        /\ g[<<n, p>>] = IF hash[n] = v
                       THEN IF left[n] # NULL THEN findMaximum(left[n], right) ELSE p
                       ELSE g[IF v < hash[n] THEN <<left[n], p>> ELSE <<right[n], n>>]
  BY <1>5, NodeAssumption DEF P, Walk, Place
<1>8. PredecessorWalk(g, v)
  BY <1>6, <1>7 DEF PredecessorWalk
<1> QED
  BY <1>5, <1>8

(* What is below a node: itself and what is below its children.  (The      *)
(* recursion does not end on a heap with a circle; the least sets that are *)
(* closed under the children satisfy it on every heap.)                    *)
LEMMA BelowStep ==
  ASSUME NEW l, NEW r, Fields(l, r)
  PROVE  /\ Below(l, r)[NULL] = {}
         /\ \A n \in Node : Below(l, r)[n] =
              {n} \cup Below(l, r)[l[n]] \cup Below(l, r)[r[n]]
<1> DEFINE Closed(S) == \A z \in S : {l[z], r[z]} \subseteq S \cup {NULL}
           R(n) == {m \in Node : \A S \in SUBSET Node : n \in S /\ Closed(S) => m \in S}
           b == [n \in Place |-> IF n = NULL THEN {} ELSE R(n)]
           P(f) == f = [n \in Place |->
                         IF n = NULL THEN {} ELSE {n} \cup f[l[n]] \cup f[r[n]]]
<1>1. ASSUME NEW n \in Node PROVE b[n] = {n} \cup b[l[n]] \cup b[r[n]]
  <2>1. l[n] \in Place /\ r[n] \in Place /\ b[n] = R(n) /\ n \in R(n)
    BY NodeAssumption DEF Fields, Place
  <2>2. \A c \in {l[n], r[n]} : b[c] \subseteq R(n)
    <3> SUFFICES ASSUME NEW c \in {l[n], r[n]}, c # NULL, NEW m \in R(c),
                        NEW S \in SUBSET Node, n \in S, Closed(S)
                 PROVE  m \in S
      BY <2>1
    <3>1. c \in S
      OBVIOUS
    <3> QED
      BY <3>1
  <2>3. \A c \in Node : \A m \in R(c) : \A d \in {l[m], r[m]} : d \in R(c) \cup {NULL}
    BY DEF Fields, Place
  <2>4. ASSUME NEW m \in R(n) PROVE m \in {n} \cup b[l[n]] \cup b[r[n]]
    <3> DEFINE S == {n} \cup b[l[n]] \cup b[r[n]]
    <3>1. S \in SUBSET Node
      BY <2>1
    <3>2. Closed(S)
      <4> SUFFICES ASSUME NEW z \in S, NEW d \in {l[z], r[z]}, d # NULL PROVE d \in S
        OBVIOUS
      <4>1. CASE z = n
        <5>1. d \in Node /\ d \in R(d) /\ b[d] = R(d)
          BY <4>1, <2>1, NodeAssumption DEF Place
        <5> QED
          BY <4>1, <5>1
      <4>2. CASE z \in b[l[n]]
        BY <4>2, <2>1, <2>3 DEF Place
      <4>3. CASE z \in b[r[n]]
        BY <4>3, <2>1, <2>3 DEF Place
      <4> QED
        BY <4>1, <4>2, <4>3
    <3> QED
      BY <3>1, <3>2
  <2> QED
    BY <2>1, <2>2, <2>4
<1>2. b[NULL] = {} /\ b \in [Place -> SUBSET Node]
  BY DEF Place
<1>3. P(b)
  <2> HIDE DEF b
  <2>1. b = [n \in Place |-> b[n]]
    BY <1>2
  <2> QED
    BY <1>1, <1>2, <2>1 DEF Place
<1>4. P(CHOOSE f : P(f))
  <2> HIDE DEF b, P
  <2> QED
    BY <1>3
<1>5. Below(l, r) = CHOOSE f : P(f)
  BY DEF Below, Place
<1> DEFINE B == Below(l, r)
<1>6. P(B)
  <2> HIDE DEF P
  <2> QED
    BY <1>4, <1>5
<1> HIDE DEF B
<1> QED
  BY <1>6, NodeAssumption DEF B, Place
----------------------------------------------------------------------------
(***************************************************************************)
(* Heaps without circles.  Of every set of nodes one has no child in it:   *)
(* this is what induction over the heap becomes when it is about sets.     *)
(***************************************************************************)
Grounded(l, r) ==
  \A T \in SUBSET Node : T # {} => \E n \in T : l[n] \notin T /\ r[n] \notin T

Heap(l, r) == Fields(l, r) /\ Grounded(l, r)

(* Induction over a heap without circles: a set that holds every node      *)
(* whose children it holds is the whole heap.                              *)
LEMMA HeapInduction ==
  ASSUME NEW l, NEW r, Heap(l, r), NEW G \in SUBSET Node,
         \A n \in Node : l[n] \in G \cup {NULL} /\ r[n] \in G \cup {NULL} => n \in G
  PROVE  G = Node
<1> SUFFICES ASSUME Node \ G # {} PROVE FALSE
  OBVIOUS
<1>1. PICK n \in Node \ G : l[n] \notin Node \ G /\ r[n] \notin Node \ G
  BY DEF Heap, Grounded
<1> QED
  BY <1>1 DEF Heap, Fields, Place

(* Only nodes are below a place.                                           *)
LEMMA BelowType ==
  ASSUME NEW l, NEW r, Heap(l, r), NEW n \in Place
  PROVE  Below(l, r)[n] \subseteq Node
<1> DEFINE B == Below(l, r)
           G == {x \in Node : B[x] \subseteq Node}
<1>1. B[NULL] = {} /\ \A x \in Node : B[x] = {x} \cup B[l[x]] \cup B[r[x]]
  BY BelowStep DEF Heap
<1> HIDE DEF B
<1>2. \A x \in Node : l[x] \in G \cup {NULL} /\ r[x] \in G \cup {NULL} => x \in G
  BY <1>1
<1>3. G = Node
  <2> HIDE DEF G
  <2> QED
    BY <1>2, HeapInduction DEF G
<1> QED
  BY <1>1, <1>3 DEF B, Place

(* What is below a node below n is below n.                                *)
LEMMA BelowTransitive ==
  ASSUME NEW l, NEW r, Heap(l, r), NEW n \in Place, NEW m \in Below(l, r)[n]
  PROVE  m \in Node /\ Below(l, r)[m] \subseteq Below(l, r)[n]
<1> DEFINE B == Below(l, r)
           G == {x \in Node : \A y \in B[x] : B[y] \subseteq B[x]}
<1>1. B[NULL] = {} /\ \A x \in Node : B[x] = {x} \cup B[l[x]] \cup B[r[x]]
  BY BelowStep DEF Heap
<1>2. m \in Node
  BY BelowType
<1> HIDE DEF B
<1>3. \A x \in Node : l[x] \in G \cup {NULL} /\ r[x] \in G \cup {NULL} => x \in G
  <2> SUFFICES ASSUME NEW x \in Node, l[x] \in G \cup {NULL}, r[x] \in G \cup {NULL},
                      NEW y \in B[x]
               PROVE  B[y] \subseteq B[x]
    OBVIOUS
  <2> QED
    BY <1>1
<1>4. G = Node
  <2> HIDE DEF G
  <2> QED
    BY <1>3, HeapInduction DEF G
<1> QED
  BY <1>1, <1>2, <1>4 DEF B, Place

(* No node is below one of its children.                                   *)
LEMMA BelowAcyclic ==
  ASSUME NEW l, NEW r, Heap(l, r), NEW n \in Node
  PROVE  n \notin Below(l, r)[l[n]] /\ n \notin Below(l, r)[r[n]]
<1> DEFINE B == Below(l, r)
           T == {m \in Node : n \in B[m]}
<1>1. B[NULL] = {} /\ \A x \in Node : B[x] = {x} \cup B[l[x]] \cup B[r[x]]
  BY BelowStep DEF Heap
<1> HIDE DEF B
<1>2. n \in T
  BY <1>1
<1>3. PICK m \in T : l[m] \notin T /\ r[m] \notin T
  <2> HIDE DEF T
  <2> QED
    BY <1>2 DEF Heap, Grounded, T
<1>4. n = m
  BY <1>1, <1>3 DEF Heap, Fields, Place
<1> QED
  BY <1>1, <1>3, <1>4 DEF Heap, Fields, Place, B
----------------------------------------------------------------------------
(***************************************************************************)
(* Search trees, and what the walks find in one.                           *)
(***************************************************************************)
(* Less on the left, equal or greater on the right.                        *)
Sorted(root, l, r, h) ==
  \A n \in Below(l, r)[root] :
    /\ \A m \in Below(l, r)[l[n]] : h[m] < h[n]
    /\ \A m \in Below(l, r)[r[n]] : h[m] >= h[n]

Tree(root, l, r, h) ==
  root \in Place /\ Heap(l, r) /\ h \in [Node -> Nat] /\ Sorted(root, l, r, h)

(* A node of a tree, with what is below it.                                *)
LEMMA SubTree ==
  ASSUME NEW l, NEW r, NEW h, NEW root, Tree(root, l, r, h), NEW n \in Below(l, r)[root]
  PROVE  /\ n \in Node
         /\ Tree(n, l, r, h) /\ Tree(l[n], l, r, h) /\ Tree(r[n], l, r, h)
         /\ Below(l, r)[n] \subseteq Below(l, r)[root]
         /\ Below(l, r)[l[n]] \subseteq Below(l, r)[n]
         /\ Below(l, r)[r[n]] \subseteq Below(l, r)[n]
<1>1. n \in Node /\ Below(l, r)[n] \subseteq Below(l, r)[root]
  BY BelowTransitive DEF Tree
<1>2. /\ Below(l, r)[l[n]] \subseteq Below(l, r)[n]
      /\ Below(l, r)[r[n]] \subseteq Below(l, r)[n]
  BY <1>1, BelowStep DEF Tree, Heap
<1>3. l[n] \in Place /\ r[n] \in Place /\ n \in Place
  BY <1>1 DEF Tree, Heap, Fields, Place
<1> QED
  BY <1>1, <1>2, <1>3 DEF Tree, Sorted

(* What a tree is made of: its root and two trees.                         *)
LEMMA TreeParts ==
  ASSUME NEW l, NEW r, NEW h, NEW n \in Node, Tree(n, l, r, h)
  PROVE  /\ n \in Below(l, r)[n]
         /\ Below(l, r)[n] = {n} \cup Below(l, r)[l[n]] \cup Below(l, r)[r[n]]
         /\ Below(l, r)[NULL] = {}
         /\ Tree(l[n], l, r, h) /\ Tree(r[n], l, r, h)
         /\ l[n] \in Place /\ r[n] \in Place
         /\ \A m \in Below(l, r)[l[n]] : m \in Node /\ h[m] < h[n]
         /\ \A m \in Below(l, r)[r[n]] : m \in Node /\ h[m] >= h[n]
         /\ \A m \in Below(l, r)[n] : m \in Node /\ h[m] \in Nat
         /\ h[n] \in Nat
<1>1. /\ n \in Below(l, r)[n] /\ Below(l, r)[NULL] = {}
      /\ Below(l, r)[n] = {n} \cup Below(l, r)[l[n]] \cup Below(l, r)[r[n]]
  BY BelowStep DEF Tree, Heap
<1>2. \A m \in Below(l, r)[n] : m \in Node
  BY BelowType DEF Tree
<1>3. Tree(l[n], l, r, h) /\ Tree(r[n], l, r, h)
  BY <1>1, SubTree
<1> QED
  BY <1>1, <1>2, <1>3 DEF Tree, Sorted

(* findMinimum goes left to the end: it ends at the least node, the one    *)
(* without a left child.                                                   *)
LEMMA MinimumIsLeast ==
  ASSUME NEW l, NEW r, NEW h, NEW n \in Node, Tree(n, l, r, h)
  PROVE  LET m == findMinimum(n, l)
         IN /\ m \in Below(l, r)[n]
            /\ l[m] = NULL
            /\ \A k \in Below(l, r)[n] : h[m] <= h[k]
<1> DEFINE B == Below(l, r)
           Least(x, m) == m \in B[x] /\ l[m] = NULL /\ \A k \in B[x] : h[m] <= h[k]
           G == {x \in Node : Tree(x, l, r, h) => Least(x, findMinimum(x, l))}
<1>1. \A x \in Node : l[x] \in G \cup {NULL} /\ r[x] \in G \cup {NULL} => x \in G
  <2> SUFFICES ASSUME NEW x \in Node, l[x] \in G \cup {NULL}, Tree(x, l, r, h)
               PROVE  Least(x, findMinimum(x, l))
    OBVIOUS
  <2>1. findMinimum(x, l) = IF l[x] = NULL THEN x ELSE findMinimum(l[x], l)
    BY MinimumStep DEF Tree, Heap, Fields
  <2>2. /\ x \in B[x] /\ B[x] = {x} \cup B[l[x]] \cup B[r[x]] /\ B[NULL] = {}
        /\ Tree(l[x], l, r, h) /\ h[x] \in Nat
        /\ \A k \in B[l[x]] : h[k] < h[x]
        /\ \A k \in B[r[x]] : h[k] >= h[x]
        /\ \A k \in B[x] : h[k] \in Nat
    BY TreeParts
  <2> HIDE DEF B
  <2>3. CASE l[x] = NULL
    BY <2>1, <2>2, <2>3
  <2>4. CASE l[x] # NULL
    <3>1. Least(l[x], findMinimum(l[x], l))
      BY <2>2, <2>4
    <3> QED
      BY <2>1, <2>2, <2>4, <3>1
  <2> QED
    BY <2>3, <2>4
<1>2. G = Node
  <2> HIDE DEF G
  <2> QED
    BY <1>1, HeapInduction DEF G, Tree
<1> QED
  BY <1>2

(* findMaximum goes right to the end: it ends at a greatest node, one      *)
(* without a right child.                                                  *)
LEMMA MaximumIsGreatest ==
  ASSUME NEW l, NEW r, NEW h, NEW n \in Node, Tree(n, l, r, h)
  PROVE  LET m == findMaximum(n, r)
         IN /\ m \in Below(l, r)[n]
            /\ r[m] = NULL
            /\ \A k \in Below(l, r)[n] : h[m] >= h[k]
<1> DEFINE B == Below(l, r)
           Greatest(x, m) == m \in B[x] /\ r[m] = NULL /\ \A k \in B[x] : h[m] >= h[k]
           G == {x \in Node : Tree(x, l, r, h) => Greatest(x, findMaximum(x, r))}
<1>1. \A x \in Node : l[x] \in G \cup {NULL} /\ r[x] \in G \cup {NULL} => x \in G
  <2> SUFFICES ASSUME NEW x \in Node, r[x] \in G \cup {NULL}, Tree(x, l, r, h)
               PROVE  Greatest(x, findMaximum(x, r))
    OBVIOUS
  <2>1. findMaximum(x, r) = IF r[x] = NULL THEN x ELSE findMaximum(r[x], r)
    BY MaximumStep DEF Tree, Heap, Fields
  <2>2. /\ x \in B[x] /\ B[x] = {x} \cup B[l[x]] \cup B[r[x]] /\ B[NULL] = {}
        /\ Tree(r[x], l, r, h) /\ h[x] \in Nat
        /\ \A k \in B[l[x]] : h[k] < h[x]
        /\ \A k \in B[r[x]] : h[k] >= h[x]
        /\ \A k \in B[x] : h[k] \in Nat
    BY TreeParts
  <2> HIDE DEF B
  <2>3. CASE r[x] = NULL
    BY <2>1, <2>2, <2>3
  <2>4. CASE r[x] # NULL
    <3>1. Greatest(r[x], findMaximum(r[x], r))
      BY <2>2, <2>4
    <3> QED
      BY <2>1, <2>2, <2>4, <3>1
  <2> QED
    BY <2>3, <2>4
<1>2. G = Node
  <2> HIDE DEF G
  <2> QED
    BY <1>1, HeapInduction DEF G, Tree
<1> QED
  BY <1>2

(* The search finds a node of the tree that holds v, and nothing only if   *)
(* no node of the tree does.                                               *)
LEMMA SearchFinds ==
  ASSUME NEW l, NEW r, NEW h, NEW n \in Place, Tree(n, l, r, h), NEW v \in Nat
  PROVE  LET s == Search(n, l, r, h, v)
         IN IF \A k \in Below(l, r)[n] : h[k] # v THEN s = NULL
            ELSE s \in Below(l, r)[n] /\ h[s] = v
<1> DEFINE B == Below(l, r)
           S(x) == Search(x, l, r, h, v)
           Found(x) == IF \A k \in B[x] : h[k] # v THEN S(x) = NULL
                       ELSE S(x) \in B[x] /\ h[S(x)] = v
           G == {x \in Node : Tree(x, l, r, h) => Found(x)}
<1>1. /\ S(NULL) = NULL
      /\ \A x \in Node : S(x) = IF h[x] = v THEN x
                                ELSE S(IF v < h[x] THEN l[x] ELSE r[x])
  BY SearchStep DEF Tree, Heap
<1>2. B[NULL] = {}
  BY BelowStep DEF Tree, Heap
<1>3. Found(NULL)
  BY <1>1, <1>2
<1> HIDE DEF S
<1>4. \A x \in Node : l[x] \in G \cup {NULL} /\ r[x] \in G \cup {NULL} => x \in G
  <2> SUFFICES ASSUME NEW x \in Node, Tree(x, l, r, h),
                      l[x] \in G \cup {NULL}, r[x] \in G \cup {NULL}
               PROVE  Found(x)
    OBVIOUS
  <2>1. /\ x \in B[x] /\ B[x] = {x} \cup B[l[x]] \cup B[r[x]]
        /\ Tree(l[x], l, r, h) /\ Tree(r[x], l, r, h) /\ h[x] \in Nat
        /\ \A k \in B[l[x]] : h[k] < h[x]
        /\ \A k \in B[r[x]] : h[k] >= h[x]
        /\ \A k \in B[x] : h[k] \in Nat
    BY TreeParts
  <2>2. Found(l[x]) /\ Found(r[x])
    BY <1>3, <2>1
  <2> HIDE DEF B
  <2> QED
    BY <1>1, <2>1, <2>2
<1>5. G = Node
  <2> HIDE DEF G
  <2> QED
    BY <1>4, HeapInduction DEF G, Tree
<1> QED
  BY <1>3, <1>5 DEF Place, S

(* The search for the hash of the least node ends at that very node, also  *)
(* when others hold the same hash: those are to its right.                 *)
LEMMA SearchMinimum ==
  ASSUME NEW l, NEW r, NEW h, NEW n \in Node, Tree(n, l, r, h)
  PROVE  Search(n, l, r, h, h[findMinimum(n, l)]) = findMinimum(n, l)
<1> DEFINE v == h[findMinimum(n, l)]
           B == Below(l, r)
           S(x) == Search(x, l, r, h, v)
           G == {x \in Node : Tree(x, l, r, h) /\ findMinimum(x, l) = findMinimum(n, l)
                              => S(x) = findMinimum(n, l)}
<1>1. \A x \in Node : S(x) = IF h[x] = v THEN x
                             ELSE S(IF v < h[x] THEN l[x] ELSE r[x])
  BY SearchStep DEF Tree, Heap
<1> HIDE DEF S
<1>2. \A x \in Node : l[x] \in G \cup {NULL} /\ r[x] \in G \cup {NULL} => x \in G
  <2> SUFFICES ASSUME NEW x \in Node, Tree(x, l, r, h), l[x] \in G \cup {NULL},
                      findMinimum(x, l) = findMinimum(n, l)
               PROVE  S(x) = findMinimum(n, l)
    OBVIOUS
  <2>1. findMinimum(x, l) = IF l[x] = NULL THEN x ELSE findMinimum(l[x], l)
    BY MinimumStep DEF Tree, Heap, Fields
  <2>2. CASE l[x] = NULL
    BY <1>1, <2>1, <2>2
  <2>3. CASE l[x] # NULL
    <3>1. /\ l[x] \in Node /\ Tree(l[x], l, r, h)
          /\ \A k \in B[l[x]] : h[k] < h[x]
          /\ h[x] \in Nat
      BY <2>3, TreeParts DEF Place
    <3>2. findMinimum(l[x], l) \in B[l[x]]
      BY <3>1, MinimumIsLeast
    <3>3. v < h[x] /\ h[x] # v
      <4>1. h[x] \in Nat /\ v < h[x]
        BY <2>1, <2>3, <3>1, <3>2
      <4>2. v \in Nat
        BY <2>1, <2>3, <3>1, <3>2, TreeParts
      <4> QED
        BY <4>1, <4>2
    <3> HIDE DEF v
    <3> QED
      BY <1>1, <2>1, <2>3, <3>1, <3>3
  <2> QED
    BY <2>2, <2>3
<1>3. G = Node
  <2> HIDE DEF G
  <2> QED
    BY <1>2, HeapInduction DEF G, Tree
<1> QED
  BY <1>3 DEF S

(* bst_upperBound finds a node of the tree at or after v, unless all are   *)
(* before v.                                                               *)
LEMMA UpperBoundFinds ==
  ASSUME NEW l, NEW r, NEW h, NEW n \in Place, Tree(n, l, r, h), NEW v \in Nat
  PROVE  LET s == bst_upperBound(n, l, r, h, v)
         IN IF \A k \in Below(l, r)[n] : h[k] < v THEN s = NULL
            ELSE s \in Below(l, r)[n] /\ h[s] >= v
<1> DEFINE B == Below(l, r)
           S(x) == bst_upperBound(x, l, r, h, v)
           Found(x) == IF \A k \in B[x] : h[k] < v THEN S(x) = NULL
                       ELSE S(x) \in B[x] /\ h[S(x)] >= v
           G == {x \in Node : Tree(x, l, r, h) => Found(x)}
<1>1. /\ S(NULL) = NULL
      /\ \A x \in Node : S(x) = IF h[x] >= v /\ (l[x] = NULL \/ h[l[x]] < v) THEN x
                                ELSE S(IF h[x] <= v THEN r[x] ELSE l[x])
  BY UpperBoundStep DEF Tree, Heap
<1>2. B[NULL] = {}
  BY BelowStep DEF Tree, Heap
<1>3. Found(NULL)
  BY <1>1, <1>2
<1> HIDE DEF S
<1>4. \A x \in Node : l[x] \in G \cup {NULL} /\ r[x] \in G \cup {NULL} => x \in G
  <2> SUFFICES ASSUME NEW x \in Node, Tree(x, l, r, h),
                      l[x] \in G \cup {NULL}, r[x] \in G \cup {NULL}
               PROVE  Found(x)
    OBVIOUS
  <2>1. /\ x \in B[x] /\ B[x] = {x} \cup B[l[x]] \cup B[r[x]]
        /\ Tree(l[x], l, r, h) /\ Tree(r[x], l, r, h) /\ h[x] \in Nat
        /\ \A k \in B[l[x]] : h[k] < h[x]
        /\ \A k \in B[r[x]] : h[k] >= h[x]
        /\ \A k \in B[x] : h[k] \in Nat
        /\ l[x] \in Place
    BY TreeParts
  <2>2. Found(l[x]) /\ Found(r[x])
    BY <1>3, <2>1
  <2>3. l[x] # NULL => l[x] \in B[l[x]]
    BY <2>1, TreeParts DEF Place
  <2> HIDE DEF B
  <2>4. CASE h[x] < v
    <3>1. S(x) = S(r[x])
      BY <1>1, <2>1, <2>4
    <3>2. \A k \in B[l[x]] : h[k] < v
      BY <2>1, <2>4
    <3> QED
      BY <2>1, <2>2, <2>4, <3>1, <3>2
  <2>5. CASE h[x] >= v /\ (l[x] = NULL \/ h[l[x]] < v)
    BY <1>1, <2>1, <2>5
  <2>6. CASE h[x] = v /\ l[x] # NULL
    <3>1. h[l[x]] < v
      BY <2>1, <2>3, <2>6
    <3> QED
      BY <2>5, <2>6, <3>1
  <2>7. CASE h[x] > v /\ l[x] # NULL /\ ~(h[l[x]] < v)
    <3>1. S(x) = S(l[x])
      BY <1>1, <2>1, <2>7
    <3> QED
      BY <2>1, <2>2, <2>3, <2>7, <3>1
  <2> QED
    BY <2>1, <2>4, <2>5, <2>6, <2>7
<1>5. G = Node
  <2> HIDE DEF G
  <2> QED
    BY <1>4, HeapInduction DEF G, Tree
<1> QED
  BY <1>3, <1>5 DEF Place, S

(* If the whole tree is at or after v, what it finds is a least node.      *)
LEMMA UpperBoundLeast ==
  ASSUME NEW l, NEW r, NEW h, NEW n \in Node, Tree(n, l, r, h), NEW v \in Nat,
         \A k \in Below(l, r)[n] : h[k] >= v
  PROVE  LET s == bst_upperBound(n, l, r, h, v)
         IN s \in Below(l, r)[n] /\ \A k \in Below(l, r)[n] : h[s] <= h[k]
<1> DEFINE B == Below(l, r)
           S(x) == bst_upperBound(x, l, r, h, v)
           Least(x) == S(x) \in B[x] /\ \A k \in B[x] : h[S(x)] <= h[k]
           G == {x \in Node : Tree(x, l, r, h) /\ (\A k \in B[x] : h[k] >= v)
                              => Least(x)}
<1>1. \A x \in Node : S(x) = IF h[x] >= v /\ (l[x] = NULL \/ h[l[x]] < v) THEN x
                             ELSE S(IF h[x] <= v THEN r[x] ELSE l[x])
  BY UpperBoundStep DEF Tree, Heap
<1> HIDE DEF S
<1>2. \A x \in Node : l[x] \in G \cup {NULL} /\ r[x] \in G \cup {NULL} => x \in G
  <2> SUFFICES ASSUME NEW x \in Node, Tree(x, l, r, h), l[x] \in G \cup {NULL},
                      \A k \in B[x] : h[k] >= v
               PROVE  Least(x)
    OBVIOUS
  <2>1. /\ x \in B[x] /\ B[x] = {x} \cup B[l[x]] \cup B[r[x]] /\ B[NULL] = {}
        /\ Tree(l[x], l, r, h) /\ h[x] \in Nat
        /\ \A k \in B[l[x]] : h[k] < h[x]
        /\ \A k \in B[r[x]] : h[k] >= h[x]
        /\ \A k \in B[x] : h[k] \in Nat
        /\ l[x] \in Place
    BY TreeParts
  <2>2. l[x] # NULL => l[x] \in B[l[x]]
    BY <2>1, TreeParts DEF Place
  <2> HIDE DEF B
  <2>3. CASE l[x] = NULL
    BY <1>1, <2>1, <2>3
  <2>4. CASE l[x] # NULL
    <3>1. h[l[x]] >= v /\ h[l[x]] < h[x] /\ h[l[x]] \in Nat
      BY <2>1, <2>2, <2>4
    <3>2. S(x) = S(l[x])
      BY <1>1, <2>1, <2>4, <3>1
    <3>3. Least(l[x])
      BY <2>1, <2>4
    <3> QED
      BY <2>1, <3>2, <3>3
  <2> QED
    BY <2>3, <2>4
<1>3. G = Node
  <2> HIDE DEF G
  <2> QED
    BY <1>2, HeapInduction DEF G, Tree
<1> QED
  BY <1>3 DEF S

(* In a tree that has no left children bst_upperBound finds what its name  *)
(* says: no node at or after v is before the one that it finds.            *)
LEMMA UpperBoundAscending ==
  ASSUME NEW l, NEW r, NEW h, NEW n \in Place, Tree(n, l, r, h), NEW v \in Nat,
         \A k \in Below(l, r)[n] : l[k] = NULL
  PROVE  LET s == bst_upperBound(n, l, r, h, v)
         IN \A k \in Below(l, r)[n] : h[k] >= v => h[s] <= h[k]
<1> DEFINE B == Below(l, r)
           S(x) == bst_upperBound(x, l, r, h, v)
           Least(x) == \A k \in B[x] : h[k] >= v => h[S(x)] <= h[k]
           G == {x \in Node : Tree(x, l, r, h) /\ (\A k \in B[x] : l[k] = NULL)
                              => Least(x)}
<1>1. \A x \in Node : S(x) = IF h[x] >= v /\ (l[x] = NULL \/ h[l[x]] < v) THEN x
                             ELSE S(IF h[x] <= v THEN r[x] ELSE l[x])
  BY UpperBoundStep DEF Tree, Heap
<1>2. B[NULL] = {}
  BY BelowStep DEF Tree, Heap
<1> HIDE DEF S
<1>3. \A x \in Node : l[x] \in G \cup {NULL} /\ r[x] \in G \cup {NULL} => x \in G
  <2> SUFFICES ASSUME NEW x \in Node, Tree(x, l, r, h), r[x] \in G \cup {NULL},
                      \A k \in B[x] : l[k] = NULL
               PROVE  Least(x)
    OBVIOUS
  <2>1. /\ x \in B[x] /\ B[x] = {x} \cup B[l[x]] \cup B[r[x]]
        /\ Tree(r[x], l, r, h) /\ h[x] \in Nat
        /\ \A k \in B[r[x]] : h[k] >= h[x]
        /\ \A k \in B[x] : h[k] \in Nat
    BY TreeParts
  <2>2. l[x] = NULL /\ B[l[x]] = {}
    BY <1>2, <2>1
  <2>3. Least(r[x])
    BY <1>2, <2>1
  <2> HIDE DEF B
  <2>4. CASE h[x] >= v
    BY <1>1, <2>1, <2>2, <2>4
  <2>5. CASE ~(h[x] >= v)
    BY <1>1, <2>1, <2>2, <2>3, <2>5
  <2> QED
    BY <2>4, <2>5
<1>4. G = Node
  <2> HIDE DEF G
  <2> QED
    BY <1>3, HeapInduction DEF G, Tree
<1> QED
  BY <1>2, <1>4 DEF Place, S

(* findSuccessor, for a hash that one node of the tree has: the least node *)
(* after it or, if it is the last, nothing.                                *)
LEMMA SuccessorFinds ==
  ASSUME NEW l, NEW r, NEW h, NEW n \in Node, Tree(n, l, r, h),
         NEW v \in Nat, NEW s \in Below(l, r)[n], h[s] = v,
         \A k \in Below(l, r)[n] : h[k] = v => k = s
  PROVE  LET m == findSuccessor(n, l, r, h, v)
         IN IF \A k \in Below(l, r)[n] : h[k] <= v THEN m = NULL
            ELSE /\ m \in Below(l, r)[n] /\ h[m] > v
                 /\ \A k \in Below(l, r)[n] : h[k] > v => h[m] <= h[k]
<1> DEFINE B == Below(l, r)
           After1(x, m) == /\ m \in B[x] /\ h[m] > v
                           /\ \A k \in B[x] : h[k] > v => h[m] <= h[k]
<1>0. PICK f : /\ SuccessorWalk(f, l, r, h, v)
               /\ \A root : findSuccessor(root, l, r, h, v) = f[<<root, NULL>>]
  BY SuccessorStep DEF Tree, Heap
<1> DEFINE F(x, p) == f[<<x, p>>]
<1>1. /\ \A p \in Place : F(NULL, p) = NULL
      /\ \A x \in Node, p \in Place :
           /\ h[x] = v /\ r[x] # NULL => F(x, p) = findMinimum(r[x], l)
           /\ h[x] = v /\ r[x] = NULL => F(x, p) = p
           /\ h[x] # v /\ v < h[x] => F(x, p) = F(l[x], x)
           /\ h[x] # v /\ ~(v < h[x]) => F(x, p) = F(r[x], p)
  BY <1>0 DEF SuccessorWalk
<1>5. \A root : findSuccessor(root, l, r, h, v) = F(root, NULL)
  BY <1>0
<1> HIDE DEF F
<1> DEFINE Found(x) == \A p \in Place :
                         IF \A k \in B[x] : h[k] <= v THEN F(x, p) = p
                         ELSE After1(x, F(x, p))
           Single(x) == s \in B[x] /\ \A k \in B[x] : h[k] = v => k = s
           G == {x \in Node : Tree(x, l, r, h) /\ Single(x) => Found(x)}
<1>2. \A x \in Node : l[x] \in G \cup {NULL} /\ r[x] \in G \cup {NULL} => x \in G
  <2> SUFFICES ASSUME NEW x \in Node, Tree(x, l, r, h), Single(x),
                      l[x] \in G \cup {NULL}, r[x] \in G \cup {NULL},
                      NEW p \in Place
               PROVE  IF \A k \in B[x] : h[k] <= v THEN F(x, p) = p
                      ELSE After1(x, F(x, p))
    OBVIOUS
  <2>1. /\ x \in B[x] /\ B[x] = {x} \cup B[l[x]] \cup B[r[x]] /\ B[NULL] = {}
        /\ Tree(l[x], l, r, h) /\ Tree(r[x], l, r, h) /\ h[x] \in Nat
        /\ \A k \in B[l[x]] : h[k] < h[x]
        /\ \A k \in B[r[x]] : h[k] >= h[x]
        /\ \A k \in B[x] : h[k] \in Nat
        /\ l[x] \in Place /\ r[x] \in Place /\ x \in Place
    BY TreeParts DEF Place
  <2>2. v \in Nat
    BY <2>1
  <2> DEFINE Goal == IF \A k \in B[x] : h[k] <= v THEN F(x, p) = p
                     ELSE After1(x, F(x, p))
  <2>0. \A c \in {l[x], r[x]} : c # NULL /\ Single(c) => Found(c)
    BY <2>1
  <2> SUFFICES Goal
    OBVIOUS
  <2> HIDE DEF G, Found, Goal
  <2>3. CASE h[x] = v
    <3>1. x = s /\ \A k \in B[r[x]] : h[k] > v
      <4>1. x = s
        BY <2>1, <2>3
      <4>2. s \notin B[r[x]]
        BY <4>1, BelowAcyclic DEF Tree
      <4> QED
        BY <2>1, <2>2, <2>3, <4>1, <4>2
    <3>2. CASE r[x] = NULL
      BY <1>1, <2>1, <2>2, <2>3, <3>1, <3>2 DEF Goal
    <3>3. CASE r[x] # NULL
      <4>1. LET m == findMinimum(r[x], l)
            IN m \in B[r[x]] /\ \A k \in B[r[x]] : h[m] <= h[k]
        BY <2>1, <3>3, MinimumIsLeast DEF Place
      <4>2. F(x, p) = findMinimum(r[x], l)
        BY <1>1, <2>3, <3>3
      <4> HIDE DEF B
      <4> QED
        BY <2>1, <2>2, <2>3, <3>1, <4>1, <4>2 DEF Goal
    <3> QED
      BY <3>2, <3>3
  <2>4. CASE v < h[x]
    <3>1. F(x, p) = F(l[x], x)
      BY <1>1, <2>1, <2>2, <2>4
    <3>2. s \in B[l[x]] /\ l[x] # NULL
      BY <2>1, <2>2, <2>4
    <3>3. Found(l[x])
      BY <2>0, <2>1, <2>2, <3>2
    <3> HIDE DEF B
    <3>4. IF \A k \in B[l[x]] : h[k] <= v THEN F(l[x], x) = x
          ELSE After1(l[x], F(l[x], x))
      BY <2>1, <3>3 DEF Found
    <3> QED
      BY <2>1, <2>2, <2>4, <3>1, <3>4 DEF Goal
  <2>5. CASE v > h[x]
    <3>1. F(x, p) = F(r[x], p)
      BY <1>1, <2>1, <2>2, <2>5
    <3>2. s \in B[r[x]] /\ r[x] # NULL
      BY <2>1, <2>2, <2>5
    <3>3. Found(r[x])
      BY <2>0, <2>1, <2>2, <3>2
    <3> HIDE DEF B
    <3>4. IF \A k \in B[r[x]] : h[k] <= v THEN F(r[x], p) = p
          ELSE After1(r[x], F(r[x], p))
      BY <2>1, <3>3 DEF Found
    <3> QED
      BY <2>1, <2>2, <2>5, <3>1, <3>4 DEF Goal
  <2> QED
    BY <2>1, <2>2, <2>3, <2>4, <2>5
<1>3. G = Node
  <2> HIDE DEF G
  <2> QED
    BY <1>2, HeapInduction DEF G, Tree
<1>4. Found(n)
  BY <1>3
<1> QED
  BY <1>5, <1>4 DEF Place

(* Whatever the hash, it finds a node of the tree or nothing.              *)
LEMMA SuccessorType ==
  ASSUME NEW l, NEW r, NEW h, NEW n \in Node, Tree(n, l, r, h), NEW v \in Nat
  PROVE  findSuccessor(n, l, r, h, v) \in Below(l, r)[n] \cup {NULL}
<1> DEFINE B == Below(l, r)
<1>0. PICK f : /\ SuccessorWalk(f, l, r, h, v)
               /\ \A root : findSuccessor(root, l, r, h, v) = f[<<root, NULL>>]
  BY SuccessorStep DEF Tree, Heap
<1> DEFINE F(x, p) == f[<<x, p>>]
<1>1. /\ \A p \in Place : F(NULL, p) = NULL
      /\ \A x \in Node, p \in Place :
           /\ h[x] = v /\ r[x] # NULL => F(x, p) = findMinimum(r[x], l)
           /\ h[x] = v /\ r[x] = NULL => F(x, p) = p
           /\ h[x] # v /\ v < h[x] => F(x, p) = F(l[x], x)
           /\ h[x] # v /\ ~(v < h[x]) => F(x, p) = F(r[x], p)
  BY <1>0 DEF SuccessorWalk
<1>5. findSuccessor(n, l, r, h, v) = F(n, NULL)
  BY <1>0
<1> HIDE DEF F
<1> DEFINE Found(x) == \A p \in Place : F(x, p) \in B[x] \cup {p, NULL}
           G == {x \in Node : Tree(x, l, r, h) => Found(x)}
<1>2. \A x \in Node : l[x] \in G \cup {NULL} /\ r[x] \in G \cup {NULL} => x \in G
  <2> SUFFICES ASSUME NEW x \in Node, Tree(x, l, r, h),
                      l[x] \in G \cup {NULL}, r[x] \in G \cup {NULL},
                      NEW p \in Place
               PROVE  F(x, p) \in B[x] \cup {p, NULL}
    OBVIOUS
  <2>1. /\ x \in B[x] /\ B[x] = {x} \cup B[l[x]] \cup B[r[x]] /\ B[NULL] = {}
        /\ Tree(l[x], l, r, h) /\ Tree(r[x], l, r, h) /\ x \in Place
        /\ l[x] \in Place /\ r[x] \in Place
    BY TreeParts DEF Place
  <2>2. Found(l[x]) /\ Found(r[x])
    BY <1>1, <2>1
  <2>3. r[x] # NULL => findMinimum(r[x], l) \in B[r[x]]
    BY <2>1, MinimumIsLeast DEF Place
  <2> HIDE DEF G, B
  <2> QED
    BY <1>1, <2>1, <2>2, <2>3
<1>3. G = Node
  <2>1. G \in SUBSET Node /\ Heap(l, r)
    BY DEF Tree
  <2> HIDE DEF G
  <2> QED
    BY <1>2, <2>1, HeapInduction
<1> QED
  BY <1>5, <1>3 DEF Place

(* findPredecessor, for a hash that some node has: the greatest node       *)
(* before it or, if it is the first, nothing.                              *)
LEMMA PredecessorFinds ==
  ASSUME treeRoot \in Node, Tree(treeRoot, left, right, hash),
         NEW v \in Nat, \E k \in Below(left, right)[treeRoot] : hash[k] = v
  PROVE  LET m == findPredecessor(v)
             S == Below(left, right)[treeRoot]
         IN IF \A k \in S : hash[k] >= v THEN m = NULL
            ELSE /\ m \in S /\ hash[m] < v
                 /\ \A k \in S : hash[k] < v => hash[k] <= hash[m]
<1> DEFINE B == Below(left, right)
           Before1(x, m) == /\ m \in B[x] /\ hash[m] < v
                            /\ \A k \in B[x] : hash[k] < v => hash[k] <= hash[m]
<1>0. PICK f : /\ PredecessorWalk(f, v)
               /\ findPredecessor(v) = f[<<treeRoot, NULL>>]
  BY PredecessorStep DEF Tree, Heap
<1> DEFINE F(x, p) == f[<<x, p>>]
<1>1. /\ \A p \in Place : F(NULL, p) = NULL
      /\ \A x \in Node, p \in Place :
           /\ hash[x] = v /\ left[x] # NULL => F(x, p) = findMaximum(left[x], right)
           /\ hash[x] = v /\ left[x] = NULL => F(x, p) = p
           /\ hash[x] # v /\ v < hash[x] => F(x, p) = F(left[x], p)
           /\ hash[x] # v /\ ~(v < hash[x]) => F(x, p) = F(right[x], x)
  BY <1>0 DEF PredecessorWalk
<1>5. findPredecessor(v) = F(treeRoot, NULL)
  BY <1>0
<1> HIDE DEF F
<1> DEFINE Some(x) == \E k \in B[x] : hash[k] = v
           Result(x, p, m) == IF \A k \in B[x] : hash[k] >= v THEN m = p
                              ELSE Before1(x, m)
           Found(x) == \A p \in Place : Result(x, p, F(x, p))
           G == {x \in Node : Tree(x, left, right, hash) /\ Some(x) => Found(x)}
<1>2. \A x \in Node : left[x] \in G \cup {NULL} /\ right[x] \in G \cup {NULL} => x \in G
  <2> SUFFICES ASSUME NEW x \in Node, Tree(x, left, right, hash), Some(x),
                      left[x] \in G \cup {NULL}, right[x] \in G \cup {NULL},
                      NEW p \in Place
               PROVE  Result(x, p, F(x, p))
    OBVIOUS
  <2>1. /\ x \in B[x] /\ B[x] = {x} \cup B[left[x]] \cup B[right[x]] /\ B[NULL] = {}
        /\ Tree(left[x], left, right, hash) /\ Tree(right[x], left, right, hash)
        /\ hash[x] \in Nat
        /\ \A k \in B[left[x]] : hash[k] < hash[x]
        /\ \A k \in B[right[x]] : hash[k] >= hash[x]
        /\ \A k \in B[x] : hash[k] \in Nat
        /\ left[x] \in Place /\ right[x] \in Place /\ x \in Place
    BY TreeParts DEF Place
  <2>2. \A c \in {left[x], right[x]} : c # NULL /\ Some(c) => Found(c)
    BY <2>1
  <2> HIDE DEF G, Found
  <2>3. CASE hash[x] = v
    <3>1. CASE left[x] = NULL
      BY <1>1, <2>1, <2>3, <3>1
    <3>2. CASE left[x] # NULL
      <4>1. LET m == findMaximum(left[x], right)
            IN m \in B[left[x]] /\ \A k \in B[left[x]] : hash[m] >= hash[k]
        BY <2>1, <3>2, MaximumIsGreatest DEF Place
      <4>2. F(x, p) = findMaximum(left[x], right)
        BY <1>1, <2>3, <3>2
      <4> HIDE DEF B
      <4> QED
        BY <2>1, <2>3, <4>1, <4>2
    <3> QED
      BY <3>1, <3>2
  <2>4. CASE v < hash[x]
    <3>1. F(x, p) = F(left[x], p)
      BY <1>1, <2>1, <2>4
    <3>2. Some(left[x]) /\ left[x] # NULL
      BY <2>1, <2>4
    <3> HIDE DEF B
    <3>3. Result(left[x], p, F(left[x], p))
      BY <2>2, <3>2 DEF Found
    <3> QED
      BY <2>1, <2>4, <3>1, <3>3
  <2>5. CASE v > hash[x]
    <3>1. F(x, p) = F(right[x], x)
      BY <1>1, <2>1, <2>5
    <3>2. Some(right[x]) /\ right[x] # NULL
      BY <2>1, <2>5
    <3> HIDE DEF B
    <3>3. Result(right[x], x, F(right[x], x))
      BY <2>1, <2>2, <3>2 DEF Found
    <3> QED
      BY <2>1, <2>5, <3>1, <3>3
  <2> QED
    BY <2>1, <2>3, <2>4, <2>5
<1>3. G = Node
  <2> HIDE DEF G
  <2> QED
    BY <1>2, HeapInduction DEF G, Tree
<1>4. Found(treeRoot)
  BY <1>3
<1> QED
  BY <1>5, <1>4 DEF Place

(* The node that insertBST hangs a new one on: it has room on the side of  *)
(* v, and it is on that side of every node above it.                       *)
LEMMA LeafFits ==
  ASSUME treeRoot \in Node, Tree(treeRoot, left, right, hash), NEW v \in Nat
  PROVE  LET q == leafFor(v)
             B == Below(left, right)
         IN /\ q \in B[treeRoot]
            /\ (IF v < hash[q] THEN left[q] ELSE right[q]) = NULL
            /\ \A a \in B[treeRoot] : /\ q \in B[left[a]] => v < hash[a]
                                      /\ q \in B[right[a]] => v >= hash[a]
<1> DEFINE B == Below(left, right)
           C(x) == IF v < hash[x] THEN left[x] ELSE right[x]
           Fits(x, q) == /\ q \in B[x] /\ C(q) = NULL
                         /\ \A a \in B[x] : /\ q \in B[left[a]] => v < hash[a]
                                            /\ q \in B[right[a]] => v >= hash[a]
<1>1. PICK f : /\ \A x \in Node : LET c == C(x) IN f[x] = IF c = NULL THEN x ELSE f[c]
               /\ leafFor(v) = f[treeRoot]
  BY LeafStep DEF Tree, Heap
<1> DEFINE G == {x \in Node : Tree(x, left, right, hash) => Fits(x, f[x])}
<1>2. \A x \in Node : left[x] \in G \cup {NULL} /\ right[x] \in G \cup {NULL} => x \in G
  <2> SUFFICES ASSUME NEW x \in Node, Tree(x, left, right, hash),
                      left[x] \in G \cup {NULL}, right[x] \in G \cup {NULL}
               PROVE  Fits(x, f[x])
    OBVIOUS
  <2>1. /\ x \in B[x] /\ B[x] = {x} \cup B[left[x]] \cup B[right[x]] /\ B[NULL] = {}
        /\ Tree(left[x], left, right, hash) /\ Tree(right[x], left, right, hash)
        /\ hash[x] \in Nat
        /\ \A k \in B[left[x]] : hash[k] < hash[x]
        /\ \A k \in B[right[x]] : hash[k] >= hash[x]
        /\ \A k \in B[x] : k \in Node /\ hash[k] \in Nat
    BY TreeParts
  <2>2. x \notin B[left[x]] /\ x \notin B[right[x]]
    BY BelowAcyclic DEF Tree
  <2>3. \A c \in {left[x], right[x]} : c # NULL => Fits(c, f[c])
    BY <2>1
  <2>4. \A c \in {left[x], right[x]} : \A a \in B[c] :
          B[left[a]] \subseteq B[c] /\ B[right[a]] \subseteq B[c]
    <3> SUFFICES ASSUME NEW c \in {left[x], right[x]}, NEW a \in B[c]
                 PROVE  B[left[a]] \subseteq B[c] /\ B[right[a]] \subseteq B[c]
      OBVIOUS
    <3>1. Tree(c, left, right, hash)
      BY <2>1
    <3> QED
      BY <3>1, SubTree
  <2> HIDE DEF G, B
  <2>5. CASE C(x) = NULL
    <3>1. f[x] = x
      BY <1>1, <2>5
    <3> QED
      BY <2>1, <2>2, <2>4, <2>5, <3>1
  <2>6. CASE v < hash[x] /\ C(x) # NULL
    <3>1. f[x] = f[left[x]] /\ Fits(left[x], f[left[x]])
      BY <1>1, <2>3, <2>6
    <3>2. f[x] \in B[left[x]] /\ f[x] \notin B[right[x]]
      BY <2>1, <3>1
    <3> QED
      BY <2>1, <2>2, <2>4, <2>6, <3>1, <3>2
  <2>7. CASE ~(v < hash[x]) /\ C(x) # NULL
    <3>1. f[x] = f[right[x]] /\ Fits(right[x], f[right[x]])
      BY <1>1, <2>3, <2>7
    <3>2. f[x] \in B[right[x]] /\ f[x] \notin B[left[x]]
      BY <2>1, <3>1
    <3>3. v >= hash[x]
      BY <2>1, <2>7
    <3> QED
      BY <2>1, <2>2, <2>4, <3>1, <3>2, <3>3
  <2> QED
    BY <2>5, <2>6, <2>7
<1>3. G = Node
  <2>1. G \in SUBSET Node /\ Heap(left, right)
    BY DEF Tree
  <2> HIDE DEF G
  <2> QED
    BY <1>2, <2>1, HeapInduction
<1> QED
  BY <1>1, <1>3
----------------------------------------------------------------------------
(***************************************************************************)
(* Changing a tree.                                                        *)
(***************************************************************************)

(* No cell, linked or free, points to a free cell: a cell that is freed    *)
(* was unlinked, and one that is allocated gets fields of its own.         *)
Closed(root, l, r) ==
  \A n \in Node : {l[n], r[n]} \subseteq Below(l, r)[root] \cup {NULL}

Ringed(root, l, r, h) == Tree(root, l, r, h) /\ Closed(root, l, r)

(* The fields nl and nr are l and r with the new node hung on p.           *)
LeafAt(l, r, new, p, nl, nr) ==
  /\ nl \in [Node -> Place] /\ nr \in [Node -> Place]
  /\ nl[new] = NULL /\ nr[new] = NULL
  /\ \A m \in Node \ {new, p} : nl[m] = l[m] /\ nr[m] = r[m]
  /\ \/ l[p] = NULL /\ nl[p] = new /\ nr[p] = r[p]
     \/ r[p] = NULL /\ nr[p] = new /\ nl[p] = l[p]

(* Growing a leaf keeps the heap grounded: a set of nodes with the new one *)
(* in it has that one, any other has the node it had.                      *)
LEMMA LeafBelow ==
  ASSUME NEW root \in Place, NEW l, NEW r, Heap(l, r), Closed(root, l, r),
         NEW new \in Node \ Below(l, r)[root],
         NEW p \in Below(l, r)[root],
         NEW nl, NEW nr, LeafAt(l, r, new, p, nl, nr)
  PROVE  /\ Heap(nl, nr)
         /\ Below(nl, nr)[NULL] = {} /\ Below(nl, nr)[new] = {new}
         /\ \A m \in Place \ {new} : Below(nl, nr)[m] =
              Below(l, r)[m] \cup (IF p \in Below(l, r)[m] THEN {new} ELSE {})
<1> DEFINE B == Below(l, r)
           N == Below(nl, nr)
           Grown(m) == N[m] = B[m] \cup (IF p \in B[m] THEN {new} ELSE {})
           G == {m \in Node : m # new => Grown(m)}
<1>1. p \in Node /\ new \in Node /\ p # new
  BY BelowType
<1> USE DEF LeafAt
<1>2. Heap(nl, nr)
  <2>1. Fields(nl, nr)
    BY DEF Fields
  <2>2. ASSUME NEW T \in SUBSET Node, T # {}
        PROVE  \E n \in T : nl[n] \notin T /\ nr[n] \notin T
    <3>1. CASE new \in T
      BY <3>1, NodeAssumption
    <3>2. CASE new \notin T
      <4>1. PICK n \in T : l[n] \notin T /\ r[n] \notin T
        BY <2>2 DEF Heap, Grounded
      <4> QED
        BY <3>2, <4>1, NodeAssumption
    <3> QED
      BY <3>1, <3>2
  <2> QED
    BY <2>1, <2>2 DEF Heap, Grounded
<1>3. /\ B[NULL] = {} /\ \A x \in Node : B[x] = {x} \cup B[l[x]] \cup B[r[x]]
      /\ N[NULL] = {} /\ \A x \in Node : N[x] = {x} \cup N[nl[x]] \cup N[nr[x]]
  BY <1>2, BelowStep DEF Heap
<1>4. p \notin B[l[p]] /\ p \notin B[r[p]]
  BY <1>1, BelowAcyclic
<1>5. \A m \in Node : l[m] # new /\ r[m] # new
  BY NodeAssumption DEF Closed
<1>6. N[new] = {new}
  BY <1>1, <1>3
<1> HIDE DEF B, N
<1>7. \A m \in Node : l[m] \in G \cup {NULL} /\ r[m] \in G \cup {NULL} => m \in G
  <2> SUFFICES ASSUME NEW m \in Node, m # new,
                      l[m] \in G \cup {NULL}, r[m] \in G \cup {NULL}
               PROVE  Grown(m)
    OBVIOUS
  <2>1. Grown(l[m]) /\ Grown(r[m])
    BY <1>3, <1>5
  <2> HIDE DEF G
  <2>2. CASE m = p
    <3>1. N[l[p]] = B[l[p]] /\ N[r[p]] = B[r[p]]
      BY <1>4, <2>1, <2>2
    <3> QED
      BY <1>1, <1>3, <1>6, <2>2, <3>1
  <2>3. CASE m # p
    <3>1. nl[m] = l[m] /\ nr[m] = r[m]
      BY <2>3
    <3> QED
      BY <1>3, <2>1, <2>3, <3>1
  <2> QED
    BY <2>2, <2>3
<1>8. G = Node
  <2>1. G \in SUBSET Node
    OBVIOUS
  <2> HIDE DEF G
  <2> QED
    BY <1>7, <2>1, HeapInduction
<1> QED
  BY <1>2, <1>3, <1>6, <1>8 DEF Place, B, N

(* The fields after insertBST(v) with the cell new.                        *)
Inserted(v, new, p, nl, nr, nh) ==
  /\ nh = [hash EXCEPT ![new] = v]
  /\ nl = [left EXCEPT ![new] = NULL, ![p] = IF v < hash[p] THEN new ELSE @]
  /\ nr = [right EXCEPT ![new] = NULL, ![p] = IF v < hash[p] THEN @ ELSE new]

(* insertBST into a tree that has a root keeps the search tree and adds    *)
(* the new node to it.                                                     *)
LEMMA InsertBelow ==
  ASSUME Ringed(treeRoot, left, right, hash), treeRoot # NULL, NEW v \in Nat,
         NEW new \in Node \ Linked,
         NEW p, p = leafFor(v),
         NEW nl, NEW nr, NEW nh, Inserted(v, new, p, nl, nr, nh)
  PROVE  /\ Ringed(treeRoot, nl, nr, nh)
         /\ Below(nl, nr)[treeRoot] = Linked \cup {new}
         /\ nl[new] = NULL
<1> DEFINE B == Below(left, right)
           N == Below(nl, nr)
<1>1. /\ treeRoot \in Node /\ Tree(treeRoot, left, right, hash) /\ Linked = B[treeRoot]
      /\ Heap(left, right) /\ Closed(treeRoot, left, right)
      /\ treeRoot \in Place /\ hash \in [Node -> Nat]
  BY DEF Ringed, Tree, Place, Linked
<1>2. /\ p \in B[treeRoot]
      /\ (IF v < hash[p] THEN left[p] ELSE right[p]) = NULL
      /\ \A a \in B[treeRoot] : /\ p \in B[left[a]] => v < hash[a]
                                /\ p \in B[right[a]] => v >= hash[a]
  BY <1>1, LeafFits
<1>3. /\ p \in Node /\ new \in Node /\ p # new /\ treeRoot # new
      /\ treeRoot \in B[treeRoot]
  BY <1>1, <1>2, BelowType, TreeParts
<1>4. /\ left \in [Node -> Place] /\ right \in [Node -> Place]
      /\ new \in Place /\ NULL \in Place
  BY <1>1 DEF Heap, Fields, Place
<1>5. /\ nl \in [Node -> Place] /\ nr \in [Node -> Place]
      /\ nl[new] = NULL /\ nr[new] = NULL
      /\ nl[p] = IF v < hash[p] THEN new ELSE left[p]
      /\ nr[p] = IF v < hash[p] THEN right[p] ELSE new
      /\ \A m \in Node \ {new, p} : nl[m] = left[m] /\ nr[m] = right[m]
  BY <1>3, <1>4 DEF Inserted
<1>6. /\ Heap(nl, nr) /\ N[NULL] = {} /\ N[new] = {new}
      /\ \A m \in Place \ {new} : N[m] = B[m] \cup (IF p \in B[m] THEN {new} ELSE {})
  <2>1. \/ left[p] = NULL /\ nl[p] = new /\ nr[p] = right[p]
        \/ right[p] = NULL /\ nr[p] = new /\ nl[p] = left[p]
    BY <1>2, <1>5
  <2>2. new \in Node \ B[treeRoot]
    BY <1>1
  <2>3. LeafAt(left, right, new, p, nl, nr)
    BY <1>5, <2>1 DEF LeafAt
  <2> QED
    BY <1>1, <1>2, <2>2, <2>3, LeafBelow
<1>7. N[treeRoot] = Linked \cup {new}
  BY <1>1, <1>2, <1>3, <1>6
<1>8. Closed(treeRoot, nl, nr)
  BY <1>1, <1>3, <1>5, <1>7 DEF Closed
<1>9. nh \in [Node -> Nat] /\ nh[new] = v /\ \A m \in Node \ {new} : nh[m] = hash[m]
  BY <1>1, <1>3 DEF Inserted
<1>10. Sorted(treeRoot, nl, nr, nh)
  <2> SUFFICES ASSUME NEW a \in B[treeRoot]
               PROVE  /\ \A m \in N[nl[a]] : nh[m] < nh[a]
                      /\ \A m \in N[nr[a]] : nh[m] >= nh[a]
    <3>1. N[nl[new]] = {} /\ N[nr[new]] = {}
      BY <1>5, <1>6
    <3> QED
      BY <1>1, <1>7, <3>1 DEF Sorted
  <2>1. /\ a \in Node /\ a # new /\ nh[a] = hash[a] /\ hash[a] \in Nat
        /\ left[a] \in Place /\ right[a] \in Place
        /\ left[a] # new /\ right[a] # new
        /\ B[left[a]] \subseteq B[treeRoot] /\ B[right[a]] \subseteq B[treeRoot]
    <3>1. a \in Node /\ a # new
      BY <1>1, BelowType
    <3>2. B[left[a]] \subseteq B[treeRoot] /\ B[right[a]] \subseteq B[treeRoot]
      BY <1>1, SubTree
    <3> QED
      BY <1>1, <1>4, <1>9, <3>1, <3>2, NodeAssumption DEF Closed
  <2>2. /\ \A m \in B[left[a]] : m \in Node /\ m # new /\ nh[m] < nh[a]
        /\ \A m \in B[right[a]] : m \in Node /\ m # new /\ nh[m] >= nh[a]
    <3>1. /\ \A m \in B[left[a]] : hash[m] < hash[a]
          /\ \A m \in B[right[a]] : hash[m] >= hash[a]
      BY <1>1 DEF Tree, Sorted
    <3>2. \A m \in B[treeRoot] : m \in Node /\ m # new
      BY <1>1, BelowType
    <3> QED
      BY <1>9, <2>1, <3>1, <3>2
  <2> HIDE DEF B, N
  <2>3. CASE a = p
    <3>1. p \notin B[left[p]] /\ p \notin B[right[p]]
      BY <1>1, <1>3, BelowAcyclic DEF B
    <3>2. N[left[p]] = B[left[p]] /\ N[right[p]] = B[right[p]]
      <4>1. left[p] \in Place \ {new} /\ right[p] \in Place \ {new}
        BY <2>1, <2>3
      <4>2. \A m \in Place \ {new} : p \notin B[m] => N[m] = B[m]
        BY <1>6
      <4> QED
        BY <3>1, <4>1, <4>2
    <3>3. CASE v < hash[p]
      BY <1>3, <1>5, <1>6, <1>9, <2>1, <2>2, <2>3, <3>2, <3>3
    <3>4. CASE ~(v < hash[p])
      BY <1>3, <1>5, <1>6, <1>9, <2>1, <2>2, <2>3, <3>2, <3>4
    <3> QED
      BY <3>3, <3>4
  <2>4. CASE a # p
    <3>1. nl[a] = left[a] /\ nr[a] = right[a]
      BY <1>5, <2>1, <2>4
    <3>2. /\ N[left[a]] = B[left[a]] \cup (IF p \in B[left[a]] THEN {new} ELSE {})
          /\ N[right[a]] = B[right[a]] \cup (IF p \in B[right[a]] THEN {new} ELSE {})
      BY <1>6, <2>1
    <3> QED
      BY <1>2, <1>9, <2>1, <2>2, <3>1, <3>2
  <2> QED
    BY <2>3, <2>4
<1> QED
  BY <1>1, <1>5, <1>6, <1>7, <1>8, <1>9, <1>10 DEF Ringed, Tree

(* The fields nl and nr are left and right with each pointer to n replaced *)
(* by one to its child c.                                                  *)
Bypassed(n, c, nl, nr) ==
  /\ nl \in [Node -> Place] /\ nr \in [Node -> Place]
  /\ \A m \in Node : /\ nl[m] = IF left[m] = n THEN c ELSE left[m]
                     /\ nr[m] = IF right[m] = n THEN c ELSE right[m]

(* Bypassing n keeps the heap grounded: a set with c in it has the node    *)
(* that it has with n added, any other the one it has without n.           *)
LEMMA BypassBelow ==
  ASSUME Heap(left, right), NEW n \in Node, NEW c \in Place,
         \/ left[n] = NULL /\ c = right[n]
         \/ right[n] = NULL /\ c = left[n],
         NEW nl, NEW nr, Bypassed(n, c, nl, nr)
  PROVE  /\ Heap(nl, nr)
         /\ c # n
         /\ \A m \in Place : Below(nl, nr)[IF m = n THEN c ELSE m]
                               = Below(left, right)[m] \ {n}
<1> DEFINE B == Below(left, right)
           N == Below(nl, nr)
           By(m) == IF m = n THEN c ELSE m
           G == {m \in Node : N[By(m)] = B[m] \ {n}}
<1> USE DEF Bypassed
<1>1. left \in [Node -> Place] /\ right \in [Node -> Place]
  BY DEF Heap, Fields
<1>2. Heap(nl, nr)
  <2>1. ASSUME NEW T \in SUBSET Node, T # {}
        PROVE  \E k \in T : nl[k] \notin T /\ nr[k] \notin T
    <3>1. CASE c \in T
      <4>1. T \cup {n} \in SUBSET Node /\ T \cup {n} # {}
        OBVIOUS
      <4>2. PICK k \in T \cup {n} : left[k] \notin T \cup {n} /\ right[k] \notin T \cup {n}
        BY <4>1 DEF Heap, Grounded
      <4>3. k # n
        BY <3>1, <4>2
      <4> QED
        BY <4>2, <4>3
    <3>2. CASE c \notin T /\ T # {n}
      <4>1. T \ {n} \in SUBSET Node /\ T \ {n} # {}
        BY <2>1, <3>2
      <4>2. PICK k \in T \ {n} : left[k] \notin T \ {n} /\ right[k] \notin T \ {n}
        BY <4>1 DEF Heap, Grounded
      <4> QED
        BY <3>2, <4>2
    <3>3. CASE c \notin T /\ T = {n}
      <4>1. left[n] # n /\ right[n] # n
        BY <3>3 DEF Heap, Grounded
      <4> QED
        BY <3>3, <4>1, NodeAssumption
    <3> QED
      BY <3>1, <3>2, <3>3
  <2> QED
    BY <2>1 DEF Heap, Fields, Grounded
<1>3. /\ B[NULL] = {} /\ \A x \in Node : B[x] = {x} \cup B[left[x]] \cup B[right[x]]
      /\ N[NULL] = {} /\ \A x \in Node : N[x] = {x} \cup N[nl[x]] \cup N[nr[x]]
  BY <1>2, BelowStep DEF Heap
<1>4. n \notin B[left[n]] /\ n \notin B[right[n]]
  BY BelowAcyclic
<1> HIDE DEF B, N
<1>5. c # n /\ n \notin B[c] /\ B[n] = {n} \cup B[c]
  <2>1. B[n] = {n} \cup B[c] /\ n \notin B[c]
    BY <1>3, <1>4
  <2>2. n \in B[n]
    BY <1>3
  <2> QED
    BY <2>1, <2>2
<1>6. N[By(NULL)] = B[NULL] \ {n}
  BY <1>3, NodeAssumption
<1>7. \A m \in Node : left[m] \in G \cup {NULL} /\ right[m] \in G \cup {NULL} => m \in G
  <2> SUFFICES ASSUME NEW m \in Node,
                      left[m] \in G \cup {NULL}, right[m] \in G \cup {NULL}
               PROVE  N[By(m)] = B[m] \ {n}
    OBVIOUS
  <2>1. N[By(left[m])] = B[left[m]] \ {n} /\ N[By(right[m])] = B[right[m]] \ {n}
    BY <1>6
  <2> HIDE DEF G
  <2>2. CASE m = n
    <3>1. N[By(c)] = B[c] \ {n}
      BY <2>1, <2>2
    <3>2. By(c) = c /\ By(n) = c
      BY <1>5
    <3>3. B[n] \ {n} = B[c] \ {n}
      BY <1>5
    <3> QED
      BY <2>2, <3>1, <3>2, <3>3
  <2>3. CASE m # n
    <3>1. By(m) = m /\ nl[m] = By(left[m]) /\ nr[m] = By(right[m])
      BY <2>3
    <3> QED
      BY <1>3, <2>1, <2>3, <3>1
  <2> QED
    BY <2>2, <2>3
<1>8. G = Node
  <2>1. G \in SUBSET Node
    OBVIOUS
  <2> HIDE DEF G
  <2> QED
    BY <1>7, <2>1, HeapInduction
<1> QED
  BY <1>2, <1>5, <1>6, <1>8 DEF Place, B, N

(* t is the tree after every pointer to n, the root's too, is replaced by  *)
(* one to its only child c.                                                *)
Unlinks(n, c, t) ==
  /\ t.root = IF treeRoot = n THEN c ELSE treeRoot
  /\ Bypassed(n, c, t.left, t.right)
  /\ \/ left[n] = NULL /\ c = right[n]
     \/ right[n] = NULL /\ c = left[n]

(* The tree after Unlinked(n, h): n is gone from it and, if the hashes are *)
(* in order with n left out, it is a search tree.                          *)
LEMMA UnlinkedTree ==
  ASSUME Ringed(treeRoot, left, right, hash), NEW n \in Linked,
         left[n] = NULL \/ right[n] = NULL, NEW h \in [Node -> Nat],
         \A a \in Linked \ {n} :
           /\ \A m \in Below(left, right)[left[a]] \ {n} : h[m] < h[a]
           /\ \A m \in Below(left, right)[right[a]] \ {n} : h[m] >= h[a]
  PROVE  LET t == Unlinked(n, h)
         IN /\ t.hash = h
            /\ Ringed(t.root, t.left, t.right, h)
            /\ Below(t.left, t.right)[t.root] = Linked \ {n}
            /\ \E c \in Place : Unlinks(n, c, t)
<1> DEFINE c == IF left[n] = NULL THEN right[n] ELSE left[n]
           t == Unlinked(n, h)
           B == Below(left, right)
           N == Below(t.left, t.right)
           By(m) == IF m = n THEN c ELSE m
<1>1. /\ Tree(treeRoot, left, right, hash) /\ Linked = B[treeRoot]
      /\ Heap(left, right) /\ Closed(treeRoot, left, right)
      /\ treeRoot \in Place
  BY DEF Ringed, Tree, Linked
<1>2. n \in Node /\ c \in Place /\ left \in [Node -> Place] /\ right \in [Node -> Place]
  <2>1. n \in Node
    BY <1>1, BelowType
  <2> QED
    BY <1>1, <2>1 DEF Heap, Fields
<1>3. /\ t.root = By(treeRoot) /\ t.hash = h
      /\ t.left = [m \in Node |-> By(left[m])]
      /\ t.right = [m \in Node |-> By(right[m])]
  BY DEF Unlinked
<1>4. Bypassed(n, c, t.left, t.right)
  BY <1>2, <1>3 DEF Bypassed
<1>5. /\ \A m \in Node : t.left[m] = By(left[m]) /\ t.right[m] = By(right[m])
      /\ t.root \in Place /\ t.left \in [Node -> Place] /\ t.right \in [Node -> Place]
  BY <1>1, <1>2, <1>3
<1>6. \/ left[n] = NULL /\ c = right[n]
      \/ right[n] = NULL /\ c = left[n]
  BY NodeAssumption
<1> HIDE DEF c, t
<1>7. Heap(t.left, t.right) /\ c # n /\ \A m \in Place : N[By(m)] = B[m] \ {n}
  BY <1>1, <1>2, <1>4, <1>6, BypassBelow
<1>8. N[t.root] = Linked \ {n}
  BY <1>1, <1>3, <1>7
<1>9. c \in Linked \cup {NULL}
  BY <1>1, <1>2, <1>6 DEF Closed
<1>10. Closed(t.root, t.left, t.right)
  <2>1. \A m \in Node : /\ By(left[m]) \in (Linked \ {n}) \cup {NULL}
                        /\ By(right[m]) \in (Linked \ {n}) \cup {NULL}
    BY <1>1, <1>7, <1>9 DEF Closed
  <2> QED
    BY <1>5, <1>8, <2>1 DEF Closed
<1>11. Sorted(t.root, t.left, t.right, h)
  <2>1. ASSUME NEW a \in Linked \ {n}
        PROVE  /\ \A m \in N[t.left[a]] : h[m] < h[a]
               /\ \A m \in N[t.right[a]] : h[m] >= h[a]
    <3>1. a \in Node
      BY <1>1, BelowType
    <3>2. /\ N[t.left[a]] = B[left[a]] \ {n} /\ N[t.right[a]] = B[right[a]] \ {n}
      BY <1>2, <1>5, <1>7, <3>1
    <3> QED
      BY <3>2
  <2> QED
    BY <1>8, <2>1 DEF Sorted
<1> QED
  <2>1. Unlinks(n, c, t)
    BY <1>3, <1>4, <1>6 DEF Unlinks
  <2>2. Ringed(t.root, t.left, t.right, h)
    BY <1>5, <1>7, <1>10, <1>11 DEF Ringed, Tree
  <2> QED
    BY <1>2, <1>3, <1>8, <2>1, <2>2 DEF t

(* What deleteBST does to the tree: of the nodes with the hash v it takes  *)
(* one, n, away.  The cell that is unlinked is n or, if n has two          *)
(* children, the least node to its right, whose hash n has from then on.   *)
DeletedAt(v, n, gone, t) ==
  /\ n = Search(treeRoot, left, right, hash, v)
  /\ n \in Linked /\ hash[n] = v
  /\ gone \in Linked /\ hash[gone] >= v
  /\ left[n] = NULL => gone = n
  /\ t.hash = [hash EXCEPT ![n] = hash[gone]]
  /\ Ringed(t.root, t.left, t.right, t.hash)
  /\ Below(t.left, t.right)[t.root] = Linked \ {gone}
  /\ \E c \in Place : Unlinks(gone, c, t)
  /\ gone # n => /\ right[n] # NULL /\ gone \in Below(left, right)[right[n]]
                 /\ \A k \in Below(left, right)[right[n]] : hash[gone] <= hash[k]

(* deleteBST, when some node of the tree holds v.                          *)
LEMMA DeleteResult ==
  ASSUME Ringed(treeRoot, left, right, hash), NEW v \in Nat,
         \E k \in Linked : hash[k] = v
  PROVE  \E n, gone : DeletedAt(v, n, gone, deleteBST(v))
<1> DEFINE B == Below(left, right)
           n == Search(treeRoot, left, right, hash, v)
           t == deleteBST(v)
           temp == findMinimum(right[n], left)
           h == [hash EXCEPT ![n] = hash[temp]]
<1>1. /\ Tree(treeRoot, left, right, hash) /\ Linked = B[treeRoot]
      /\ Heap(left, right) /\ treeRoot \in Place /\ hash \in [Node -> Nat]
  BY DEF Ringed, Tree, Linked
<1>2. n \in Linked /\ hash[n] = v
  BY <1>1, SearchFinds
<1>3. /\ n \in Node /\ n # NULL /\ Tree(n, left, right, hash)
      /\ n \in B[n] /\ B[n] \subseteq Linked
  BY <1>1, <1>2, SubTree, TreeParts, NodeAssumption
<1>4. \A a \in Linked : /\ a \in Node
                        /\ \A m \in B[left[a]] : m \in Linked /\ hash[m] < hash[a]
                        /\ \A m \in B[right[a]] : m \in Linked /\ hash[m] >= hash[a]
  <2> SUFFICES ASSUME NEW a \in Linked
               PROVE  /\ a \in Node
                      /\ \A m \in B[left[a]] : m \in Linked /\ hash[m] < hash[a]
                      /\ \A m \in B[right[a]] : m \in Linked /\ hash[m] >= hash[a]
    OBVIOUS
  <2>1. a \in Node /\ B[left[a]] \subseteq Linked /\ B[right[a]] \subseteq Linked
    BY <1>1, SubTree
  <2> QED
    BY <1>1, <2>1 DEF Tree, Sorted
<1>5. CASE left[n] = NULL \/ right[n] = NULL
  <2>1. t = Unlinked(n, hash)
    BY <1>3, <1>5 DEF deleteBST
  <2>2. /\ t.hash = hash /\ Ringed(t.root, t.left, t.right, hash)
        /\ Below(t.left, t.right)[t.root] = Linked \ {n}
        /\ \E c \in Place : Unlinks(n, c, t)
    <3> HIDE DEF n, t, B
    <3>1. \A a \in Linked \ {n} : /\ \A m \in B[left[a]] \ {n} : hash[m] < hash[a]
                                  /\ \A m \in B[right[a]] \ {n} : hash[m] >= hash[a]
      BY <1>4
    <3> QED
      BY <1>1, <1>2, <1>5, <2>1, <3>1, UnlinkedTree DEF B
  <2>3. hash = [hash EXCEPT ![n] = hash[n]]
    BY <1>1
  <2>4. DeletedAt(v, n, n, t)
    <3>1. n = Search(treeRoot, left, right, hash, v)
      OBVIOUS
    <3> HIDE DEF n, t
    <3> QED
      BY <1>2, <2>2, <2>3, <3>1 DEF DeletedAt
  <2> QED
    BY <2>4
<1>6. CASE left[n] # NULL /\ right[n] # NULL
  <2>1. right[n] \in Node /\ Tree(right[n], left, right, hash)
    BY <1>3, <1>6, TreeParts DEF Place
  <2>2. /\ temp \in B[right[n]] /\ left[temp] = NULL
        /\ \A k \in B[right[n]] : hash[temp] <= hash[k]
        /\ Search(right[n], left, right, hash, hash[temp]) = temp
    BY <2>1, MinimumIsLeast, SearchMinimum
  <2>3. t = Unlinked(temp, h)
    BY <1>3, <1>6, <2>2 DEF deleteBST
  <2> HIDE DEF n, t, temp, B
  <2>4. /\ temp \in Linked /\ temp \in Node /\ temp # n
        /\ hash[temp] >= v /\ hash[n] \in Nat /\ hash[temp] \in Nat
    <3>1. n \notin B[right[n]]
      BY <1>1, <1>3, BelowAcyclic DEF B
    <3>2. temp \in Linked /\ temp \in Node /\ hash[temp] >= hash[n]
      BY <1>2, <1>4, <2>2
    <3> QED
      BY <1>1, <1>2, <1>3, <2>2, <3>1, <3>2
  <2>5. /\ h \in [Node -> Nat] /\ h[n] = hash[temp]
        /\ \A m \in Node \ {n} : h[m] = hash[m]
    BY <1>1, <1>3, <2>4
  <2> HIDE DEF h
  <2>6. ASSUME NEW a \in Linked \ {temp}
        PROVE  /\ \A m \in B[left[a]] \ {temp} : h[m] < h[a]
               /\ \A m \in B[right[a]] \ {temp} : h[m] >= h[a]
    <3>1. n \notin B[left[n]] /\ n \notin B[right[n]]
      BY <1>1, <1>3, BelowAcyclic DEF B
    <3>2. CASE a = n
      <4>1. ASSUME NEW m \in B[left[n]] PROVE h[m] < h[n]
        <5>1. m \in Node /\ h[m] = hash[m] /\ hash[m] < hash[n] /\ hash[m] \in Nat
          BY <1>1, <1>2, <1>4, <2>5, <3>1
        <5> QED
          BY <1>2, <2>4, <2>5, <5>1
      <4>2. ASSUME NEW m \in B[right[n]] PROVE h[m] >= h[n]
        <5>1. m \in Node /\ h[m] = hash[m] /\ hash[temp] <= hash[m] /\ hash[m] \in Nat
          BY <1>1, <1>2, <1>4, <2>2, <2>5, <3>1
        <5> QED
          BY <2>4, <2>5, <5>1
      <4> QED
        BY <3>2, <4>1, <4>2
    <3>3. CASE a # n
      <4>1. a \in Node /\ h[a] = hash[a]
        BY <1>4, <2>5, <3>3
      <4>2. ASSUME NEW m \in Node, n \in B[m] PROVE temp \in B[m]
        BY <1>1, <1>3, <2>2, <4>2, BelowTransitive, TreeParts DEF B, Place
      <4>3. ASSUME NEW m \in B[left[a]] PROVE h[m] < h[a]
        <5>1. left[a] \in Node
          BY <1>1, <4>1, BelowStep DEF Heap, Fields, Place, B
        <5>2. m \in Node /\ hash[m] < hash[a]
          BY <1>4
        <5>3. m = n => hash[temp] < hash[a]
          BY <1>4, <4>2, <5>1
        <5> QED
          BY <2>5, <4>1, <5>2, <5>3
      <4>4. ASSUME NEW m \in B[right[a]] PROVE h[m] >= h[a]
        <5>1. right[a] \in Node
          BY <1>1, <4>1, BelowStep DEF Heap, Fields, Place, B
        <5>2. m \in Node /\ hash[m] >= hash[a]
          BY <1>4
        <5>3. m = n => hash[temp] >= hash[a]
          BY <1>4, <4>2, <5>1
        <5> QED
          BY <2>5, <4>1, <5>2, <5>3
      <4> QED
        BY <4>3, <4>4
    <3> QED
      BY <3>2, <3>3
  <2>7. /\ t.hash = h /\ Ringed(t.root, t.left, t.right, h)
        /\ Below(t.left, t.right)[t.root] = Linked \ {temp}
        /\ \E c \in Place : Unlinks(temp, c, t)
    BY <2>2, <2>3, <2>4, <2>5, <2>6, UnlinkedTree DEF B
  <2>8. DeletedAt(v, n, temp, t)
    BY <1>2, <1>6, <2>2, <2>4, <2>7 DEF DeletedAt, h, n, B
  <2> QED
    BY <2>8 DEF t
<1> QED
  BY <1>5, <1>6
----------------------------------------------------------------------------
(***************************************************************************)
(* The steps of the coordinator.                                           *)
(***************************************************************************)
(* A tree whose nodes have registered slaves' hashes.                      *)
HashedTree == Ringed(treeRoot, left, right, hash) /\ \A n \in Linked : hash[n] \in Hash

(* slaveHandle adds a node with the slave's hash.                          *)
LEMMA RegisterStep ==
  ASSUME HashedTree, NEW v \in Hash, Register(v)
  PROVE  \E new \in Node \ Linked :
           /\ Ringed(treeRoot, left, right, hash)'
           /\ Linked' = Linked \cup {new}
           /\ hash' = [hash EXCEPT ![new] = v]
           /\ left'[new] = NULL
<1>1. v \in Nat
  BY HashAssumption
<1>2. PICK new \in Node \ Linked :
        /\ hash' = [hash EXCEPT ![new] = v]
        /\ IF treeRoot = NULL
           THEN /\ treeRoot' = new
                /\ left' = [left EXCEPT ![new] = NULL]
                /\ right' = [right EXCEPT ![new] = NULL]
           ELSE LET p == leafFor(v) IN
                /\ treeRoot' = treeRoot
                /\ left' = [left EXCEPT ![new] = NULL,
                                        ![p] = IF v < hash[p] THEN new ELSE @]
                /\ right' = [right EXCEPT ![new] = NULL,
                                          ![p] = IF v < hash[p] THEN @ ELSE new]
  BY DEF Register, insertBST
<1>3. CASE treeRoot # NULL
  <2>1. Inserted(v, new, leafFor(v), left', right', hash')
    BY <1>2, <1>3 DEF Inserted
  <2>2. /\ Ringed(treeRoot, left', right', hash')
        /\ Below(left', right')[treeRoot] = Linked \cup {new} /\ left'[new] = NULL
    BY <1>1, <1>3, <2>1, InsertBelow DEF HashedTree
  <2>3. treeRoot' = treeRoot
    BY <1>2, <1>3
  <2> QED
    BY <1>2, <2>2, <2>3 DEF Linked
<1>4. CASE treeRoot = NULL
  <2>1. /\ Fields(left, right) /\ Closed(NULL, left, right) /\ hash \in [Node -> Nat]
        /\ Grounded(left, right) /\ Linked = Below(left, right)[NULL]
    BY <1>4 DEF HashedTree, Ringed, Tree, Heap, Linked
  <2>2. Linked = {}
    BY <2>1, BelowStep
  <2>3. \A n \in Node : left[n] = NULL /\ right[n] = NULL
    BY <2>1, <2>2 DEF Closed
  <2>4. left' = left /\ right' = right
    BY <1>2, <1>4, <2>1, <2>3 DEF Fields
  <2>5. Below(left, right)[new] = {new} /\ Below(left, right)[NULL] = {}
    BY <2>1, <2>3, BelowStep
  <2>6. hash' \in [Node -> Nat] /\ treeRoot' = new
    BY <1>1, <1>2, <1>4, <2>1
  <2>7. Sorted(new, left, right, hash')
    BY <2>3, <2>5 DEF Sorted
  <2>8. Closed(new, left, right)
    BY <2>3 DEF Closed
  <2>9. Tree(new, left, right, hash')
    BY <2>1, <2>6, <2>7 DEF Tree, Heap, Place
  <2>10. Linked' = {new}
    BY <2>4, <2>5, <2>6 DEF Linked
  <2> QED
    BY <1>2, <2>2, <2>3, <2>4, <2>6, <2>8, <2>9, <2>10 DEF Ringed
<1> QED
  BY <1>3, <1>4

(* migrationInitDown takes one node with the dead slave's hash away.       *)
LEMMA DeathStep ==
  ASSUME HashedTree, NEW v \in Hash, SlaveDown(v)
  PROVE  \E n, gone :
           /\ n = Search(treeRoot, left, right, hash, v)
           /\ n \in Linked /\ hash[n] = v
           /\ gone \in Linked /\ hash[gone] >= v
           /\ left[n] = NULL => gone = n
           /\ Ringed(treeRoot, left, right, hash)'
           /\ Linked' = Linked \ {gone}
           /\ hash' = [hash EXCEPT ![n] = hash[gone]]
<1> DEFINE t == deleteBST(v)
<1>1. v \in Nat
  BY HashAssumption
<1>2. /\ treeRoot' = t.root /\ left' = t.left /\ right' = t.right /\ hash' = t.hash
  BY DEF SlaveDown, migrationInitDown, TakeOver
<1>3. \E k \in Linked : hash[k] = v
  BY DEF SlaveDown
<1>4. PICK n, gone : DeletedAt(v, n, gone, t)
  BY <1>1, <1>3, DeleteResult DEF HashedTree
<1> HIDE DEF t
<1>5. /\ Ringed(treeRoot', left', right', hash')
      /\ Below(left', right')[treeRoot'] = Linked \ {gone}
  BY <1>2, <1>4 DEF DeletedAt
<1> QED
  BY <1>2, <1>4, <1>5 DEF DeletedAt, Linked

(* The nodes of the tree, as far as their place in it does not matter.     *)
Whole == Ringed(treeRoot, left, right, hash)

NodesOK ==
  /\ Linked \subseteq Node /\ NULL \notin Linked
  /\ \A n \in Linked : hash[n] \in Nat
  /\ hash \in [Node -> Nat]
  /\ Linked = {} <=> treeRoot = NULL

(* A tree's nodes are nodes, with numbers for hashes, and there are none   *)
(* only if there is no root.                                               *)
LEMMA LinkedType == Whole => NodesOK
<1> SUFFICES ASSUME Whole PROVE NodesOK
  OBVIOUS
<1> USE DEF Whole, NodesOK
<1>1. /\ Tree(treeRoot, left, right, hash) /\ Heap(left, right)
      /\ Linked = Below(left, right)[treeRoot] /\ hash \in [Node -> Nat]
  BY DEF Ringed, Tree, Linked
<1>2. Linked \subseteq Node
  BY <1>1, BelowType DEF Tree
<1>3. treeRoot = NULL => Linked = {}
  BY <1>1, BelowStep DEF Heap
<1>4. treeRoot # NULL => treeRoot \in Linked
  BY <1>1, TreeParts DEF Tree, Place
<1> QED
  BY <1>1, <1>2, <1>3, <1>4, NodeAssumption

(* The tree of slaves that registered in the order of their points.        *)
Chain == \A n \in Linked : left[n] = NULL

(* It stays one if the next to register comes after all of them.           *)
LEMMA RegisterChain ==
  ASSUME HashedTree, Chain, NEW v \in Hash, Register(v), \A n \in Linked : hash[n] < v
  PROVE  Chain'
<1>1. /\ Tree(treeRoot, left, right, hash) /\ Linked = Below(left, right)[treeRoot]
      /\ left \in [Node -> Place] /\ treeRoot \in Place /\ Linked \subseteq Node
      /\ v \in Nat /\ \A n \in Linked : hash[n] \in Nat
  BY LinkedType, HashAssumption
     DEF HashedTree, Ringed, Tree, Heap, Fields, Linked, Whole, NodesOK
<1>2. PICK new \in Node \ Linked :
        IF treeRoot = NULL THEN left' = [left EXCEPT ![new] = NULL]
        ELSE left' = [left EXCEPT ![new] = NULL,
                                  ![leafFor(v)] = IF v < hash[leafFor(v)] THEN new ELSE @]
  BY DEF Register, insertBST
<1>3. \A n \in Linked : left'[n] = NULL
  <2>1. CASE treeRoot = NULL
    BY <1>1, <1>2, <2>1 DEF Chain
  <2>2. CASE treeRoot # NULL
    <3>1. PICK q : q = leafFor(v)
      OBVIOUS
    <3>2. q \in Linked
      BY <1>1, <2>2, <3>1, LeafFits DEF Place
    <3>3. ~(v < hash[q])
      BY <1>1, <3>2
    <3>4. left' = [left EXCEPT ![new] = NULL, ![q] = @]
      BY <1>2, <2>2, <3>1, <3>3
    <3> QED
      BY <1>1, <3>2, <3>4 DEF Chain
  <2> QED
    BY <2>1, <2>2
<1>4. PICK m \in Node \ Linked : Linked' = Linked \cup {m} /\ left'[m] = NULL
  BY RegisterStep
<1> QED
  BY <1>3, <1>4 DEF Chain

(* And when a slave dies.                                                  *)
LEMMA DeathChain ==
  ASSUME HashedTree, Chain, NEW v \in Hash, SlaveDown(v)
  PROVE  Chain'
<1>1. /\ Tree(treeRoot, left, right, hash) /\ Linked = Below(left, right)[treeRoot]
      /\ Linked \subseteq Node /\ v \in Nat /\ NULL \notin Node
  BY LinkedType, HashAssumption, NodeAssumption
     DEF HashedTree, Ringed, Tree, Linked, Whole, NodesOK
<1>2. PICK n, gone : /\ n = Search(treeRoot, left, right, hash, v)
                     /\ n \in Linked /\ Linked' = Linked \ {gone}
  BY DeathStep
<1>3. left[n] = NULL /\ n # NULL
  BY <1>1, <1>2 DEF Chain
<1>4. deleteBST(v) = Unlinked(n, hash)
  BY <1>2, <1>3 DEF deleteBST
<1>5. left' = Unlinked(n, hash).left
  BY <1>4 DEF SlaveDown, migrationInitDown, TakeOver
<1>6. \A m \in Linked : left'[m] = NULL
  BY <1>1, <1>3, <1>5 DEF Unlinked, Chain
<1> QED
  BY <1>2, <1>6 DEF Chain

(* The slave before the dead one: the greatest before it or, if there is   *)
(* none, the greatest of all.                                              *)
LEMMA PredecessorFound ==
  ASSUME HashedTree, NEW v \in Nat, \E k \in Linked : hash[k] = v
  PROVE  LET pre == PredecessorOnRing(v)
         IN /\ pre \in Linked
            /\ \/ /\ hash[pre] < v
                  /\ \A k \in Linked : hash[k] < v => hash[k] <= hash[pre]
               \/ /\ pre = findMaximum(treeRoot, right) /\ right[pre] = NULL
                  /\ \A k \in Linked : hash[k] >= v /\ hash[k] <= hash[pre]
<1>1. /\ Tree(treeRoot, left, right, hash) /\ Linked = Below(left, right)[treeRoot]
      /\ NULL \notin Linked /\ treeRoot \in Node
      /\ \A k \in Linked : hash[k] \in Nat
  <2>1. Linked \subseteq Node /\ \A k \in Linked : hash[k] \in Nat
    BY LinkedType DEF HashedTree, Whole, NodesOK
  <2>2. treeRoot # NULL
    BY LinkedType DEF HashedTree, Whole, NodesOK
  <2> QED
    BY <2>1, <2>2, NodeAssumption DEF HashedTree, Ringed, Tree, Linked, Place
<1>2. LET m == findPredecessor(v)
      IN IF \A k \in Linked : hash[k] >= v THEN m = NULL
         ELSE /\ m \in Linked /\ hash[m] < v
              /\ \A k \in Linked : hash[k] < v => hash[k] <= hash[m]
  BY <1>1, PredecessorFinds
<1>3. LET m == findMaximum(treeRoot, right)
      IN /\ m \in Linked /\ right[m] = NULL
         /\ \A k \in Linked : hash[m] >= hash[k]
  BY <1>1, MaximumIsGreatest
<1>4. CASE \A k \in Linked : hash[k] >= v
  <2>1. PredecessorOnRing(v) = findMaximum(treeRoot, right)
    BY <1>2, <1>4 DEF PredecessorOnRing
  <2> QED
    BY <1>1, <1>3, <1>4, <2>1
<1>5. CASE ~ \A k \in Linked : hash[k] >= v
  <2>1. PredecessorOnRing(v) = findPredecessor(v)
    BY <1>1, <1>2, <1>5 DEF PredecessorOnRing
  <2> QED
    BY <1>1, <1>2, <1>5, <2>1
<1> QED
  BY <1>4, <1>5

(* The slave that takes over, in the tree that is left: the first at or    *)
(* after the dead one or, if there is none, the least of all.              *)
Takes(v, succ) ==
  /\ succ \in Linked
  /\ \/ hash[succ] >= v
     \/ /\ \A k \in Linked : hash[k] < v
        /\ \A k \in Linked : hash[succ] <= hash[k]
  /\ (\A k \in Linked : hash[k] >= v) => \A k \in Linked : hash[succ] <= hash[k]

Taker(v) ==
  IF UpperBound(v) = NULL THEN findMinimum(treeRoot, left) ELSE UpperBound(v)

TakerOK == \A v \in Nat : Takes(v, Taker(v))

(* What bst_upperBound and, when it finds nothing, findMinimum find is     *)
(* that slave.                                                             *)
LEMMA SuccessorTakes == Whole /\ treeRoot # NULL => TakerOK
<1> SUFFICES ASSUME Whole, treeRoot # NULL, NEW v \in Nat PROVE Takes(v, Taker(v))
  BY DEF TakerOK
<1>1. /\ Tree(treeRoot, left, right, hash) /\ Linked = Below(left, right)[treeRoot]
      /\ treeRoot \in Node /\ treeRoot \in Place /\ treeRoot \in Linked
      /\ Linked \subseteq Node /\ \A k \in Linked : hash[k] \in Nat
  BY LinkedType, TreeParts DEF Whole, Ringed, Tree, Linked, Place, NodesOK
<1>2. IF \A k \in Linked : hash[k] < v THEN UpperBound(v) = NULL
      ELSE UpperBound(v) \in Linked /\ hash[UpperBound(v)] >= v
  BY <1>1, UpperBoundFinds DEF UpperBound
<1>3. LET m == findMinimum(treeRoot, left)
      IN m \in Linked /\ \A k \in Linked : hash[m] <= hash[k]
  BY <1>1, MinimumIsLeast
<1>4. (\A k \in Linked : hash[k] >= v) =>
        UpperBound(v) \in Linked /\ \A k \in Linked : hash[UpperBound(v)] <= hash[k]
  BY <1>1, UpperBoundLeast DEF UpperBound
<1>5. CASE \A k \in Linked : hash[k] < v
  BY <1>1, <1>2, <1>3, <1>5 DEF Takes, Taker
<1>6. CASE ~ \A k \in Linked : hash[k] < v
  BY <1>1, <1>2, <1>4, <1>6, NodeAssumption DEF Takes, Taker
<1> QED
  BY <1>5, <1>6

(* The point that v is routed to when slaves registered in order: the      *)
(* least at or after v or, if there is none, the least of all.             *)
Routed(v, p) ==
  /\ p \in Points
  /\ \/ p >= v /\ \A q \in Points : q >= v => p <= q
     \/ (\A q \in Points : q < v) /\ \A q \in Points : p <= q

RoutedOK == Chain => \A v \in Nat : Routed(v, Route(v))

(* Such a tree routes every key as consistent hashing says.                *)
LEMMA AscendingRoutes == Whole /\ treeRoot # NULL => RoutedOK
<1> SUFFICES ASSUME Whole, treeRoot # NULL, Chain,
                    NEW v \in Nat
             PROVE  Routed(v, Route(v))
  BY DEF RoutedOK
<1>1. /\ Tree(treeRoot, left, right, hash) /\ Linked = Below(left, right)[treeRoot]
      /\ treeRoot \in Place /\ \A k \in Linked : hash[k] \in Nat
  BY LinkedType DEF Whole, Ringed, Tree, Linked, Place, NodesOK
<1>2. Takes(v, Taker(v)) /\ Route(v) = hash[Taker(v)]
  BY SuccessorTakes DEF TakerOK, Route, Taker
<1>3. IF \A k \in Linked : hash[k] < v THEN UpperBound(v) = NULL
      ELSE UpperBound(v) \in Linked /\ hash[UpperBound(v)] >= v
  BY <1>1, UpperBoundFinds DEF UpperBound
<1>4. \A k \in Linked : hash[k] >= v => hash[UpperBound(v)] <= hash[k]
  BY <1>1, UpperBoundAscending DEF UpperBound, Chain
<1>5. CASE \A k \in Linked : hash[k] < v
  BY <1>1, <1>2, <1>5 DEF Takes, Routed, Points
<1>6. CASE ~ \A k \in Linked : hash[k] < v
  <2>1. UpperBound(v) # NULL
    BY <1>1, <1>3, <1>6, LinkedType DEF NodesOK
  <2>2. Route(v) = hash[UpperBound(v)]
    BY <1>2, <2>1 DEF Taker
  <2> QED
    BY <1>1, <1>3, <1>4, <1>6, <2>2 DEF Routed, Points
<1> QED
  BY <1>5, <1>6
----------------------------------------------------------------------------
(* The slave found before the dead one is taken off the tree is still a    *)
(* node of it afterwards, and the slave before the dead one.  If there is  *)
(* a slave before the dead one in the order of hashes, it is neither the   *)
(* dead node nor, its hash being less, the cell that is freed.  If there   *)
(* is none, the dead node has nobody to its left, is freed itself, and is  *)
(* not the greatest unless it is alone.                                    *)
LEMMA PredecessorStays ==
  ASSUME HashedTree, NEW v \in Hash, SlaveDown(v), Linked' # {},
         NEW pre, pre = PredecessorOnRing(v)
  PROVE  /\ pre \in Linked'
         /\ \/ /\ hash'[pre] < v
               /\ \A k \in Linked' : hash'[k] < v => hash'[k] <= hash'[pre]
            \/ \A k \in Linked' : hash'[k] >= v /\ hash'[k] <= hash'[pre]
<1>1. PICK n, gone :
        /\ n = Search(treeRoot, left, right, hash, v)
        /\ n \in Linked /\ hash[n] = v
        /\ gone \in Linked /\ hash[gone] >= v
        /\ left[n] = NULL => gone = n
        /\ Linked' = Linked \ {gone}
        /\ hash' = [hash EXCEPT ![n] = hash[gone]]
  BY DeathStep
<1>2. /\ Linked \subseteq Node /\ \A k \in Linked : hash[k] \in Nat
      /\ hash \in [Node -> Nat] /\ v \in Nat /\ treeRoot # NULL
  BY <1>1, LinkedType, HashAssumption DEF HashedTree, Whole, NodesOK
<1>3. hash'[n] = hash[gone] /\ \A k \in Node \ {n} : hash'[k] = hash[k]
  BY <1>1, <1>2
<1>4. /\ pre \in Linked
      /\ \/ /\ hash[pre] < v
            /\ \A k \in Linked : hash[k] < v => hash[k] <= hash[pre]
         \/ /\ pre = findMaximum(treeRoot, right) /\ right[pre] = NULL
            /\ \A k \in Linked : hash[k] >= v /\ hash[k] <= hash[pre]
  BY <1>1, <1>2, PredecessorFound
<1>5. CASE /\ hash[pre] < v
           /\ \A k \in Linked : hash[k] < v => hash[k] <= hash[pre]
  <2>1. pre # n /\ pre # gone /\ hash'[pre] = hash[pre]
    BY <1>1, <1>2, <1>3, <1>4, <1>5
  <2>2. ASSUME NEW k \in Linked', hash'[k] < v PROVE hash'[k] <= hash'[pre]
    <3>1. k \in Linked /\ k # n
      BY <1>1, <1>2, <1>3, <2>2
    <3> QED
      BY <1>2, <1>3, <1>5, <2>1, <2>2, <3>1
  <2> QED
    BY <1>1, <1>4, <1>5, <2>1, <2>2
<1>6. CASE /\ pre = findMaximum(treeRoot, right) /\ right[pre] = NULL
           /\ \A k \in Linked : hash[k] >= v /\ hash[k] <= hash[pre]
  <2>1. /\ Tree(treeRoot, left, right, hash) /\ treeRoot \in Node
        /\ Linked = Below(left, right)[treeRoot] /\ Heap(left, right)
        /\ \A k \in Linked : \A m \in Below(left, right)[left[k]] : hash[m] < hash[k]
    BY <1>2 DEF HashedTree, Ringed, Tree, Linked, Place, Sorted
  <2>2. \A k \in Linked : hash[k] = v => left[k] = NULL
    <3> SUFFICES ASSUME NEW k \in Linked, hash[k] = v, left[k] # NULL PROVE FALSE
      OBVIOUS
    <3>1. left[k] \in Node /\ k \in Node
      BY <1>2, <2>1 DEF Heap, Fields, Place
    <3>2. left[k] \in Below(left, right)[left[k]]
      BY <2>1, <3>1, BelowStep DEF Heap
    <3>3. left[k] \in Linked
      BY <2>1, <3>2, SubTree
    <3> QED
      BY <1>2, <1>6, <2>1, <3>2, <3>3
  <2>3. gone = n /\ hash' = hash
    <3>1. gone = n
      BY <1>1, <2>2
    <3> QED
      BY <1>1, <1>2, <3>1
  <2>4. pre # n
    <3> SUFFICES ASSUME pre = n PROVE FALSE
      OBVIOUS
    <3>1. treeRoot \in Linked
      BY <2>1, TreeParts
    <3>2. hash[treeRoot] = v
      BY <1>1, <1>2, <1>6, <3>1
    <3>3. n = treeRoot
      BY <1>1, <2>1, <3>2, SearchStep DEF Heap
    <3>4. left[treeRoot] = NULL /\ right[treeRoot] = NULL
      BY <1>6, <2>2, <3>1, <3>2, <3>3
    <3>5. Linked = {treeRoot}
      BY <2>1, <3>4, BelowStep DEF Heap
    <3> QED
      BY <1>1, <2>3, <3>3, <3>5
  <2> QED
    BY <1>1, <1>4, <1>6, <2>3, <2>4
<1> QED
  BY <1>4, <1>5, <1>6

(* A greatest and a least of a set of numbers are what CHOOSE finds.       *)
LEMMA ChosenMaximum ==
  ASSUME NEW S \in SUBSET Nat, NEW m \in S, \A q \in S : q <= m
  PROVE  (CHOOSE p \in S : \A q \in S : q <= p) = m
<1> DEFINE c == CHOOSE p \in S : \A q \in S : q <= p
<1>1. c \in S /\ \A q \in S : q <= c
  OBVIOUS
<1> HIDE DEF c
<1>2. c <= m /\ m <= c /\ c \in Nat /\ m \in Nat
  BY <1>1
<1>3. c = m
  BY <1>2
<1> QED
  BY <1>3 DEF c

(* The same for the least.                                                 *)
LEMMA ChosenMinimum ==
  ASSUME NEW S \in SUBSET Nat, NEW m \in S, \A q \in S : m <= q
  PROVE  (CHOOSE p \in S : \A q \in S : p <= q) = m
<1> DEFINE c == CHOOSE p \in S : \A q \in S : p <= q
<1>1. c \in S /\ \A q \in S : c <= q
  OBVIOUS
<1> HIDE DEF c
<1>2. c <= m /\ m <= c /\ c \in Nat /\ m \in Nat
  BY <1>1
<1>3. c = m
  BY <1>2
<1> QED
  BY <1>3 DEF c

(* The point before v, and the point after it.                             *)
IsBefore(m, v) ==
  \/ hash[m] < v /\ \A k \in Linked : hash[k] < v => hash[k] <= hash[m]
  \/ \A k \in Linked : hash[k] >= v /\ hash[k] <= hash[m]

BeforeOK == \A v \in Nat, m \in Linked : IsBefore(m, v) => Before(v) = hash[m]

(* What IsBefore describes is the point before v on the ring.              *)
LEMMA BeforeIs == NodesOK => BeforeOK
<1> SUFFICES ASSUME NodesOK, NEW v \in Nat, NEW m \in Linked, IsBefore(m, v)
             PROVE  Before(v) = hash[m]
  BY DEF BeforeOK
<1> USE DEF NodesOK, IsBefore
<1> DEFINE lower == {p \in Points : p < v}
           S == IF lower = {} THEN Points ELSE lower
<1>1. Points \subseteq Nat /\ S \subseteq Nat /\ hash[m] \in Points
  BY DEF Points
<1>2. hash[m] \in S /\ \A q \in S : q <= hash[m]
  BY <1>1 DEF Points
<1> HIDE DEF S
<1>3. (CHOOSE p \in S : \A q \in S : q <= p) = hash[m]
  BY <1>1, <1>2, ChosenMaximum
<1>4. Before(v) = CHOOSE p \in S : \A q \in S : q <= p
  BY DEF Before, S
<1> QED
  BY <1>3, <1>4

IsAfter(m, v) ==
  \/ hash[m] > v /\ \A k \in Linked : hash[k] > v => hash[m] <= hash[k]
  \/ \A k \in Linked : hash[k] <= v /\ hash[m] <= hash[k]

(* What IsAfter describes is the point after v on the ring.                *)
LEMMA AfterIs ==
  NodesOK => \A v \in Nat, m \in Linked : IsAfter(m, v) => After(v) = hash[m]
<1> SUFFICES ASSUME NodesOK, NEW v \in Nat, NEW m \in Linked, IsAfter(m, v)
             PROVE  After(v) = hash[m]
  OBVIOUS
<1> USE DEF NodesOK, IsAfter
<1> DEFINE upper == {p \in Points : p > v}
           S == IF upper = {} THEN Points ELSE upper
<1>1. Points \subseteq Nat /\ S \subseteq Nat /\ hash[m] \in Points
  BY DEF Points
<1>2. hash[m] \in S /\ \A q \in S : hash[m] <= q
  BY <1>1 DEF Points
<1> HIDE DEF S
<1>3. (CHOOSE p \in S : \A q \in S : p <= q) = hash[m]
  BY <1>1, <1>2, ChosenMinimum
<1>4. After(v) = CHOOSE p \in S : \A q \in S : p <= q
  BY DEF After, S
<1> QED
  BY <1>3, <1>4

(* No slave is registered twice.                                           *)
Distinct == \A a, b \in Linked : hash[a] = hash[b] => a = b

(* If there are as many points as nodes, no two nodes have one hash.       *)
LEMMA PointsDistinct ==
  IsFiniteSet(Linked) /\ Cardinality(Points) = Cardinality(Linked) => Distinct
<1> SUFFICES ASSUME IsFiniteSet(Linked), Cardinality(Points) = Cardinality(Linked)
             PROVE  Distinct
  OBVIOUS
<1> DEFINE f == [n \in Linked |-> hash[n]]
<1>1. f \in Surjection(Linked, Points)
  BY DEF Surjection, Points
<1>2. f \in Injection(Linked, Points)
  <2> HIDE DEF f
  <2> QED
    BY <1>1, FS_SurjSameCardinalityImpliesInj
<1> QED
  BY <1>2 DEF Injection, IsInjective, Distinct

OnePointOK ==
  \A a \in Linked : (\A k \in Linked : hash[a] <= hash[k] /\ hash[k] <= hash[a])
                      => Cardinality(Points) = 1

(* If the greatest and the least point are the same, there is one point.   *)
LEMMA OnePoint == NodesOK => OnePointOK
<1> SUFFICES ASSUME NodesOK, NEW a \in Linked,
                    \A k \in Linked : hash[a] <= hash[k] /\ hash[k] <= hash[a]
             PROVE  Cardinality(Points) = 1
  BY DEF OnePointOK
<1> USE DEF NodesOK
<1>1. Points = {hash[a]}
  BY DEF Points
<1> QED
  BY <1>1, FS_Singleton

(* What findSuccessor adds to the least node, if it finds nothing.         *)
Following(n) ==
  LET next == findSuccessor(treeRoot, left, right, hash, hash[n])
  IN IF next = NULL THEN findMinimum(treeRoot, left) ELSE next

(* The node after a node is on the tree and, if no two nodes have one hash,  *)
(* at the next point of the ring.                                          *)
NextOK ==
  \A n \in Linked : /\ Following(n) \in Linked
                    /\ Distinct => /\ IsAfter(Following(n), hash[n])
                                   /\ hash[Following(n)] = After(hash[n])

(* findSuccessor, with findMinimum when it finds nothing, gives that node. *)
LEMMA NextOnRing == Whole => NextOK
<1> SUFFICES ASSUME Whole, NEW n \in Linked
             PROVE  /\ Following(n) \in Linked
                    /\ Distinct => /\ IsAfter(Following(n), hash[n])
                                   /\ hash[Following(n)] = After(hash[n])
  BY DEF NextOK
<1> DEFINE next == findSuccessor(treeRoot, left, right, hash, hash[n])
           least == findMinimum(treeRoot, left)
<1>0. NodesOK
  BY LinkedType
<1>1. /\ Tree(treeRoot, left, right, hash) /\ Linked = Below(left, right)[treeRoot]
      /\ treeRoot \in Node /\ NULL \notin Linked
      /\ \A k \in Linked : hash[k] \in Nat
  BY <1>0 DEF Whole, Ringed, Tree, Linked, Place, NodesOK
<1>2. next \in Linked \cup {NULL}
  BY <1>1, SuccessorType
<1>3. least \in Linked /\ \A k \in Linked : hash[least] <= hash[k]
  BY <1>1, MinimumIsLeast
<1>4. Following(n) = IF next = NULL THEN least ELSE next
  BY DEF Following
<1>5. ASSUME Distinct
      PROVE  IsAfter(Following(n), hash[n]) /\ hash[Following(n)] = After(hash[n])
  <2>1. IF \A k \in Linked : hash[k] <= hash[n] THEN next = NULL
        ELSE /\ next \in Linked /\ hash[next] > hash[n]
             /\ \A k \in Linked : hash[k] > hash[n] => hash[next] <= hash[k]
    <3>1. \A k \in Linked : hash[k] = hash[n] => k = n
      BY <1>5 DEF Distinct
    <3>2. hash[n] \in Nat /\ n \in Below(left, right)[treeRoot]
      BY <1>1
    <3> QED
      BY <1>1, <3>1, <3>2, SuccessorFinds
  <2> HIDE DEF next, least
  <2>2. CASE \A k \in Linked : hash[k] <= hash[n]
    <3>1. Following(n) = least /\ IsAfter(least, hash[n])
      BY <1>3, <1>4, <2>1, <2>2 DEF IsAfter
    <3> QED
      BY <1>0, <1>1, <1>3, <3>1, AfterIs
  <2>3. CASE ~ \A k \in Linked : hash[k] <= hash[n]
    <3>1. Following(n) = next /\ IsAfter(next, hash[n]) /\ next \in Linked
      BY <1>1, <1>4, <2>1, <2>3 DEF IsAfter
    <3> QED
      BY <1>0, <1>1, <3>1, AfterIs
  <2> QED
    BY <2>2, <2>3
<1> QED
  BY <1>2, <1>3, <1>4, <1>5

(* Points p and q follow each other, p not being the last.                 *)
Follows(p, q) ==
  p \in Points /\ q \in Points /\ p < q /\ \A r \in Points : r > p => q <= r

NextPoint(p) ==
  LET n == findSuccessor(treeRoot, left, right, hash, p)
  IN IF n = NULL THEN \A q \in Points : q <= p ELSE Follows(p, hash[n])

NextPointOK == Distinct => \A p \in Points : NextPoint(p)

(* findSuccessor alone gives the point that follows.                       *)
LEMMA NextFollows == Whole => NextPointOK
<1> SUFFICES ASSUME Whole, Distinct, NEW s \in Linked PROVE NextPoint(hash[s])
  BY DEF NextPointOK, Points
<1>1. /\ Tree(treeRoot, left, right, hash) /\ Linked = Below(left, right)[treeRoot]
      /\ treeRoot \in Node /\ NULL \notin Linked
      /\ \A k \in Linked : hash[k] \in Nat
  BY LinkedType DEF Whole, Ringed, Tree, Linked, Place, NodesOK
<1> DEFINE next == findSuccessor(treeRoot, left, right, hash, hash[s])
<1>2. IF \A k \in Linked : hash[k] <= hash[s] THEN next = NULL
      ELSE /\ next \in Linked /\ hash[next] > hash[s]
           /\ \A k \in Linked : hash[k] > hash[s] => hash[next] <= hash[k]
  <2>1. \A k \in Linked : hash[k] = hash[s] => k = s
    BY DEF Distinct
  <2>2. hash[s] \in Nat /\ s \in Below(left, right)[treeRoot]
    BY <1>1
  <2> QED
    BY <1>1, <2>1, <2>2, SuccessorFinds
<1>3. NextPoint(hash[s]) <=> IF next = NULL THEN \A q \in Points : q <= hash[s]
                             ELSE Follows(hash[s], hash[next])
  BY DEF NextPoint
<1> HIDE DEF next
<1> QED
  BY <1>1, <1>2, <1>3 DEF Follows, Points

(* The plan that is made when v dies.                                      *)
PlanFor(v) ==
  /\ plan \in [gone : {v}, pre : Linked, succ : Linked, succsucc : Linked]
  /\ IsBefore(plan.pre, v)
  /\ Takes(v, plan.succ) /\ plan.succ = Taker(v)
  /\ Distinct => IsAfter(plan.succsucc, hash[plan.succ])
  /\ PredecessorSurvives
  /\ BackupHolderFollowsOwner

(* What is true of the plan as soon as it is made.                         *)
LEMMA PlanStep ==
  ASSUME HashedTree, IsFiniteSet(Linked), NEW v \in Hash, SlaveDown(v)
  PROVE  \/ treeRoot' = NULL /\ up' = FALSE /\ plan' = NoPlan
         \/ up' = up /\ PlanFor(v)'
<1> DEFINE t == deleteBST(v)
           pre == PredecessorOnRing(v)
           bound == BoundIn(t, v)
           succ == IF bound = NULL THEN findMinimum(t.root, t.left) ELSE bound
           next == findSuccessor(t.root, t.left, t.right, t.hash, t.hash[succ])
           last == IF next = NULL THEN findMinimum(t.root, t.left) ELSE next
<1>1. /\ treeRoot' = t.root /\ left' = t.left /\ right' = t.right /\ hash' = t.hash
      /\ IF t.root = NULL THEN up' = FALSE /\ plan' = NoPlan
         ELSE /\ up' = up
              /\ plan' = [gone |-> v, pre |-> pre, succ |-> succ, succsucc |-> last]
  BY DEF SlaveDown, migrationInitDown, TakeOver
<1>2. CASE treeRoot' = NULL
  BY <1>1, <1>2
<1>3. CASE treeRoot' # NULL
  <2>1. Whole' /\ \E gone : Linked' = Linked \ {gone}
    BY DeathStep DEF Whole
  <2>2. NodesOK' /\ IsFiniteSet(Linked') /\ NextOK' /\ Linked' # {}
    <3>1. (Whole => NodesOK)' /\ (Whole => NextOK)'
      BY LinkedType, NextOnRing, PTL
    <3>2. IsFiniteSet(Linked')
      BY <2>1, FS_RemoveElement
    <3> QED
      BY <1>3, <2>1, <3>1, <3>2 DEF NodesOK
  <2>3. PICK s, m, w : s = succ /\ m = pre /\ w = last
    OBVIOUS
  <2>4. /\ v \in Nat /\ s = Taker(v)'
        /\ Following(s)' = w
        /\ plan' = [gone |-> v, pre |-> m, succ |-> s, succsucc |-> w]
        /\ up' = up
    BY <1>1, <1>3, <2>3, HashAssumption DEF Taker, UpperBound, BoundIn, Following
  <2>5. Takes(v, s)'
    <3>1. (Whole /\ treeRoot # NULL => TakerOK)'
      BY SuccessorTakes, PTL
    <3>2. Takes(v, Taker(v))'
      BY <1>3, <2>1, <2>4, <3>1 DEF TakerOK
    <3> QED
      BY <2>4, <3>2 DEF Takes
  <2>6. m \in Linked' /\ IsBefore(m, v)'
    <3>1. m = PredecessorOnRing(v)
      BY <2>3
    <3> QED
      BY <2>2, <3>1, PredecessorStays DEF IsBefore
  <2>7. s \in Linked' /\ w \in Linked'
    BY <2>2, <2>4, <2>5 DEF Takes, NextOK
  <2> HIDE DEF t, pre, bound, succ, next, last
  <2>8. plan' \in [gone : {v}, pre : Linked', succ : Linked', succsucc : Linked']
    BY <2>4, <2>6, <2>7
  <2>9. PredecessorSurvives'
    <3>1. Before(v)' = hash'[m]
      <4>1. (NodesOK => BeforeOK)'
        BY BeforeIs, PTL
      <4> QED
        BY <2>2, <2>4, <2>6, <4>1 DEF BeforeOK
    <3>2. ASSUME Cardinality(Points') > 1 PROVE hash'[m] # hash'[s]
      <4>1. (NodesOK => OnePointOK)'
        BY OnePoint, PTL
      <4>2. ~ \A k \in Linked' : hash'[m] <= hash'[k] /\ hash'[k] <= hash'[m]
        BY <2>2, <2>6, <3>2, <4>1 DEF OnePointOK
      <4>3. hash'[m] \in Nat /\ hash'[s] \in Nat /\ \A k \in Linked' : hash'[k] \in Nat
        BY <2>2, <2>6, <2>7 DEF NodesOK
      <4> SUFFICES ASSUME hash'[m] = hash'[s] PROVE FALSE
        OBVIOUS
      <4>4. \A k \in Linked' : hash'[s] <= hash'[k] /\ hash'[k] <= hash'[m]
        BY <2>4, <2>5, <2>6, <4>3 DEF Takes, IsBefore
      <4> QED
        BY <4>2, <4>4
    <3> QED
      BY <2>4, <2>6, <3>1, <3>2 DEF PredecessorSurvives
  <2>10. (Distinct => IsAfter(plan.succsucc, hash[plan.succ]))'
    BY <2>2, <2>4, <2>7 DEF NextOK
  <2>11. BackupHolderFollowsOwner'
    <3> SUFFICES ASSUME NoDuplicates' PROVE hash'[w] = After(hash[s])'
      BY <2>4 DEF BackupHolderFollowsOwner
    <3>1. (IsFiniteSet(Linked) /\ Cardinality(Points) = Cardinality(Linked) => Distinct)'
      BY PointsDistinct, PTL
    <3>2. Distinct'
      BY <2>2, <3>1 DEF NoDuplicates
    <3> QED
      BY <2>2, <2>4, <2>7, <3>2 DEF NextOK
  <2> QED
    BY <2>4, <2>5, <2>6, <2>8, <2>9, <2>10, <2>11 DEF PlanFor
<1> QED
  BY <1>2, <1>3
----------------------------------------------------------------------------
(***************************************************************************)
(* The inductive invariant.                                                *)
(***************************************************************************)
RingInv ==
  /\ TypeOK
  /\ Whole
  /\ IsFiniteSet(Linked)
  /\ \A n \in Linked : hash[n] \in Hash
  /\ plan = NoPlan \/ PlanFor(plan.gone)

(* The empty ring has the invariant.                                       *)
LEMMA RingInvInit == Init => RingInv
<1> SUFFICES ASSUME Init PROVE RingInv
  OBVIOUS
<1>1. Fields(left, right) /\ Grounded(left, right) /\ hash \in [Node -> Nat]
  BY NodeAssumption DEF Init, Fields, Place, Grounded
<1>2. Linked = {} /\ Below(left, right)[treeRoot] = {} /\ treeRoot \in Place
  BY <1>1, BelowStep DEF Init, Linked, Place
<1>3. Closed(treeRoot, left, right)
  BY <1>2 DEF Init, Closed
<1>4. Whole
  BY <1>1, <1>2, <1>3 DEF Whole, Ringed, Tree, Heap, Sorted
<1>5. TypeOK
  BY DEF Init, TypeOK
<1>6. plan = NoPlan
  BY DEF Init
<1> QED
  BY <1>2, <1>4, <1>5, <1>6, FS_EmptySet DEF RingInv

(* Every registration and every death keeps it.                            *)
LEMMA RingInvNext == RingInv /\ [Next]_vars => RingInv'
<1> SUFFICES ASSUME RingInv, [Next]_vars PROVE RingInv'
  OBVIOUS
<1>1. HashedTree
  BY DEF RingInv, HashedTree, Whole
<1>2. ASSUME Whole', hash' \in [Node -> Hash \cup {0}],
             plan' \in {NoPlan} \cup [gone : Hash, pre : Node, succ : Node, succsucc : Node],
             up' \in BOOLEAN
      PROVE  TypeOK'
  <2>1. treeRoot' \in Place /\ Fields(left', right')
    BY <1>2 DEF Whole, Ringed, Tree, Heap
  <2> QED
    BY <1>2, <2>1 DEF TypeOK, Fields, Place
<1>3. ASSUME NEW v \in Hash, Register(v) PROVE RingInv'
  <2>1. PICK new \in Node \ Linked : /\ Whole'
                                     /\ Linked' = Linked \cup {new}
                                     /\ hash' = [hash EXCEPT ![new] = v]
    BY <1>1, <1>3, RegisterStep DEF Whole
  <2>2. plan' = NoPlan /\ up' = up
    BY <1>3 DEF Register
  <2>3. hash' \in [Node -> Hash \cup {0}]
    BY <2>1 DEF RingInv, TypeOK
  <2>4. TypeOK'
    BY <1>2, <2>1, <2>2, <2>3 DEF RingInv, TypeOK
  <2>5. IsFiniteSet(Linked')
    BY <2>1, FS_AddElement DEF RingInv
  <2>6. \A n \in Linked' : hash'[n] \in Hash
    BY <2>1 DEF RingInv, TypeOK
  <2> QED
    BY <2>1, <2>2, <2>4, <2>5, <2>6 DEF RingInv
<1>4. ASSUME NEW v \in Hash, SlaveDown(v) PROVE RingInv'
  <2>1. PICK n, gone : /\ n \in Linked /\ gone \in Linked
                       /\ Whole'
                       /\ Linked' = Linked \ {gone}
                       /\ hash' = [hash EXCEPT ![n] = hash[gone]]
    BY <1>1, <1>4, DeathStep DEF Whole
  <2>2. NodesOK /\ Linked' \subseteq Linked
    BY <2>1, LinkedType DEF RingInv
  <2>3. hash' \in [Node -> Hash \cup {0}] /\ \A k \in Linked' : hash'[k] \in Hash
    BY <2>1, <2>2 DEF RingInv, TypeOK, NodesOK
  <2>4. IsFiniteSet(Linked')
    BY <2>1, FS_RemoveElement DEF RingInv
  <2>5. \/ up' = FALSE /\ plan' = NoPlan
        \/ up' = up /\ PlanFor(v)'
    BY <1>1, <1>4, PlanStep DEF RingInv
  <2>6. CASE up' = FALSE /\ plan' = NoPlan
    <3>1. TypeOK'
      BY <1>2, <2>1, <2>3, <2>6
    <3> QED
      BY <2>1, <2>3, <2>4, <2>6, <3>1 DEF RingInv
  <2>7. CASE up' = up /\ PlanFor(v)'
    <3>1. /\ plan' \in [gone : {v}, pre : Linked', succ : Linked', succsucc : Linked']
          /\ PredecessorSurvives' /\ BackupHolderFollowsOwner'
      BY <2>7 DEF PlanFor
    <3>2. Linked' \subseteq Node
      BY <2>2 DEF NodesOK
    <3>3. TypeOK'
      BY <1>2, <2>1, <2>3, <2>7, <3>1, <3>2 DEF RingInv, TypeOK
    <3>4. PlanFor(plan.gone)'
      <4>1. plan'.gone = v
        BY <3>1
      <4> QED
        BY <2>7, <4>1
    <3> QED
      BY <2>1, <2>3, <2>4, <3>3, <3>4 DEF RingInv
  <2> QED
    BY <2>5, <2>6, <2>7
<1>5. CASE UNCHANGED vars
  <2>1. Linked' = Linked /\ Points' = Points /\ Whole' = Whole
    BY <1>5 DEF vars, Linked, Points, Whole
  <2>2. TypeOK' = TypeOK
    BY <1>5 DEF vars, TypeOK
  <2>3. \A v : Before(v)' = Before(v) /\ After(v)' = After(v)
    BY <2>1 DEF Before, After
  <2>4. PredecessorSurvives' = PredecessorSurvives
    BY <1>5, <2>1, <2>3 DEF vars, PredecessorSurvives
  <2>5. BackupHolderFollowsOwner' = BackupHolderFollowsOwner
    BY <1>5, <2>1, <2>3 DEF vars, BackupHolderFollowsOwner, NoDuplicates
  <2>6. plan' = plan /\ hash' = hash
    BY <1>5 DEF vars
  <2>7. Distinct' = Distinct
    BY <2>1, <2>6 DEF Distinct
  <2>8. \A m, v : /\ IsBefore(m, v)' = IsBefore(m, v)
                  /\ Takes(v, m)' = Takes(v, m)
                  /\ IsAfter(m, v)' = IsAfter(m, v)
    BY <2>1, <2>6 DEF IsBefore, Takes, IsAfter
  <2>9. \A v : Taker(v)' = Taker(v)
    BY <1>5 DEF vars, Taker, UpperBound
  <2>10. PlanFor(plan.gone)' = PlanFor(plan.gone)
    BY <2>1, <2>4, <2>5, <2>6, <2>7, <2>8, <2>9 DEF PlanFor
  <2> QED
    BY <2>1, <2>2, <2>6, <2>10 DEF RingInv
<1> QED
  BY <1>3, <1>4, <1>5 DEF Next

(* In every reachable state the linked cells are a search tree of          *)
(* registered hashes that no cell points out of, and the plan of the last  *)
(* death is what PlanStep says.                                            *)
THEOREM RingIsTree == Spec => []RingInv
<1> QED
  BY RingInvInit, RingInvNext, PTL DEF Spec

(* The fields of the heap and of the plan have their types:                *)
(* migrationInitDown finds three slaves for every death that leaves one.   *)
THEOREM RingTypeOK == Spec => []TypeOK
<1>1. RingInv => TypeOK
  BY DEF RingInv
<1> QED
  BY <1>1, RingIsTree, PTL

(* insertBST and deleteBST keep the search order, with equal hashes on the *)
(* right, whatever the order of registrations and deaths.                  *)
THEOREM RingIsSearchTree == Spec => []SearchTree
<1>1. RingInv => SearchTree
  BY DEF RingInv, Whole, Ringed, Tree, Sorted, SearchTree, Linked
<1> QED
  BY <1>1, RingIsTree, PTL

(* bst_upperBound fails exactly for the hashes after the last slave, so    *)
(* every key has a primary.                                                *)
THEOREM RouteIsFound == Spec => []RouteFindsSlave
<1>1. RingInv => RouteFindsSlave
  <2> SUFFICES ASSUME RingInv, treeRoot # NULL, NEW v \in Hash
               PROVE  IF \A p \in Points : p < v THEN UpperBound(v) = NULL
                      ELSE UpperBound(v) \in Linked /\ hash[UpperBound(v)] >= v
    BY DEF RouteFindsSlave
  <2>1. /\ Tree(treeRoot, left, right, hash) /\ treeRoot \in Place /\ v \in Nat
        /\ Linked = Below(left, right)[treeRoot]
    BY HashAssumption DEF RingInv, Whole, Ringed, Tree, Linked
  <2>2. IF \A k \in Linked : hash[k] < v THEN UpperBound(v) = NULL
        ELSE UpperBound(v) \in Linked /\ hash[UpperBound(v)] >= v
    BY <2>1, UpperBoundFinds DEF UpperBound
  <2> QED
    BY <2>2 DEF Points
<1> QED
  BY <1>1, RingIsTree, PTL

(* The predecessor that migrationInitDown keeps across deleteBST is a live *)
(* cell, is the slave before the dead one, and is not the one that takes   *)
(* over when there are two points.                                         *)
THEOREM PredecessorIsKept == Spec => []PredecessorSurvives
<1>1. RingInv => PredecessorSurvives
  BY DEF RingInv, PlanFor, PredecessorSurvives, NoPlan
<1> QED
  BY <1>1, RingIsTree, PTL

(* The slave that is told to fetch the new owner's backup is the one after *)
(* it on the ring, as long as no slave is registered twice.                *)
THEOREM BackupIsNextOnRing == Spec => []BackupHolderFollowsOwner
<1>1. RingInv => BackupHolderFollowsOwner
  BY DEF RingInv, PlanFor, BackupHolderFollowsOwner, NoPlan
<1> QED
  BY <1>1, RingIsTree, PTL
----------------------------------------------------------------------------
(***************************************************************************)
(* The refinement: the tree is a bag of hashes.                            *)
(***************************************************************************)
(* The nodes at a hash, and how many there are at each.                    *)
At(h) == {n \in Linked : hash[n] = h}

members == [h \in Hash |-> Cardinality(At(h))]

(* A registration adds one slave at its hash.                              *)
LEMMA RegisterJoins ==
  ASSUME RingInv, NEW v \in Hash, Register(v)
  PROVE  members' = [members EXCEPT ![v] = @ + 1]
<1>1. PICK new \in Node \ Linked : /\ Linked' = Linked \cup {new}
                                   /\ hash' = [hash EXCEPT ![new] = v]
  BY RegisterStep DEF RingInv, HashedTree, Whole
<1>2. NodesOK /\ IsFiniteSet(Linked)
  BY LinkedType DEF RingInv
<1>3. hash'[new] = v /\ \A k \in Linked : k # new /\ hash'[k] = hash[k]
  BY <1>1, <1>2 DEF NodesOK
<1>4. ASSUME NEW x \in Hash
      PROVE  Cardinality(At(x)') = IF x = v THEN Cardinality(At(x)) + 1
                                   ELSE Cardinality(At(x))
  <2>1. IsFiniteSet(At(x)) /\ new \notin At(x)
    BY <1>1, <1>2, FS_Subset DEF At
  <2>2. CASE x = v
    <3>1. At(x)' = At(x) \cup {new}
      BY <1>1, <1>3, <2>2 DEF At
    <3> QED
      BY <2>1, <2>2, <3>1, FS_AddElement
  <2>3. CASE x # v
    <3>1. At(x)' = At(x)
      BY <1>1, <1>3, <2>3 DEF At
    <3> QED
      BY <2>3, <3>1
  <2> QED
    BY <2>2, <2>3
<1>5. members' = [x \in Hash |-> Cardinality(At(x)')]
  BY DEF members
<1> QED
  BY <1>4, <1>5 DEF members

(* A death takes one slave away at the dead one's hash, also when          *)
(* deleteBST frees another cell than the one it was found in.              *)
LEMMA DeathLeaves ==
  ASSUME RingInv, NEW v \in Hash, SlaveDown(v)
  PROVE  members[v] > 0 /\ members' = [members EXCEPT ![v] = @ - 1]
<1>1. PICK n, gone : /\ n \in Linked /\ hash[n] = v /\ gone \in Linked
                     /\ Linked' = Linked \ {gone}
                     /\ hash' = [hash EXCEPT ![n] = hash[gone]]
  BY DeathStep DEF RingInv, HashedTree, Whole
<1>2. NodesOK /\ IsFiniteSet(Linked)
  BY LinkedType DEF RingInv
<1>3. hash'[n] = hash[gone] /\ \A k \in Linked \ {n} : hash'[k] = hash[k]
  BY <1>1, <1>2 DEF NodesOK
<1>4. \A x \in Hash : IsFiniteSet(At(x)) /\ Cardinality(At(x)) \in Nat
  <2> SUFFICES ASSUME NEW x \in Hash PROVE IsFiniteSet(At(x))
    BY FS_CardinalityType
  <2>1. At(x) \in SUBSET Linked
    BY DEF At
  <2> QED
    BY <1>2, <2>1, FS_Subset
<1>5. ASSUME NEW x \in Hash
      PROVE  Cardinality(At(x)') = IF x = v THEN Cardinality(At(x)) - 1
                                   ELSE Cardinality(At(x))
  <2>1. CASE x = v /\ hash[gone] = v
    <3>1. At(x)' = At(x) \ {gone} /\ gone \in At(x)
      BY <1>1, <1>3, <2>1 DEF At
    <3> QED
      BY <1>4, <2>1, <3>1, FS_RemoveElement
  <2>2. CASE x = v /\ hash[gone] # v
    <3>1. At(x)' = At(x) \ {n} /\ n \in At(x)
      BY <1>1, <1>3, <2>2 DEF At
    <3> QED
      BY <1>4, <2>2, <3>1, FS_RemoveElement
  <2>3. CASE x # v /\ hash[gone] = x
    <3>1. /\ At(x)' = (At(x) \ {gone}) \cup {n}
          /\ gone \in At(x) /\ n \notin At(x) \ {gone}
      BY <1>1, <1>3, <2>3 DEF At
    <3>2. IsFiniteSet(At(x) \ {gone}) /\ Cardinality(At(x) \ {gone}) = Cardinality(At(x)) - 1
      BY <1>4, <3>1, FS_RemoveElement
    <3>3. Cardinality(At(x)') = Cardinality(At(x) \ {gone}) + 1
      BY <3>1, <3>2, FS_AddElement
    <3> QED
      BY <1>4, <2>3, <3>2, <3>3
  <2>4. CASE x # v /\ hash[gone] # x
    <3>1. At(x)' = At(x)
      BY <1>1, <1>3, <2>4 DEF At
    <3> QED
      BY <2>4, <3>1
  <2> QED
    BY <2>1, <2>2, <2>3, <2>4
<1>6. Cardinality(At(v)) > 0
  <2>1. n \in At(v)
    BY <1>1 DEF At
  <2>2. Cardinality(At(v)) # 0
    BY <1>4, <2>1, FS_EmptySet
  <2> QED
    BY <1>4, <2>2
<1>7. members' = [x \in Hash |-> Cardinality(At(x)')]
  BY DEF members
<1> QED
  BY <1>5, <1>6, <1>7 DEF members

(* The tree is a bag of hashes: registrations and deaths do to it what     *)
(* RingMembers says.                                                       *)
THEOREM RingImplements == Spec => ImplementsRing
<1>1. Init => Ring!Init
  <2> SUFFICES ASSUME Init PROVE members = [h \in Hash |-> 0]
    BY DEF Ring!Init, members, At
  <2>1. Linked = {}
    BY LinkedType, RingInvInit DEF RingInv, NodesOK, Init
  <2>2. \A h : At(h) = {}
    BY <2>1 DEF At
  <2> QED
    BY <2>2, FS_EmptySet DEF members
<1>2. RingInv /\ [Next]_vars => [Ring!Next]_members
  <2> SUFFICES ASSUME RingInv, [Next]_vars PROVE Ring!Next \/ UNCHANGED members
    OBVIOUS
  <2>1. ASSUME NEW v \in Hash, Register(v) PROVE Ring!Next
    <3>1. Ring!Join(v)
      BY <2>1, RegisterJoins DEF Ring!Join, members, At
    <3> QED
      BY <3>1 DEF Ring!Next
  <2>2. ASSUME NEW v \in Hash, SlaveDown(v) PROVE Ring!Next
    <3>1. Ring!Leave(v)
      BY <2>2, DeathLeaves DEF Ring!Leave, members, At
    <3> QED
      BY <3>1 DEF Ring!Next
  <2>3. CASE UNCHANGED vars
    BY <2>3 DEF vars, members, At, Linked
  <2> QED
    BY <2>1, <2>2, <2>3 DEF Next
<1> QED
  BY <1>1, <1>2, RingIsTree, PTL DEF Spec, ImplementsRing, Ring!Spec, members, At
----------------------------------------------------------------------------
(***************************************************************************)
(* A death moves the keys of the dead slave.                               *)
(***************************************************************************)

(* The hash at s in h is the least after x in the tree below m.            *)
LeastAfter(x, m, h, s) ==
  /\ s # NULL
  /\ h[s] > x
  /\ \E k \in Below(left, right)[m] : hash[k] = h[s]
  /\ \A k \in Below(left, right)[m] : hash[k] > x => h[s] <= hash[k]

(* The keys that bst_upperBound took to the dead node are taken, in the    *)
(* tree that is left, to the least node after it.  The path to the dead    *)
(* node turns right only before v and left only to children at or after v; *)
(* without the dead node it ends at the node that deleteBST copied there,  *)
(* at the least node of the right subtree that moved up or, if there was   *)
(* none, at the parent.  The same holds for every w between v and x, so    *)
(* for x itself, which is where migrationInitDown looks for the new owner. *)
LEMMA BoundMoves ==
  ASSUME Whole, Distinct, NEW x \in Nat, NEW v \in Nat, NEW w \in Nat, v <= w, w <= x,
         NEW n, NEW gone, NEW t, DeletedAt(x, n, gone, t),
         UpperBound(v) = n, \E k \in Linked : hash[k] > x
  PROVE  LeastAfter(x, treeRoot, t.hash, bst_upperBound(t.root, t.left, t.right, t.hash, w))
<1> DEFINE B == Below(left, right)
           U(m) == bst_upperBound(m, left, right, hash, v)
           W(m) == bst_upperBound(m, t.left, t.right, t.hash, w)
           Some(m) == \E k \in B[m] : hash[k] > x
<1>1. /\ Tree(treeRoot, left, right, hash) /\ Linked = B[treeRoot] /\ Heap(left, right)
      /\ left \in [Node -> Place] /\ right \in [Node -> Place]
      /\ treeRoot \in Node /\ hash \in [Node -> Nat] /\ Linked \subseteq Node
  BY LinkedType DEF Whole, NodesOK, Ringed, Tree, Linked, Place, Heap, Fields
<1>2. /\ n \in Linked /\ hash[n] = x /\ gone \in Linked /\ hash[gone] >= x
      /\ t.hash = [hash EXCEPT ![n] = hash[gone]]
      /\ Ringed(t.root, t.left, t.right, t.hash)
      /\ gone # n => /\ right[n] # NULL /\ gone \in B[right[n]]
                     /\ \A k \in B[right[n]] : hash[gone] <= hash[k]
  BY DEF DeletedAt
<1>3. PICK c \in Place : Unlinks(gone, c, t)
  BY DEF DeletedAt
<1> DEFINE By(m) == IF m = gone THEN c ELSE m
<1>4. /\ t.root = By(treeRoot) /\ Bypassed(gone, c, t.left, t.right)
      /\ t.left \in [Node -> Place] /\ t.right \in [Node -> Place]
      /\ \A m \in Node : t.left[m] = By(left[m]) /\ t.right[m] = By(right[m])
      /\ \/ left[gone] = NULL /\ c = right[gone]
         \/ right[gone] = NULL /\ c = left[gone]
  BY <1>3 DEF Unlinks, Bypassed
<1>5. /\ t.hash[n] = hash[gone] /\ \A m \in Node \ {n} : t.hash[m] = hash[m]
      /\ n \in Node /\ gone \in Node /\ hash[gone] \in Nat
      /\ Tree(t.root, t.left, t.right, t.hash)
  BY <1>1, <1>2 DEF Ringed
<1>6. /\ U(NULL) = NULL
      /\ \A m \in Node : U(m) = IF hash[m] >= v /\ (left[m] = NULL \/ hash[left[m]] < v)
                                THEN m ELSE U(IF hash[m] <= v THEN right[m] ELSE left[m])
  <2>1. Fields(left, right)
    BY <1>1 DEF Heap
  <2> QED
    BY <2>1, UpperBoundStep
<1>7. \A m \in Node : W(m) =
        IF t.hash[m] >= w /\ (t.left[m] = NULL \/ t.hash[t.left[m]] < w)
        THEN m ELSE W(IF t.hash[m] <= w THEN t.right[m] ELSE t.left[m])
  <2>1. Fields(t.left, t.right)
    BY <1>4 DEF Fields
  <2> QED
    BY <2>1, UpperBoundStep
<1>8. \A m \in B[treeRoot] : /\ Tree(m, left, right, hash) /\ m \in Node
                             /\ B[m] \subseteq Linked
                             /\ B[left[m]] \subseteq Linked
                             /\ B[right[m]] \subseteq Linked
  <2> SUFFICES ASSUME NEW m \in B[treeRoot]
               PROVE  /\ Tree(m, left, right, hash) /\ m \in Node
                      /\ B[m] \subseteq Linked
                      /\ B[left[m]] \subseteq Linked
                      /\ B[right[m]] \subseteq Linked
    OBVIOUS
  <2> QED
    BY <1>1, SubTree
<1>9. ASSUME NEW m \in Linked, U(m) = n
      PROVE  n \in B[m]
  <2>1. m \in Place /\ Tree(m, left, right, hash) /\ n # NULL
    BY <1>1, <1>5, <1>8, NodeAssumption DEF Place
  <2> QED
    BY <1>9, <2>1, UpperBoundFinds
<1> DEFINE Moved(m) == m \in Linked /\ U(m) = n /\ Some(m)
                         => LeastAfter(x, m, t.hash, W(By(m)))
           G == {m \in Node : Moved(m)}
<1>10. \A m \in Node : left[m] \in G \cup {NULL} /\ right[m] \in G \cup {NULL} => m \in G
  <2> SUFFICES ASSUME NEW m \in Node, m \in Linked, U(m) = n, Some(m),
                      left[m] \in G \cup {NULL}, right[m] \in G \cup {NULL}
               PROVE  LeastAfter(x, m, t.hash, W(By(m)))
    OBVIOUS
  <2>0. \A d \in {left[m], right[m]} :
          d \in Linked /\ U(d) = n /\ Some(d) => LeastAfter(x, d, t.hash, W(By(d)))
    BY <1>1, NodeAssumption
  <2> HIDE DEF U, W, G
  <2>1. /\ m \in B[m] /\ B[m] = {m} \cup B[left[m]] \cup B[right[m]] /\ B[NULL] = {}
        /\ left[m] \in Place /\ right[m] \in Place /\ hash[m] \in Nat
        /\ \A k \in B[left[m]] : k \in Linked /\ k \in Node /\ hash[k] \in Nat
                                 /\ hash[k] < hash[m]
        /\ \A k \in B[right[m]] : k \in Linked /\ k \in Node /\ hash[k] \in Nat
                                  /\ hash[k] >= hash[m]
    BY <1>1, <1>8, TreeParts
  <2>2. /\ left[m] # NULL => left[m] \in Node /\ left[m] \in B[left[m]]
        /\ right[m] # NULL => right[m] \in Node /\ right[m] \in B[right[m]]
    BY <1>1, <2>1, BelowStep DEF Place, Heap
  <2>3. n \in B[m]
    BY <1>9
  <2>4. \A d \in Linked : U(d) = n /\ d # n =>
          \/ hash[d] < v /\ right[d] # NULL /\ U(right[d]) = n
          \/ hash[d] > v /\ left[d] # NULL /\ hash[left[d]] >= v /\ U(left[d]) = n
    <3> SUFFICES ASSUME NEW d \in Linked, U(d) = n, d # n
                 PROVE  \/ hash[d] < v /\ right[d] # NULL /\ U(right[d]) = n
                        \/ hash[d] > v /\ left[d] # NULL /\ hash[left[d]] >= v
                           /\ U(left[d]) = n
      OBVIOUS
    <3>1. /\ d \in Node /\ left[d] \in Place /\ hash[d] \in Nat /\ n # NULL
          /\ left[d] # NULL => hash[left[d]] \in Nat /\ hash[left[d]] < hash[d]
      <4>1. d \in Node /\ Tree(d, left, right, hash)
        BY <1>1, <1>8
      <4>2. left[d] # NULL => left[d] \in B[left[d]] /\ left[d] \in Node
        BY <1>1, <4>1, BelowStep DEF Place, Heap
      <4> QED
        BY <1>1, <1>5, <4>1, <4>2, TreeParts, NodeAssumption
    <3>2. ~(hash[d] >= v /\ (left[d] = NULL \/ hash[left[d]] < v))
      BY <1>6, <3>1
    <3>3. CASE hash[d] < v
      <4>1. U(right[d]) = n
        BY <1>6, <3>1, <3>2, <3>3
      <4> QED
        BY <1>6, <3>1, <3>3, <4>1
    <3>4. CASE hash[d] >= v
      <4>1. left[d] # NULL /\ hash[left[d]] >= v /\ hash[d] > v
        BY <3>1, <3>2, <3>4
      <4>2. U(left[d]) = n
        BY <1>6, <3>1, <3>2, <4>1
      <4> QED
        BY <4>1, <4>2
    <3> QED
      BY <3>1, <3>3, <3>4
  <2>5. \A d \in Linked : U(d) = n /\ d # n /\ hash[d] >= v => hash[d] > x
    <3> SUFFICES ASSUME NEW d \in Linked, U(d) = n, d # n, hash[d] >= v
                 PROVE  hash[d] > x
      OBVIOUS
    <3>1. d \in Node /\ Tree(d, left, right, hash) /\ hash[d] \in Nat
      BY <1>1, <1>8
    <3>2. left[d] # NULL /\ U(left[d]) = n
      BY <2>4, <3>1
    <3>3. left[d] \in Linked
      BY <1>1, <1>8, <3>1, <3>2, BelowStep DEF Place, Heap
    <3>4. n \in B[left[d]]
      BY <1>9, <3>2, <3>3
    <3> QED
      BY <1>2, <3>1, <3>4, TreeParts
  <2>6. \A d \in Linked : U(d) = n /\ d # n => d # gone /\ By(d) = d /\ t.hash[d] = hash[d]
    <3> SUFFICES ASSUME NEW d \in Linked, U(d) = n, d # n, d = gone PROVE FALSE
      BY <1>1, <1>5
    <3>1. Tree(right[n], left, right, hash) /\ right[n] \in Place /\ n \in B[d]
      BY <1>1, <1>2, <1>5, <1>9, SubTree DEF Heap, Fields
    <3>2. n \in B[right[n]]
      BY <1>1, <1>2, <3>1, BelowTransitive DEF Tree
    <3> QED
      BY <1>1, <1>5, <3>2, BelowAcyclic
  <2>7. n \notin B[left[n]] /\ n \notin B[right[n]]
    BY <1>1, <1>5, BelowAcyclic
  <2>8. /\ left[n] \in Place /\ right[n] \in Place
        /\ B[n] = {n} \cup B[left[n]] \cup B[right[n]]
        /\ left[n] # NULL => left[n] \in B[left[n]]
        /\ right[n] # NULL => right[n] \in B[right[n]]
        /\ \A k \in B[left[n]] : k \in Linked /\ hash[k] \in Nat /\ hash[k] < x /\ k # n
        /\ \A k \in B[right[n]] : k \in Linked /\ hash[k] \in Nat /\ hash[k] > x /\ k # n
    <3>1. Tree(n, left, right, hash) /\ B[left[n]] \subseteq Linked /\ B[right[n]] \subseteq Linked
      BY <1>1, <1>2, <1>8
    <3>2. /\ left[n] \in Place /\ right[n] \in Place
          /\ B[n] = {n} \cup B[left[n]] \cup B[right[n]]
          /\ \A k \in B[left[n]] : hash[k] < hash[n]
          /\ \A k \in B[right[n]] : hash[k] >= hash[n]
      BY <1>5, <3>1, TreeParts
    <3>3. /\ left[n] # NULL => left[n] \in B[left[n]]
          /\ right[n] # NULL => right[n] \in B[right[n]]
      BY <1>1, <3>2, BelowStep DEF Place, Heap
    <3>4. \A k \in Linked : hash[k] \in Nat /\ (k # n => hash[k] # x)
      BY <1>1, <1>2 DEF Distinct
    <3> QED
      BY <1>2, <2>7, <3>1, <3>2, <3>3, <3>4
  <2>9. U(n) = n => hash[n] >= v /\ (left[n] = NULL \/ hash[left[n]] < v)
    <3> SUFFICES ASSUME U(n) = n, ~(hash[n] >= v /\ (left[n] = NULL \/ hash[left[n]] < v))
                 PROVE  FALSE
      OBVIOUS
    <3>1. PICK d \in {left[n], right[n]} : U(d) = n
      BY <1>5, <1>6
    <3>2. d # NULL
      BY <1>5, <1>6, <3>1, NodeAssumption
    <3>3. d \in Linked
      BY <2>8, <3>2
    <3> QED
      BY <1>9, <2>7, <3>1, <3>3
  <2>10. ASSUME right[n] # NULL
         PROVE  /\ By(n) # NULL /\ t.hash[By(n)] > x
                /\ U(n) = n => LeastAfter(x, n, t.hash, W(By(n)))
    <3>1. CASE gone # n
      <4>1. By(n) = n /\ t.hash[n] = hash[gone] /\ hash[gone] > x
        BY <1>2, <1>5, <2>8, <3>1
      <4>2. ASSUME U(n) = n PROVE LeastAfter(x, n, t.hash, W(n))
        <5>1. t.left[n] = left[n] /\ (left[n] # NULL => t.hash[left[n]] = hash[left[n]])
          <6>1. left[n] # gone
            <7>1. hash[gone] > x /\ gone # NULL /\ hash[gone] \in Nat
              BY <1>2, <1>5, <2>8, <3>1, NodeAssumption
            <7> QED
              BY <1>2, <2>8, <7>1
          <6> QED
            BY <1>1, <1>4, <1>5, <2>8, <6>1 DEF Place
        <5>2. W(n) = n
          <6>1. t.left[n] = NULL \/ t.hash[t.left[n]] < w
            BY <1>1, <2>8, <2>9, <4>2, <5>1
          <6> QED
            BY <1>5, <1>7, <4>1, <6>1
        <5>3. gone \in B[n] /\ n # NULL
          BY <1>2, <1>5, <2>8, <3>1, NodeAssumption
        <5>4. \A k \in B[n] : hash[k] > x => hash[gone] <= hash[k]
          BY <1>2, <2>8, <3>1
        <5> QED
          BY <4>1, <5>2, <5>3, <5>4 DEF LeastAfter
      <4> QED
        BY <1>5, <4>1, <4>2, NodeAssumption
    <3>2. CASE gone = n
      <4>1. By(n) = c /\ c = right[n] /\ c \in Node /\ t.hash = hash
        BY <1>1, <1>2, <1>4, <2>8, <3>2, <2>10 DEF Place
      <4>2. t.hash[c] > x /\ c # n /\ c \in Linked
        BY <2>8, <4>1, <2>10
      <4>3. LeastAfter(x, n, t.hash, W(c))
        <5>1. Below(t.left, t.right)[c] = B[c]
          <6>1. Below(t.left, t.right)[c] = B[c] \ {n}
            <7>1. \A d \in Place : Below(t.left, t.right)[IF d = gone THEN c ELSE d]
                                     = B[d] \ {gone}
              BY <1>1, <1>4, <1>5, BypassBelow
            <7> QED
              BY <3>2, <4>2, <7>1
          <6> QED
            BY <2>7, <4>1, <6>1
        <5>2. c \in Below(t.left, t.right)[t.root]
          <6>1. Below(t.left, t.right)[t.root] = Linked \ {gone}
            BY DEF DeletedAt
          <6> QED
            BY <3>2, <4>2, <6>1
        <5>3. Tree(c, t.left, t.right, t.hash)
          BY <1>5, <5>2, SubTree
        <5>4. \A k \in B[c] : t.hash[k] >= w
          BY <2>8, <4>1
        <5>5. W(c) \in B[c] /\ \A k \in B[c] : t.hash[W(c)] <= t.hash[k]
          BY <4>1, <5>1, <5>3, <5>4, UpperBoundLeast DEF W
        <5>6. hash[W(c)] > x /\ W(c) \in B[n] /\ W(c) # NULL
          BY <1>1, <2>8, <4>1, <5>5, NodeAssumption
        <5>7. \A k \in B[n] : hash[k] > x => hash[W(c)] <= hash[k]
          BY <1>2, <2>8, <4>1, <5>5
        <5> QED
          BY <4>1, <5>6, <5>7 DEF LeastAfter
      <4> QED
        BY <4>1, <4>2, <4>3, NodeAssumption
    <3> QED
      BY <3>1, <3>2
  <2>11. CASE m = n
    <3>1. right[n] # NULL
      BY <1>2, <2>1, <2>8, <2>11
    <3> QED
      BY <2>10, <2>11, <3>1
  <2>12. CASE m # n /\ hash[m] < v
    <3>1. /\ right[m] # NULL /\ U(right[m]) = n /\ right[m] \in Linked /\ Some(right[m])
          /\ \A k \in B[m] : hash[k] > x => k \in B[right[m]]
      BY <2>1, <2>2, <2>4, <2>12
    <3>2. LeastAfter(x, right[m], t.hash, W(By(right[m])))
      BY <2>0, <3>1
    <3>3. W(By(m)) = W(By(right[m]))
      <4>1. By(m) = m /\ t.hash[m] < w /\ t.right[m] = By(right[m]) /\ t.hash[m] \in Nat
        BY <1>4, <2>1, <2>6, <2>12
      <4> QED
        BY <1>7, <4>1
    <3> QED
      BY <2>1, <3>1, <3>2, <3>3 DEF LeastAfter
  <2>13. CASE m # n /\ hash[m] > v /\ Some(left[m])
    <3>1. /\ left[m] # NULL /\ U(left[m]) = n /\ left[m] \in Linked
          /\ hash[left[m]] >= v /\ hash[m] > x
      BY <2>1, <2>2, <2>4, <2>5, <2>13
    <3>2. LeastAfter(x, left[m], t.hash, W(By(left[m])))
      BY <2>0, <2>13, <3>1
    <3>3. By(left[m]) # NULL /\ t.hash[By(left[m])] > x
      <4>1. CASE left[m] = n
        <5>1. right[n] # NULL
          BY <1>2, <2>1, <2>8, <2>13, <4>1
        <5> QED
          BY <2>10, <4>1, <5>1
      <4>2. CASE left[m] # n
        BY <2>5, <2>6, <3>1, <4>2
      <4> QED
        BY <4>1, <4>2
    <3>4. W(By(m)) = W(By(left[m]))
      <4>1. By(m) = m /\ t.hash[m] > x /\ t.left[m] = By(left[m]) /\ t.hash[m] \in Nat
        BY <1>4, <2>1, <2>6, <2>13, <3>1
      <4>2. ~(t.left[m] = NULL \/ t.hash[t.left[m]] < w) /\ ~(t.hash[m] <= w)
        <5>1. t.hash[By(left[m])] \in Nat
          <6>1. By(left[m]) \in Node
            BY <1>4, <2>1, <3>1, <3>3 DEF Place
          <6> QED
            BY <1>5, <6>1 DEF Tree
        <5> QED
          BY <3>3, <4>1, <5>1
      <4> QED
        BY <1>7, <4>1, <4>2
    <3>5. \A k \in B[m] : hash[k] > x => k \in B[left[m]] \/ hash[k] >= hash[m]
      BY <2>1
    <3>6. PICK j \in B[left[m]] : hash[j] = t.hash[W(By(m))] /\ hash[j] < hash[m]
      BY <2>1, <3>2, <3>4 DEF LeastAfter
    <3> QED
      BY <2>1, <3>2, <3>4, <3>5, <3>6 DEF LeastAfter
  <2>14. CASE m # n /\ hash[m] > v /\ ~Some(left[m])
    <3>1. /\ left[m] # NULL /\ U(left[m]) = n /\ left[m] \in Linked
          /\ left[m] \in B[left[m]] /\ hash[left[m]] >= v /\ hash[m] > x
      BY <2>1, <2>2, <2>4, <2>5, <2>14
    <3>2. left[m] = n
      BY <2>5, <2>14, <3>1
    <3>3. right[n] = NULL /\ gone = n /\ c = left[n] /\ t.hash = hash
      <4>1. right[n] = NULL
        BY <2>8, <2>14, <3>2
      <4> QED
        BY <1>1, <1>2, <1>4, <4>1
    <3>4. t.left[m] = left[n]
      BY <1>4, <3>2, <3>3
    <3>5. left[n] = NULL \/ hash[left[n]] < w
      <4>1. left[n] = NULL \/ hash[left[n]] < v
        BY <2>9, <3>1, <3>2
      <4> QED
        BY <2>8, <4>1
    <3>6. W(By(m)) = m
      <4>1. By(m) = m
        BY <2>6, <2>14
      <4>2. t.hash[m] >= w
        BY <2>1, <3>1, <3>3
      <4> QED
        BY <1>7, <3>3, <3>4, <3>5, <4>1, <4>2
    <3>7. \A k \in B[m] : hash[k] > x => hash[k] >= hash[m]
      BY <2>1, <2>14
    <3> QED
      BY <2>1, <3>1, <3>3, <3>6, <3>7, NodeAssumption DEF LeastAfter
  <2> QED
    BY <2>1, <2>4, <2>11, <2>12, <2>13, <2>14
<1>11. G = Node
  <2>1. G \in SUBSET Node
    OBVIOUS
  <2> HIDE DEF G
  <2> QED
    BY <1>1, <1>10, <2>1, HeapInduction
<1>12. Moved(treeRoot)
  BY <1>1, <1>11
<1>13. treeRoot \in Linked /\ U(treeRoot) = n /\ Some(treeRoot)
  BY <1>1, TreeParts DEF UpperBound
<1> QED
  BY <1>4, <1>12, <1>13

(* The keys of a slave that dies go to the slave that has their backup.    *)
LEMMA DeathPromotes ==
  ASSUME RingInv, NEW x \in Hash, SlaveDown(x),
         Cardinality(Points) = Cardinality(Linked), \E p \in Points : p > x,
         NEW v \in Hash, Route(v) = x
  PROVE  Route(v)' = hash'[plan'.succ] /\ hash'[plan'.succ] = Holder(x)
<1> DEFINE t == deleteBST(x)
<1>1. /\ treeRoot' = t.root /\ left' = t.left /\ right' = t.right /\ hash' = t.hash
      /\ IF t.root = NULL THEN up' = FALSE /\ plan' = NoPlan
         ELSE plan'.succ = IF BoundIn(t, x) = NULL THEN findMinimum(t.root, t.left)
                           ELSE BoundIn(t, x)
  <2> DEFINE succ == IF BoundIn(t, x) = NULL THEN findMinimum(t.root, t.left)
                     ELSE BoundIn(t, x)
             following == findSuccessor(t.root, t.left, t.right, t.hash, t.hash[succ])
             last == IF following = NULL THEN findMinimum(t.root, t.left)
                     ELSE following
  <2>1. /\ treeRoot' = t.root /\ left' = t.left /\ right' = t.right /\ hash' = t.hash
        /\ IF t.root = NULL THEN up' = FALSE /\ plan' = NoPlan
           ELSE /\ up' = up
                /\ plan' = [gone |-> x, pre |-> PredecessorOnRing(x), succ |-> succ,
                            succsucc |-> last]
    BY DEF SlaveDown, migrationInitDown, TakeOver
  <2> HIDE DEF t, succ, last
  <2>2. t.root # NULL => plan'.succ = succ
    BY <2>1
  <2> QED
    BY <2>1, <2>2 DEF succ
<1>2. /\ Whole /\ NodesOK /\ Distinct /\ HashedTree /\ x \in Nat /\ v \in Nat
  BY LinkedType, PointsDistinct, HashAssumption DEF RingInv, HashedTree, Whole
<1>3. PICK n, gone : DeletedAt(x, n, gone, t)
  <2>1. \E k \in Linked : hash[k] = x
    BY DEF SlaveDown
  <2> QED
    BY <1>2, <2>1, DeleteResult DEF Whole
<1>4. PICK k \in Linked : hash[k] > x
  BY DEF Points
<1> HIDE DEF t
<1>5. /\ n \in Linked /\ hash[n] = x /\ gone \in Linked
      /\ hash' = [hash EXCEPT ![n] = hash[gone]]
      /\ Linked' = Linked \ {gone}
      /\ Whole'
      /\ n \in Node /\ gone \in Node
  BY <1>1, <1>2, <1>3 DEF DeletedAt, Linked, Whole, NodesOK
<1>6. /\ hash'[n] = hash[gone] /\ \A m \in Node \ {n} : hash'[m] = hash[m]
      /\ Linked \subseteq Node /\ \A m \in Linked : hash[m] \in Nat
  BY <1>2, <1>5 DEF NodesOK
<1>7. NodesOK' /\ Linked' # {} /\ treeRoot' # NULL
  <2>1. (Whole => NodesOK)'
    BY LinkedType, PTL
  <2>2. IF k = gone THEN n \in Linked' ELSE k \in Linked'
    BY <1>4, <1>5, <1>6
  <2> QED
    BY <1>5, <2>1, <2>2 DEF NodesOK
<1>8. \A h : h # x => (\E m \in Linked' : hash'[m] = h) <=> (\E m \in Linked : hash[m] = h)
  BY <1>5, <1>6
<1>9. \A m \in Linked' : hash'[m] # x
  BY <1>2, <1>5, <1>6 DEF Distinct
<1> DEFINE next == findSuccessor(treeRoot, left, right, hash, x)
<1>10. /\ next \in Linked /\ hash[next] > x /\ Holder(x) = hash[next]
       /\ \A m \in Linked : hash[m] > x => hash[next] <= hash[m]
  <2>1. /\ Tree(treeRoot, left, right, hash) /\ treeRoot \in Node
        /\ Linked = Below(left, right)[treeRoot]
    BY <1>2, <1>5 DEF Whole, Ringed, Tree, Linked, NodesOK, Place
  <2>2. \A m \in Linked : hash[m] = x => m = n
    BY <1>2, <1>5 DEF Distinct
  <2>3. ~ \A m \in Linked : hash[m] <= x
    BY <1>2, <1>4, <1>6
  <2> HIDE DEF next
  <2>4. /\ next \in Linked /\ hash[next] > x
        /\ \A m \in Linked : hash[m] > x => hash[next] <= hash[m]
    BY <1>2, <1>5, <2>1, <2>2, <2>3, SuccessorFinds DEF next
  <2> QED
    BY <2>4 DEF Holder, next
<1> HIDE DEF next
<1>11. plan'.succ = Taker(x)'
  BY <1>1, <1>7 DEF Taker, UpperBound, BoundIn
<1>12. CASE UpperBound(v) # NULL
  <2>1. UpperBound(v) = n /\ v <= x
    <3>1. Tree(treeRoot, left, right, hash) /\ treeRoot \in Place
          /\ Linked = Below(left, right)[treeRoot]
      BY <1>2 DEF Whole, Ringed, Tree, Linked
    <3>2. UpperBound(v) \in Linked /\ hash[UpperBound(v)] >= v
      BY <1>2, <1>12, <3>1, UpperBoundFinds DEF UpperBound
    <3>3. hash[UpperBound(v)] = x
      BY <1>12 DEF Route
    <3> QED
      BY <1>2, <1>5, <3>2, <3>3 DEF Distinct
  <2>2. \A w \in Nat : v <= w /\ w <= x =>
          UpperBound(w)' # NULL /\ hash'[UpperBound(w)'] = hash[next]
    <3> SUFFICES ASSUME NEW w \in Nat, v <= w, w <= x
                 PROVE  UpperBound(w)' # NULL /\ hash'[UpperBound(w)'] = hash[next]
      OBVIOUS
    <3>1. LeastAfter(x, treeRoot, t.hash,
                     bst_upperBound(t.root, t.left, t.right, t.hash, w))
      BY <1>2, <1>3, <1>4, <2>1, BoundMoves
    <3>2. UpperBound(w)' = bst_upperBound(t.root, t.left, t.right, t.hash, w)
      BY <1>1 DEF UpperBound
    <3>3. LeastAfter(x, treeRoot, hash', UpperBound(w)')
      BY <1>1, <3>1, <3>2
    <3>4. PICK m \in Linked : hash[m] = hash'[UpperBound(w)'] /\ hash[m] > x
      BY <3>3 DEF LeastAfter, Linked
    <3>5. hash[m] <= hash[next]
      BY <1>10, <3>3, <3>4 DEF LeastAfter, Linked
    <3>6. hash[next] <= hash[m] /\ hash[next] \in Nat /\ hash[m] \in Nat
      BY <1>6, <1>10, <3>4
    <3> QED
      BY <3>3, <3>4, <3>5, <3>6 DEF LeastAfter
  <2>3. /\ UpperBound(v)' # NULL /\ hash'[UpperBound(v)'] = hash[next]
        /\ UpperBound(x)' # NULL /\ hash'[UpperBound(x)'] = hash[next]
    BY <1>2, <2>1, <2>2
  <2>4. plan'.succ = UpperBound(x)'
    BY <1>11, <2>3 DEF Taker
  <2>5. Route(v)' = hash'[UpperBound(v)']
    BY <2>3 DEF Route
  <2> QED
    BY <1>10, <2>3, <2>4, <2>5
<1>13. CASE UpperBound(v) = NULL
  <2>1. /\ Tree(treeRoot, left, right, hash) /\ treeRoot \in Node
        /\ Linked = Below(left, right)[treeRoot]
    BY <1>2, <1>5 DEF Whole, Ringed, Tree, Linked, NodesOK, Place
  <2>2. \A m \in Linked : hash[m] < v
    BY <1>2, <1>13, <2>1, UpperBoundFinds, NodeAssumption DEF UpperBound, Place, NodesOK
  <2>3. \A m \in Linked : x <= hash[m]
    <3>1. hash[findMinimum(treeRoot, left)] = x
      BY <1>13 DEF Route
    <3> QED
      BY <2>1, <3>1, MinimumIsLeast
  <2>4. /\ \A m \in Linked' : hash'[m] < v /\ hash'[m] >= x
    BY <1>5, <1>6, <2>2, <2>3
  <2>5. PICK low \in Linked' : /\ low = findMinimum(treeRoot', left')
                               /\ \A m \in Linked' : hash'[low] <= hash'[m]
    <3>1. /\ Tree(treeRoot', left', right', hash') /\ treeRoot' \in Node
          /\ Linked' = Below(left', right')[treeRoot']
      BY <1>5, <1>7 DEF Whole, Ringed, Tree, Linked, Place
    <3> QED
      BY <3>1, MinimumIsLeast
  <2>6. PICK s : s = Taker(x)'
    OBVIOUS
  <2>7. s \in Linked' /\ \A m \in Linked' : hash'[s] <= hash'[m]
    <3>1. (Whole /\ treeRoot # NULL => TakerOK)'
      BY SuccessorTakes, PTL
    <3>2. Takes(x, Taker(x))'
      BY <1>2, <1>5, <1>7, <3>1 DEF TakerOK
    <3> QED
      BY <2>4, <2>6, <3>2 DEF Takes
  <2>8. hash'[low] = hash'[s]
    BY <1>7, <2>5, <2>7 DEF NodesOK
  <2>9. Route(v)' = hash'[low]
    <3>1. (Whole /\ treeRoot # NULL => TakerOK)'
      BY SuccessorTakes, PTL
    <3>2. Takes(v, Taker(v))'
      BY <1>2, <1>5, <1>7, <3>1 DEF TakerOK
    <3>3. UpperBound(v)' = NULL
      <4>1. /\ Tree(treeRoot', left', right', hash') /\ treeRoot' \in Place
            /\ Linked' = Below(left', right')[treeRoot']
        BY <1>5 DEF Whole, Ringed, Tree, Linked
      <4>2. UpperBound(v)' = bst_upperBound(treeRoot', left', right', hash', v)
        BY DEF UpperBound
      <4> QED
        BY <1>2, <2>4, <4>1, <4>2, UpperBoundFinds
    <3> QED
      BY <2>5, <3>3 DEF Route
  <2>10. hash'[s] = hash[next]
    <3>1. PICK m \in Linked' : hash'[m] = hash[next]
      BY <1>2, <1>6, <1>8, <1>10
    <3>2. PICK j \in Linked : hash[j] = hash'[s]
      BY <1>8, <1>9, <2>7
    <3>3. hash'[s] > x
      BY <1>6, <1>9, <2>3, <2>7, <3>2, <1>2
    <3> QED
      BY <1>6, <1>7, <1>10, <2>7, <3>1, <3>2, <3>3 DEF NodesOK
  <2> QED
    BY <1>10, <1>11, <2>6, <2>8, <2>9, <2>10
<1> QED
  BY <1>12, <1>13

(* The keys of a slave that dies are routed to the slave that is told to   *)
(* merge its backup, and that is the slave that holds it (unless a slave   *)
(* is registered twice, or the dead one is the last on the ring).          *)
THEOREM BackupsArePromoted == Spec => BackupIsPromoted
<1> DEFINE A == \A x \in Hash :
                  /\ SlaveDown(x)
                  /\ Cardinality(Points) = Cardinality(Linked)
                  /\ \E p \in Points : p > x
                  => \A v \in Hash : Route(v) = x =>
                       Route(v)' = hash'[plan'.succ] /\ hash'[plan'.succ] = Holder(x)
<1>1. RingInv /\ [Next]_vars => A
  BY DeathPromotes
<1> HIDE DEF A
<1>2. RingInv /\ [Next]_vars => [A]_vars
  BY <1>1
<1>3. Spec => [][A]_vars
  BY <1>2, RingIsTree, PTL DEF Spec
<1> QED
  BY <1>3 DEF BackupIsPromoted, A
=============================================================================
