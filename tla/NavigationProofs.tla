--------------------------- MODULE NavigationProofs ---------------------------
(***************************************************************************)
(* What the sweeps of blocked_nodes compute, for any finite graph: the     *)
(* least set of nodes that holds the blocked ones and everything that      *)
(* depends on it (domain/services/dependency_graph.py).                    *)
(*                                                                         *)
(* The sweeps are a recursive function, so the proofs are by induction:    *)
(* what fails for some number of sweeps fails for a least one, which       *)
(* LeastNumber finds.                                                      *)
(***************************************************************************)
EXTENDS Navigation, FiniteSetTheorems, WellFoundedInduction, TLAPS

-----------------------------------------------------------------------------
(* Induction *)

\* A set of numbers that is not empty has a least one: the intervals from 0 to
\* its members are well-founded by inclusion.
LEMMA LeastNumber ==
  ASSUME NEW S \in SUBSET Nat, S # {}
  PROVE  \E m \in S : \A n \in S : m <= n
<1>1. PICK b \in S : TRUE
  OBVIOUS
<1>. DEFINE U == 0..b
            T == {0..k : k \in {k \in S : k <= b}}
            R == StrictSubsetOrdering(U)
<1>2. IsFiniteSet(U)
  BY FS_Interval
<1>3. IsWellFoundedOn(R, FiniteSubsetsOf(U))
  BY FS_StrictSubsetOrderingWellFounded
<1>4. T \subseteq FiniteSubsetsOf(U)
  <2>. SUFFICES ASSUME NEW k \in S, k <= b
                PROVE  0..k \in FiniteSubsetsOf(U)
    OBVIOUS
  <2>1. IsFiniteSet(0..k)
    BY FS_Interval
  <2>. QED  BY <2>1 DEF FiniteSubsetsOf
<1>5. T # {}
  BY <1>1
<1>. HIDE DEF R, T
<1>6. \E x \in T : \A y \in T : ~ (<<y, x>> \in R)
  BY <1>3, <1>4, <1>5, WFMin
<1>7. PICK m \in S : m <= b /\ \A y \in T : ~ (<<y, 0..m>> \in R)
  BY <1>6 DEF T
<1>8. ASSUME NEW k \in S, k < m
      PROVE  FALSE
  <2>1. 0..k \in T /\ 0..k \in SUBSET U /\ 0..m \in SUBSET U
    BY <1>7, <1>8 DEF T
  <2>2. m \in 0..m /\ m \notin 0..k /\ 0..k \subseteq 0..m
    BY <1>8
  <2>3. <<0..k, 0..m>> \in R
    BY <2>1, <2>2 DEF R, StrictSubsetOrdering
  <2>. QED  BY <1>7, <2>1, <2>3
<1>. QED  BY <1>7, <1>8

\* Of nodes with a position one comes first.
LEMMA FirstNode ==
  ASSUME NEW nodes, nodes # {}, NEW position, \A n \in nodes : position[n] \in Nat
  PROVE  \E n \in nodes : \A m \in nodes : position[n] <= position[m]
<1>. DEFINE S == {position[n] : n \in nodes}
<1>1. S \in SUBSET Nat /\ S # {}
  OBVIOUS
<1>2. PICK p \in S : \A k \in S : p <= k
  BY <1>1, LeastNumber
<1>. QED  BY <1>2

-----------------------------------------------------------------------------
(* The sweeps *)

\* The nodes blocked after each sweep, up to the last.
IsSweeps(f, nodes, deps, direct, last) ==
    f = [i \in 0..last |-> IF i = 0 THEN direct \cap nodes
                                    ELSE Spread(nodes, deps, f[i - 1])]

\* However many sweeps there are, they can be made.
LEMMA SweepsExist ==
  ASSUME NEW nodes, NEW deps, NEW direct, NEW last \in Nat
  PROVE  \E f : IsSweeps(f, nodes, deps, direct, last)
<1>. DEFINE Bad == {n \in Nat : ~\E f : IsSweeps(f, nodes, deps, direct, n)}
<1>1. SUFFICES ASSUME Bad # {}
               PROVE  FALSE
  OBVIOUS
<1>2. PICK n \in Bad : \A k \in Bad : n <= k
  BY <1>1, LeastNumber
<1>3. CASE n = 0
  <2>1. IsSweeps([i \in 0..0 |-> direct \cap nodes], nodes, deps, direct, 0)
    BY DEF IsSweeps
  <2>. QED  BY <1>2, <1>3, <2>1
<1>4. CASE n # 0
  <2>1. n - 1 \in Nat /\ n - 1 \notin Bad
    BY <1>2, <1>4
  <2>2. PICK f : IsSweeps(f, nodes, deps, direct, n - 1)
    BY <2>1
  <2>. DEFINE g == [i \in 0..n |-> IF i = n THEN Spread(nodes, deps, f[n - 1]) ELSE f[i]]
  <2>3. \A i \in 0..n : g[i] = IF i = 0 THEN direct \cap nodes
                                         ELSE Spread(nodes, deps, g[i - 1])
    <3>. SUFFICES ASSUME NEW i \in 0..n
                  PROVE  g[i] = IF i = 0 THEN direct \cap nodes
                                          ELSE Spread(nodes, deps, g[i - 1])
      OBVIOUS
    <3>1. CASE i = n
      <4>1. n - 1 \in 0..n /\ n - 1 # n
        BY <1>4
      <4>2. g[n - 1] = f[n - 1]
        BY <4>1
      <4>. QED  BY <1>4, <3>1, <4>2
    <3>2. CASE i # n
      <4>1. i \in 0..(n - 1) /\ g[i] = f[i]
        BY <3>2
      <4>2. f[i] = IF i = 0 THEN direct \cap nodes ELSE Spread(nodes, deps, f[i - 1])
        BY <2>2, <4>1 DEF IsSweeps
      <4>3. i # 0 => g[i - 1] = f[i - 1]
        BY <4>1
      <4>. QED  BY <4>1, <4>2, <4>3
    <3>. QED  BY <3>1, <3>2
  <2>4. g = [i \in 0..n |-> g[i]]
    OBVIOUS
  <2>. HIDE DEF g
  <2>5. IsSweeps(g, nodes, deps, direct, n)
    BY <2>3, <2>4 DEF IsSweeps
  <2>. QED  BY <1>2, <2>5
<1>. QED  BY <1>3, <1>4

\* blocked_nodes is what is blocked after as many sweeps as there are nodes.
LEMMA BlockedIsLastSweep ==
  ASSUME NEW nodes, IsFiniteSet(nodes), NEW deps, NEW direct
  PROVE  \E f : /\ IsSweeps(f, nodes, deps, direct, Cardinality(nodes))
                /\ BlockedNodes(nodes, deps, direct) = f[Cardinality(nodes)]
<1>. DEFINE last == Cardinality(nodes)
            f == CHOOSE f : IsSweeps(f, nodes, deps, direct, last)
<1>1. last \in Nat
  BY FS_CardinalityType
<1>2. IsSweeps(f, nodes, deps, direct, last)
  BY <1>1, SweepsExist
<1>3. BlockedNodes(nodes, deps, direct) = f[last]
  BY DEF BlockedNodes, IsSweeps
<1>. QED  BY <1>2, <1>3

\* What a set of nodes is when nothing outside it depends on it.
Closed(nodes, deps, found) ==
    \A n \in nodes : deps[n] \cap found # {} => n \in found

\* A sweep only adds nodes, and nodes that every closed set with the first ones has.
LEMMA SweepsGrow ==
  ASSUME NEW nodes, NEW deps, NEW direct, NEW last \in Nat, NEW f,
         IsSweeps(f, nodes, deps, direct, last)
  PROVE  \A i \in 0..last :
           /\ direct \cap nodes \subseteq f[i] /\ f[i] \subseteq nodes
           /\ \A found : direct \cap nodes \subseteq found /\ Closed(nodes, deps, found)
                           => f[i] \subseteq found
<1>. DEFINE Good(i) ==
              /\ direct \cap nodes \subseteq f[i] /\ f[i] \subseteq nodes
              /\ \A found : direct \cap nodes \subseteq found /\ Closed(nodes, deps, found)
                              => f[i] \subseteq found
            Bad == {i \in 0..last : ~Good(i)}
<1>1. SUFFICES ASSUME Bad # {}
               PROVE  FALSE
  OBVIOUS
<1>2. PICK n \in Bad : \A k \in Bad : n <= k
  <2>1. Bad \in SUBSET Nat
    OBVIOUS
  <2>. HIDE DEF Bad
  <2>. QED  BY <1>1, <2>1, LeastNumber
<1>3. CASE n = 0
  <2>1. f[n] = direct \cap nodes
    BY <1>3 DEF IsSweeps
  <2>2. Good(n)
    BY <2>1
  <2>. QED  BY <1>2, <2>2
<1>4. CASE n # 0
  <2>1. n - 1 \in 0..last /\ n - 1 \notin Bad
    BY <1>2, <1>4
  <2>2. Good(n - 1)
    BY <2>1
  <2>3. f[n] = Spread(nodes, deps, f[n - 1])
    BY <1>2, <1>4 DEF IsSweeps
  <2>4. Good(n)
    BY <2>2, <2>3 DEF Spread, Closed
  <2>. QED  BY <1>2, <2>4
<1>. QED  BY <1>3, <1>4

\* Once a sweep adds nothing no later one does, and until then each adds a node:
\* as many sweeps as there are nodes are enough.
LEMMA LastSweepIsClosed ==
  ASSUME NEW nodes, IsFiniteSet(nodes), NEW deps, NEW direct, NEW f,
         IsSweeps(f, nodes, deps, direct, Cardinality(nodes))
  PROVE  Closed(nodes, deps, f[Cardinality(nodes)])
<1>. DEFINE last == Cardinality(nodes)
            Good(i) == Closed(nodes, deps, f[i]) \/ Cardinality(f[i]) >= i
            Bad == {i \in 0..last : ~Good(i)}
<1>1. last \in Nat
  BY FS_CardinalityType
<1>2. \A i \in 0..last : /\ f[i] \subseteq nodes /\ IsFiniteSet(f[i])
                         /\ Cardinality(f[i]) \in Nat /\ Cardinality(f[i]) <= last
  <2>. SUFFICES ASSUME NEW i \in 0..last
                PROVE  /\ f[i] \subseteq nodes /\ IsFiniteSet(f[i])
                       /\ Cardinality(f[i]) \in Nat /\ Cardinality(f[i]) <= last
    OBVIOUS
  <2>1. f[i] \subseteq nodes
    BY <1>1, SweepsGrow
  <2>2. IsFiniteSet(f[i]) /\ Cardinality(f[i]) <= last
    BY <2>1, FS_Subset
  <2>. QED  BY <2>1, <2>2, FS_CardinalityType
<1>3. ASSUME NEW i \in 0..last, i # 0
      PROVE  /\ i - 1 \in 0..last
             /\ f[i] = f[i - 1] \cup {n \in nodes : deps[n] \cap f[i - 1] # {}}
  <2>1. i - 1 \in 0..last
    BY <1>1, <1>3
  <2>2. f[i] = Spread(nodes, deps, f[i - 1])
    BY <1>3 DEF IsSweeps
  <2>. QED  BY <2>1, <2>2 DEF Spread
<1>4. Bad = {}
  <2>1. SUFFICES ASSUME Bad # {}
                 PROVE  FALSE
    OBVIOUS
  <2>2. PICK n \in Bad : \A k \in Bad : n <= k
    <3>1. Bad \in SUBSET Nat
      OBVIOUS
    <3>. QED  BY <2>1, <3>1, LeastNumber
  <2>3. n \in 0..last /\ n \in Nat /\ ~Closed(nodes, deps, f[n]) /\ ~(Cardinality(f[n]) >= n)
    BY <1>1, <2>2
  <2>4. n # 0
    BY <1>2, <2>3
  <2>5. /\ n - 1 \in 0..last /\ n - 1 \notin Bad
        /\ f[n] = f[n - 1] \cup {m \in nodes : deps[m] \cap f[n - 1] # {}}
    BY <1>3, <2>2, <2>3, <2>4
  <2>6. f[n] # f[n - 1]
    BY <2>3, <2>5 DEF Closed
  <2>7. ~Closed(nodes, deps, f[n - 1])
    BY <1>2, <2>5, <2>6 DEF Closed
  <2>8. Cardinality(f[n - 1]) >= n - 1
    BY <2>5, <2>7
  <2>. HIDE DEF Bad
  <2>9. Cardinality(f[n]) \in Nat /\ Cardinality(f[n - 1]) \in Nat
    BY <1>2, <2>3, <2>5
  <2>10. Cardinality(f[n - 1]) < Cardinality(f[n])
    <3>1. f[n - 1] \subseteq f[n] /\ f[n - 1] # f[n] /\ IsFiniteSet(f[n])
      BY <1>2, <2>3, <2>5, <2>6
    <3>2. /\ Cardinality(f[n - 1]) <= Cardinality(f[n])
          /\ Cardinality(f[n - 1]) # Cardinality(f[n])
      BY <3>1, FS_Subset
    <3>. QED  BY <2>9, <3>2
  <2>. QED  BY <2>3, <2>8, <2>9, <2>10
<1>5. last \in 0..last
  BY <1>1
<1>6. CASE Closed(nodes, deps, f[last])
  BY <1>6
<1>7. CASE Cardinality(f[last]) >= last
  <2>1. f[last] = nodes
    BY <1>1, <1>2, <1>5, <1>7, FS_Subset
  <2>. QED  BY <2>1 DEF Closed
<1>. QED  BY <1>4, <1>5, <1>6, <1>7

\* blocked_nodes returns the least set of the nodes that holds the blocked ones and
\* every node that depends on one of the set: however long the chains and however
\* the graph is cut, its loop misses no node and takes none too many.
THEOREM BlockedNodesLeast ==
  ASSUME NEW nodes, IsFiniteSet(nodes), NEW deps, NEW direct
  PROVE  /\ direct \cap nodes \subseteq BlockedNodes(nodes, deps, direct)
         /\ BlockedNodes(nodes, deps, direct) \subseteq nodes
         /\ Closed(nodes, deps, BlockedNodes(nodes, deps, direct))
         /\ \A found : direct \cap nodes \subseteq found /\ Closed(nodes, deps, found)
                         => BlockedNodes(nodes, deps, direct) \subseteq found
<1>1. PICK f : /\ IsSweeps(f, nodes, deps, direct, Cardinality(nodes))
               /\ BlockedNodes(nodes, deps, direct) = f[Cardinality(nodes)]
  BY BlockedIsLastSweep
<1>2. Cardinality(nodes) \in Nat
  BY FS_CardinalityType
<1>. DEFINE last == Cardinality(nodes)
<1>3. last \in Nat /\ last \in 0..last
  BY <1>2
<1>4. Closed(nodes, deps, f[last])
  BY <1>1, LastSweepIsClosed
<1>. HIDE DEF last
<1>5. /\ direct \cap nodes \subseteq f[last] /\ f[last] \subseteq nodes
      /\ \A found : direct \cap nodes \subseteq found /\ Closed(nodes, deps, found)
                      => f[last] \subseteq found
  <2>1. IsSweeps(f, nodes, deps, direct, last)
    BY <1>1 DEF last
  <2>. QED  BY <1>3, <2>1, SweepsGrow
<1>. QED  BY <1>1, <1>4, <1>5 DEF last
=============================================================================
