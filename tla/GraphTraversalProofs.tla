------------------------ MODULE GraphTraversalProofs ------------------------
(***************************************************************************)
(* Proofs about GraphTraversal, for any graph and any query: the node      *)
(* bound, what `truncated` says and the connectedness of the response hold *)
(* whatever edges change during the search; a search that nothing disturbs *)
(* or cuts off is exact.                                                   *)
(***************************************************************************)
EXTENDS GraphTraversal, FiniteSetTheorems, WellFoundedInduction, TLAPS

\* The most nodes a search can collect.
Bound == IF query.max_nodes = 1 THEN 2 ELSE query.max_nodes

\* The search stands on nodes it has visited.
FrontierVisited == pc # "done" => frontier \subseteq visited

\* Each row of a level has one end in the frontier, so it adds one node.
RowsTouchFrontier ==
    pc = "level" => \A e \in result : e[1] \in frontier \/ e[2] \in frontier

\* A level is begun only if it is within max_depth.
DepthLeft == pc = "query" => depth < query.max_depth

\* A search that has not been cut off has room for one more node.
RoomForOne == ~truncated => Cardinality(visited \cup next) < Bound

GraphInv ==
    /\ TypeOK /\ FrontierVisited /\ RowsTouchFrontier /\ DepthLeft
    /\ RoomForOne /\ NodeBound

\* What a query is.
LEMMA QueryType ==
    ASSUME query \in Queries
    PROVE  /\ query.max_depth \in Nat \ {0} /\ query.max_nodes \in Nat \ {0}
           /\ Bound \in Nat /\ Bound >= 2 /\ Bound >= query.max_nodes
BY QueriesAssumption DEF Bound

\* Sets of nodes are finite and ordered by their sizes.
LEMMA NodeSets ==
    ASSUME NEW S, NEW T, T \subseteq Nodes, S \subseteq T
    PROVE  /\ IsFiniteSet(S) /\ IsFiniteSet(T)
           /\ Cardinality(S) \in Nat /\ Cardinality(T) \in Nat
           /\ Cardinality(S) <= Cardinality(T)
<1>1. IsFiniteSet(T)
  BY NodesAssumption, FS_Subset
<1>2. IsFiniteSet(S) /\ Cardinality(S) <= Cardinality(T)
  BY <1>1, FS_Subset
<1> QED BY <1>1, <1>2, FS_CardinalityType

\* Every initial state satisfies the invariant.
LEMMA GraphInit == Init => GraphInv
<1> SUFFICES ASSUME Init PROVE GraphInv
  OBVIOUS
<1>1. query \in Queries
  BY DEF Init
<1>2. Cardinality(visited \cup next) = 1
  <2>1. visited \cup next = {Root}
    BY DEF Init
  <2>2. Cardinality({Root}) = 1
    BY FS_Singleton
  <2> QED BY <2>1, <2>2, Zenon
<1>3. TypeOK
  <2>1. query.max_depth \in Nat
    BY <1>1, QueryType
  <2>2. 0 \in 0..query.max_depth /\ 0 \in 0..MaxChanges
    BY <2>1, MaxChangesAssumption
  <2> QED BY <2>2, NodesAssumption DEF Init, TypeOK
<1>4. RoomForOne /\ NodeBound
  BY <1>1, <1>2, QueryType DEF RoomForOne, NodeBound, Bound
<1> QED BY <1>1, <1>3, <1>4, QueryType
        DEF Init, GraphInv, FrontierVisited, RowsTouchFrontier, DepthLeft

\* No step breaks the invariant.
LEMMA GraphNext == GraphInv /\ [Next]_vars => GraphInv'
<1> SUFFICES ASSUME GraphInv, [Next]_vars PROVE GraphInv'
  OBVIOUS
<1> USE DEF GraphInv
<1>0. /\ query \in Queries /\ TypeOK
      /\ query.max_depth \in Nat /\ query.max_nodes \in Nat /\ depth \in Nat
      /\ Bound \in Nat /\ Bound >= 2 /\ Bound >= query.max_nodes
      /\ NodeBound <=> Cardinality(visited \cup next) <= Bound
  BY QueryType DEF TypeOK, NodeBound, Bound
<1>00. query' = query =>
         Bound' = Bound /\ (NodeBound' <=> Cardinality(visited' \cup next') <= Bound)
  BY DEF NodeBound, Bound
<1>1. ASSUME NEW e \in Pairs, EdgeChanges(e) PROVE GraphInv'
  <2> USE <1>1 DEF EdgeChanges, searchVars
  <2>1. TypeOK'
    BY <1>0, MaxChangesAssumption DEF TypeOK
  <2> QED BY <2>1, <1>0, <1>00
          DEF FrontierVisited, RowsTouchFrontier, DepthLeft, RoomForOne
<1>2. ASSUME QueryLevel PROVE GraphInv'
  <2> USE <1>2 DEF QueryLevel
  <2>1. TypeOK'
    BY <1>0 DEF TypeOK, DepthLeft, Leaving
  <2>2. FrontierVisited' /\ RowsTouchFrontier' /\ DepthLeft'
    BY DEF FrontierVisited, RowsTouchFrontier, DepthLeft, Leaving
  <2>3. /\ Cardinality(visited' \cup next') \in Nat
        /\ Cardinality(visited \cup next) \in Nat
        /\ Cardinality(visited' \cup next') <= Cardinality(visited \cup next)
    <3>1. visited' \cup next' \subseteq visited \cup next /\ visited \cup next \subseteq Nodes
      BY <1>0 DEF TypeOK
    <3> QED BY <3>1, NodeSets
  <2> QED BY <2>1, <2>2, <2>3, <1>0, <1>00 DEF RoomForOne
<1>3. ASSUME EndLevel PROVE GraphInv'
  <2> USE <1>3 DEF EndLevel
  <2>1. TypeOK'
    BY <1>0 DEF TypeOK
  <2>2. FrontierVisited' /\ RowsTouchFrontier' /\ DepthLeft'
    BY <1>0 DEF FrontierVisited, RowsTouchFrontier, DepthLeft, TypeOK
  <2>3. visited' \cup next' = visited \cup next
    OBVIOUS
  <2> QED BY <2>1, <2>2, <2>3, <1>0, <1>00 DEF RoomForOne
<1>4. ASSUME NEW e \in Pairs, Skip(e) PROVE GraphInv'
  <2> USE <1>4 DEF Skip
  <2>1. TypeOK'
    BY <1>0 DEF TypeOK
  <2> QED BY <2>1, <1>0, <1>00
          DEF FrontierVisited, RowsTouchFrontier, DepthLeft, RoomForOne
<1>5. ASSUME NEW e \in Pairs, Visit(e) PROVE GraphInv'
  <2> USE <1>5 DEF Visit
  <2>1. TypeOK'
    BY <1>0 DEF TypeOK, Pairs
  <2>2. FrontierVisited' /\ RowsTouchFrontier' /\ DepthLeft'
    BY DEF FrontierVisited, RowsTouchFrontier, DepthLeft
  <2>3. PICK n \in Nodes : visited' \cup next' \subseteq (visited \cup next) \cup {n}
    BY <1>0 DEF RowsTouchFrontier, FrontierVisited, TypeOK, Pairs
  <2>4. visited \cup next \subseteq Nodes /\ visited' \cup next' \subseteq Nodes
    BY <1>0, <2>1 DEF TypeOK
  <2>5. /\ IsFiniteSet(visited \cup next) /\ Cardinality(visited \cup next) \in Nat
        /\ Cardinality(visited' \cup next') \in Nat
    BY <2>4, NodeSets
  <2>6. Cardinality((visited \cup next) \cup {n}) <= Cardinality(visited \cup next) + 1
    <3>1. Cardinality((visited \cup next) \cup {n}) =
            IF n \in visited \cup next THEN Cardinality(visited \cup next)
            ELSE Cardinality(visited \cup next) + 1
      BY <2>5, FS_AddElement, Zenon
    <3> QED BY <3>1, <2>5
  <2>7. /\ Cardinality(visited' \cup next') <= Cardinality((visited \cup next) \cup {n})
        /\ Cardinality((visited \cup next) \cup {n}) \in Nat
    <3>1. (visited \cup next) \cup {n} \subseteq Nodes
      BY <2>3, <2>4
    <3> QED BY <2>3, <3>1, NodeSets
  <2>8. Cardinality(visited' \cup next') <= Bound
    BY <1>0, <2>5, <2>6, <2>7 DEF RoomForOne
  <2>9. RoomForOne'
    <3>1. ASSUME ~truncated' PROVE ~(Cardinality(visited' \cup next') >= query.max_nodes)
      BY <3>1, Zenon
    <3>2. ~truncated' => Cardinality(visited' \cup next') < Bound
      BY <3>1, <1>0, <2>5
    <3> QED BY <3>2, <1>00, Zenon DEF RoomForOne
  <2> QED BY <2>1, <2>2, <2>8, <2>9, <1>00
<1>6. ASSUME UNCHANGED vars PROVE GraphInv'
  BY <1>6, <1>0, <1>00 DEF vars, searchVars, TypeOK, FrontierVisited, RowsTouchFrontier,
     DepthLeft, RoomForOne
<1> QED BY <1>1, <1>2, <1>3, <1>4, <1>5, <1>6 DEF Next, Search

\* For any graph, query and changes the search keeps its types, its depth
\* and its node bound (RelationshipService.graph).
THEOREM NodeBoundTheorem == Spec => [](TypeOK /\ NodeBound)
<1>1. GraphInv => TypeOK /\ NodeBound
  BY DEF GraphInv
<1> QED BY <1>1, GraphInit, GraphNext, PTL DEF Spec

-----------------------------------------------------------------------------
(* What `truncated` says.                                                  *)

\* While a level is read the nodes in hand are those visited and those of the
\* level; the search is cut off exactly when an edge fills them up.
CutOff ==
    /\ pc # "level" => next \subseteq visited
    /\ pc = "query" => ~truncated
    /\ truncated <=> Cardinality(visited \cup next) >= query.max_nodes /\ found # {}

LEMMA CutOffNext == GraphInv /\ CutOff /\ [Next]_vars => CutOff'
<1> SUFFICES ASSUME GraphInv, CutOff, [Next]_vars PROVE CutOff'
  OBVIOUS
<1>1. ASSUME NEW e \in Pairs, EdgeChanges(e) PROVE CutOff'
  BY <1>1 DEF EdgeChanges, searchVars, CutOff
<1>2. ASSUME QueryLevel PROVE CutOff'
  <2>1. visited' \cup next' = visited \cup next
    BY <1>2 DEF QueryLevel, CutOff
  <2> QED BY <1>2, <2>1 DEF QueryLevel, CutOff
<1>3. ASSUME EndLevel PROVE CutOff'
  <2>1. visited' \cup next' = visited \cup next /\ next' \subseteq visited'
    BY <1>3 DEF EndLevel
  <2>2. pc' = "query" => ~truncated
    BY <1>3 DEF EndLevel
  <2> QED BY <1>3, <2>1, <2>2 DEF EndLevel, CutOff
<1>4. ASSUME NEW e \in Pairs, Skip(e) PROVE CutOff'
  BY <1>4 DEF Skip, CutOff
<1>5. ASSUME NEW e \in Pairs, Visit(e) PROVE CutOff'
  <2>1. /\ pc' = "level" /\ found' # {} /\ visited' = visited /\ query' = query
        /\ truncated' = (Cardinality(visited \cup next') >= query.max_nodes)
    BY <1>5 DEF Visit
  <2> QED BY <2>1 DEF CutOff
<1>6. ASSUME UNCHANGED vars PROVE CutOff'
  BY <1>6 DEF vars, searchVars, CutOff
<1> QED BY <1>1, <1>2, <1>3, <1>4, <1>5, <1>6 DEF Next, Search

\* The response of RelationshipService.graph says truncated exactly when the
\* search came to the node bound: for any graph, and whatever edges appear or
\* vanish between two levels, a response that does not say so is complete as
\* far as the bound goes.
THEOREM TruncatedTheorem == Spec => []TruncatedMeansFull
<1>1. Init => CutOff
  BY DEF Init, CutOff
<1>2. GraphInv /\ CutOff => TruncatedMeansFull
  <2> SUFFICES ASSUME CutOff, pc = "done"
               PROVE  truncated <=> Cardinality(visited) >= query.max_nodes /\ found # {}
    BY DEF TruncatedMeansFull
  <2>1. visited \cup next = visited
    BY DEF CutOff
  <2> QED BY <2>1 DEF CutOff
<1> QED BY <1>1, <1>2, GraphInit, GraphNext, CutOffNext, PTL DEF Spec

-----------------------------------------------------------------------------
(* Balls.                                                                  *)

\* A set of numbers with 0 and every successor has all of them.  Balls are
\* defined by recursion, so what is said of each radius needs this.
LEMMA SetInduction ==
    ASSUME NEW S, 0 \in S, \A n \in Nat : n \in S => n + 1 \in S
    PROVE  Nat \subseteq S
<1> DEFINE T == Nat \ S
           R == {p \in Nat \X Nat : p[1] < p[2]}
<1> SUFFICES ASSUME T # {} PROVE FALSE
  OBVIOUS
<1>1. IsWellFoundedOn(R, Nat)
  BY NatLessThanWellFounded DEF OpToRel
<1>2. PICK x \in T : \A y \in T : ~(<<y, x>> \in R)
  <2>1. T \subseteq Nat
    OBVIOUS
  <2> HIDE DEF R
  <2> QED BY <1>1, <2>1, WFMin
<1>3. x # 0 /\ x - 1 \in Nat /\ <<x - 1, x>> \in R
  OBVIOUS
<1>4. x - 1 \in S
  BY <1>2, <1>3
<1>5. (x - 1) + 1 \in S
  BY <1>3, <1>4
<1> QED BY <1>3, <1>5

LEMMA EndsFacts ==
    ASSUME NEW E
    PROVE  \A x : x \in Ends(E) <=> \E e \in E : x = e[1] \/ x = e[2]
BY DEF Ends

LEMMA AroundFacts ==
    ASSUME NEW d, NEW E, NEW S
    PROVE  \A x : x \in Around(d, S, E) <=>
                     x \in S \/ \E e \in Leaving(d, S, E) : x = e[1] \/ x = e[2]
BY EndsFacts DEF Around

LEMMA AroundMonotone ==
    ASSUME NEW d, NEW E, NEW F, NEW S, NEW T, E \subseteq F, S \subseteq T
    PROVE  Around(d, S, E) \subseteq Around(d, T, F)
<1>1. Leaving(d, S, E) \subseteq Leaving(d, T, F)
  BY DEF Leaving
<1> QED BY <1>1, AroundFacts

\* b lists the balls of radius 0 to n.
Balls(d, E, n, b) == b = [i \in 0..n |-> IF i = 0 THEN {Root} ELSE Around(d, b[i - 1], E)]

LEMMA BallsFacts ==
    ASSUME NEW d, NEW E, NEW n \in Nat, NEW b, Balls(d, E, n, b)
    PROVE  b[0] = {Root} /\ \A i \in 1..n : b[i] = Around(d, b[i - 1], E)
<1> DEFINE F(i) == IF i = 0 THEN {Root} ELSE Around(d, b[i - 1], E)
<1>1. b = [i \in 0..n |-> F(i)]
  BY DEF Balls
<1>2. \A i \in 0..n : b[i] = F(i)
  <2> HIDE DEF F
  <2> QED BY <1>1
<1>3. 0 \in 0..n /\ \A i \in 1..n : i \in 0..n /\ i # 0
  OBVIOUS
<1> QED BY <1>2, <1>3

LEMMA BallsExist ==
    ASSUME NEW d, NEW E, NEW n \in Nat
    PROVE  \E b : Balls(d, E, n, b)
<1> DEFINE S == {k \in Nat : \E b : Balls(d, E, k, b)}
<1>1. 0 \in S
  <2> DEFINE b == [i \in 0..0 |-> {Root}]
  <2>1. Balls(d, E, 0, b)
    BY DEF Balls
  <2> QED BY <2>1
<1>2. ASSUME NEW k \in Nat, k \in S PROVE k + 1 \in S
  <2>1. PICK b : Balls(d, E, k, b)
    BY <1>2
  <2> DEFINE c == [i \in 0..(k + 1) |-> IF i = k + 1 THEN Around(d, b[k], E) ELSE b[i]]
  <2>2. ASSUME NEW i \in 0..(k + 1)
        PROVE  c[i] = IF i = 0 THEN {Root} ELSE Around(d, c[i - 1], E)
    <3>1. b[0] = {Root} /\ \A j \in 1..k : b[j] = Around(d, b[j - 1], E)
      BY <2>1, BallsFacts
    <3>2. CASE i = 0
      BY <3>1, <3>2
    <3>3. CASE i \in 1..k
      BY <3>1, <3>3
    <3>4. CASE i = k + 1
      <4>1. c[i] = Around(d, b[k], E) /\ c[k] = b[k] /\ i - 1 = k /\ i # 0
        BY <3>4
      <4> QED BY <4>1
    <3> QED BY <3>2, <3>3, <3>4
  <2>3. Balls(d, E, k + 1, c)
    BY <2>2 DEF Balls
  <2> QED BY <2>3
<1>3. Nat \subseteq S
  <2> HIDE DEF S
  <2> QED BY <1>1, <1>2, SetInduction
<1> QED BY <1>3

LEMMA BallsAgree ==
    ASSUME NEW d, NEW E, NEW m \in Nat, NEW n \in Nat, NEW b, NEW c,
           Balls(d, E, m, b), Balls(d, E, n, c)
    PROVE  \A i \in Nat : i <= m /\ i <= n => b[i] = c[i]
<1> DEFINE S == {i \in Nat : i <= m /\ i <= n => b[i] = c[i]}
<1>00. b[0] = {Root} /\ \A i \in 1..m : b[i] = Around(d, b[i - 1], E)
  BY BallsFacts
<1>0. c[0] = {Root} /\ \A i \in 1..n : c[i] = Around(d, c[i - 1], E)
  BY BallsFacts
<1>1. 0 \in S
  BY <1>00, <1>0
<1>2. ASSUME NEW k \in Nat, k \in S PROVE k + 1 \in S
  <2> SUFFICES ASSUME k + 1 <= m, k + 1 <= n PROVE b[k + 1] = c[k + 1]
    OBVIOUS
  <2>1. b[k] = c[k]
    BY <1>2
  <2>2. k + 1 \in 1..m /\ k + 1 \in 1..n /\ (k + 1) - 1 = k
    OBVIOUS
  <2>3. b[k + 1] = Around(d, b[k], E) /\ c[k + 1] = Around(d, c[k], E)
    BY <1>00, <1>0, <2>2
  <2> QED BY <2>1, <2>3
<1>3. Nat \subseteq S
  <2> HIDE DEF S
  <2> QED BY <1>1, <1>2, SetInduction
<1> QED BY <1>3

LEMMA BallIsOfBalls ==
    ASSUME NEW d, NEW E, NEW n \in Nat
    PROVE  \E b : Balls(d, E, n, b) /\ Ball(d, E, n) = b[n]
<1>1. \E b : Balls(d, E, n, b)
  BY BallsExist
<1> QED BY <1>1 DEF Ball, Balls

\* The recursion that the definition of Ball stands for.
LEMMA BallStep ==
    ASSUME NEW d, NEW E
    PROVE  /\ Ball(d, E, 0) = {Root}
           /\ \A n \in Nat : Ball(d, E, n + 1) = Around(d, Ball(d, E, n), E)
<1>1. Ball(d, E, 0) = {Root}
  <2>1. PICK b : Balls(d, E, 0, b) /\ Ball(d, E, 0) = b[0]
    BY BallIsOfBalls
  <2>2. b[0] = {Root}
    BY <2>1, BallsFacts
  <2> QED BY <2>1, <2>2
<1>2. ASSUME NEW m \in Nat, NEW n \in Nat, m = n + 1
      PROVE  Ball(d, E, m) = Around(d, Ball(d, E, n), E)
  <2>1. PICK b : Balls(d, E, n, b) /\ Ball(d, E, n) = b[n]
    BY BallIsOfBalls
  <2>2. PICK c : Balls(d, E, m, c) /\ Ball(d, E, m) = c[m]
    BY BallIsOfBalls
  <2>3. b[n] = c[n]
    BY <1>2, <2>1, <2>2, BallsAgree
  <2>4. m \in 1..m /\ m - 1 = n
    BY <1>2
  <2>5. c[0] = {Root} /\ \A i \in 1..m : c[i] = Around(d, c[i - 1], E)
    BY <2>2, BallsFacts
  <2>6. c[m] = Around(d, c[n], E)
    BY <2>4, <2>5
  <2> QED BY <2>1, <2>2, <2>3, <2>6
<1> QED BY <1>1, <1>2

LEMMA BallMonotone ==
    ASSUME NEW d, NEW E, NEW F, E \subseteq F
    PROVE  \A n \in Nat : Ball(d, E, n) \subseteq Ball(d, F, n)
<1> DEFINE S == {n \in Nat : Ball(d, E, n) \subseteq Ball(d, F, n)}
<1>1. 0 \in S
  BY BallStep
<1>2. ASSUME NEW k \in Nat, k \in S PROVE k + 1 \in S
  <2>1. Around(d, Ball(d, E, k), E) \subseteq Around(d, Ball(d, F, k), F)
    BY <1>2, AroundMonotone
  <2>2. /\ Ball(d, E, k + 1) = Around(d, Ball(d, E, k), E)
        /\ Ball(d, F, k + 1) = Around(d, Ball(d, F, k), F)
    BY BallStep
  <2> QED BY <2>1, <2>2
<1>3. Nat \subseteq S
  <2> HIDE DEF S
  <2> QED BY <1>1, <1>2, SetInduction
<1> QED BY <1>3

LEMMA BallGrows ==
    ASSUME NEW d, NEW E
    PROVE  \A n \in Nat : Root \in Ball(d, E, n) /\ \A m \in 0..n : Ball(d, E, m) \subseteq Ball(d, E, n)
<1> DEFINE S == {n \in Nat : Root \in Ball(d, E, n) /\ \A m \in 0..n : Ball(d, E, m) \subseteq Ball(d, E, n)}
<1>1. 0 \in S
  BY BallStep
<1>2. ASSUME NEW k \in Nat, k \in S PROVE k + 1 \in S
  <2>1. Ball(d, E, k) \subseteq Ball(d, E, k + 1)
    <3>1. Ball(d, E, k + 1) = Around(d, Ball(d, E, k), E)
      BY BallStep
    <3> QED BY <3>1, AroundFacts
  <2>2. \A m \in 0..(k + 1) : m \in 0..k \/ m = k + 1
    OBVIOUS
  <2>3. \A m \in 0..(k + 1) : Ball(d, E, m) \subseteq Ball(d, E, k + 1)
    BY <1>2, <2>1, <2>2
  <2> QED BY <1>2, <2>1, <2>3
<1>3. Nat \subseteq S
  <2> HIDE DEF S
  <2> QED BY <1>1, <1>2, SetInduction
<1> QED BY <1>3

\* A set with the root that no edge leaves has every ball in it.
LEMMA BallInside ==
    ASSUME NEW d, NEW E, NEW T, Root \in T,
           \A e \in Leaving(d, T, E) : e[1] \in T /\ e[2] \in T
    PROVE  \A n \in Nat : Ball(d, E, n) \subseteq T
<1> DEFINE S == {n \in Nat : Ball(d, E, n) \subseteq T}
<1>1. 0 \in S
  BY BallStep
<1>2. ASSUME NEW k \in Nat, k \in S PROVE k + 1 \in S
  <2>1. Around(d, Ball(d, E, k), E) \subseteq Around(d, T, E)
    BY <1>2, AroundMonotone
  <2>2. Around(d, T, E) \subseteq T
    BY AroundFacts
  <2>3. Ball(d, E, k + 1) = Around(d, Ball(d, E, k), E)
    BY BallStep
  <2> QED BY <2>1, <2>2, <2>3
<1>3. Nat \subseteq S
  <2> HIDE DEF S
  <2> QED BY <1>1, <1>2, SetInduction
<1> QED BY <1>3

\* Once no edge leaves a ball, larger radii add nothing.
LEMMA BallFixed ==
    ASSUME NEW d, NEW E, NEW m \in Nat, NEW n \in Nat, m <= n,
           \A e \in Leaving(d, Ball(d, E, m), E) : e[1] \in Ball(d, E, m) /\ e[2] \in Ball(d, E, m)
    PROVE  Ball(d, E, n) = Ball(d, E, m)
<1>1. Root \in Ball(d, E, m) /\ Ball(d, E, m) \subseteq Ball(d, E, n)
  BY BallGrows
<1>2. Ball(d, E, n) \subseteq Ball(d, E, m)
  BY <1>1, BallInside
<1> QED BY <1>1, <1>2

-----------------------------------------------------------------------------
(* The response is one piece around the root.                              *)

\* Both ends of the edges found are in hand, and all nodes in hand were
\* reached over edges found: those of earlier levels within one step less.
OnePiece ==
    /\ Root \in visited
    /\ \A e \in found : e[1] \in visited \cup next /\ e[2] \in visited \cup next
    /\ pc # "level" => next \subseteq visited /\ visited \subseteq Ball(query.direction, found, depth)
    /\ pc = "level" =>
         /\ depth >= 1
         /\ visited \subseteq Ball(query.direction, found, depth - 1) /\ next \subseteq Ball(query.direction, found, depth)
         /\ result \subseteq Leaving(query.direction, frontier, Pairs)

LEMMA OnePieceInit == Init => OnePiece
<1> SUFFICES ASSUME Init PROVE OnePiece
  OBVIOUS
<1>1. Ball(query.direction, found, 0) = {Root}
  BY BallStep
<1> QED BY <1>1 DEF Init, OnePiece

LEMMA OnePieceNext == GraphInv /\ OnePiece /\ [Next]_vars => OnePiece'
<1> SUFFICES ASSUME GraphInv, OnePiece, [Next]_vars PROVE OnePiece'
  OBVIOUS
<1> DEFINE d == query.direction
<1>0. depth \in Nat /\ edges \subseteq Pairs
  BY QueryType DEF GraphInv, TypeOK
<1>1. ASSUME NEW e \in Pairs, EdgeChanges(e) PROVE OnePiece'
  BY <1>1 DEF EdgeChanges, searchVars, OnePiece
<1>2. ASSUME QueryLevel PROVE OnePiece'
  <2> USE <1>2 DEF QueryLevel
  <2>1. depth' - 1 = depth /\ depth' >= 1
    BY <1>0
  <2>2. visited' \subseteq Ball(d, found', depth' - 1) /\ next' \subseteq Ball(d, found', depth')
    BY <2>1 DEF OnePiece
  <2>3. result' \subseteq Leaving(query.direction, frontier, Pairs)
    BY <1>0 DEF Leaving
  <2> QED BY <2>1, <2>2, <2>3 DEF OnePiece
<1>3. ASSUME EndLevel PROVE OnePiece'
  <2> USE <1>3 DEF EndLevel
  <2>1. Ball(d, found, depth - 1) \subseteq Ball(d, found, depth)
    <3>1. depth - 1 \in 0..depth
      BY <1>0 DEF OnePiece
    <3> QED BY <3>1, <1>0, BallGrows
  <2>2. visited' \subseteq Ball(d, found', depth') /\ next' \subseteq visited'
    BY <2>1 DEF OnePiece
  <2>3. pc' # "level"
    OBVIOUS
  <2> QED BY <2>2, <2>3 DEF OnePiece
<1>4. ASSUME NEW e \in Pairs, Skip(e) PROVE OnePiece'
  BY <1>4 DEF Skip, OnePiece
<1>5. ASSUME NEW e \in Pairs, Visit(e) PROVE OnePiece'
  <2> USE <1>5 DEF Visit
  <2>1. \A n \in Nat : Ball(d, found, n) \subseteq Ball(d, found', n)
    BY BallMonotone
  <2>2. depth - 1 \in Nat /\ (depth - 1) + 1 = depth /\ depth' - 1 = depth - 1
    BY <1>0 DEF OnePiece
  <2>3. visited' \subseteq Ball(d, found', depth - 1) /\ next \subseteq Ball(d, found', depth')
    BY <1>0, <2>1, <2>2 DEF OnePiece
  <2>4. e \in Leaving(d, Ball(d, found', depth - 1), found')
    <3>1. frontier \subseteq visited
      BY DEF GraphInv, FrontierVisited
    <3>2. e \in Leaving(query.direction, frontier, Pairs)
      BY DEF OnePiece
    <3> QED BY <2>3, <3>1, <3>2 DEF Leaving
  <2>5. e[1] \in Ball(d, found', depth') /\ e[2] \in Ball(d, found', depth')
    <3>1. Ball(d, found', depth') = Around(d, Ball(d, found', depth - 1), found')
      <4>1. \A n \in Nat : Ball(d, found', n + 1) = Around(d, Ball(d, found', n), found')
        BY BallStep
      <4>2. depth' = (depth - 1) + 1
        BY <2>2
      <4> QED BY <2>2, <4>1, <4>2
    <3> QED BY <2>4, <3>1, AroundFacts
  <2>6. next' \subseteq Ball(d, found', depth')
    BY <2>3, <2>5
  <2> QED BY <2>2, <2>3, <2>6 DEF OnePiece
<1>6. ASSUME UNCHANGED vars PROVE OnePiece'
  BY <1>6 DEF vars, searchVars, OnePiece
<1> QED BY <1>1, <1>2, <1>3, <1>4, <1>5, <1>6 DEF Next, Search

\* Whatever edges a projection changes between two levels, and wherever the
\* node bound breaks a level off, the response of RelationshipService.graph is
\* one piece around the root and no deeper than max_depth.
THEOREM ConnectedTheorem == Spec => []Connected
<1>1. ASSUME GraphInv, OnePiece PROVE Connected
  <2> SUFFICES ASSUME pc = "done"
               PROVE  visited = Ball(query.direction, Answer, query.max_depth)
    BY DEF Connected
  <2>0. query.max_depth \in Nat /\ depth \in 0..query.max_depth
    BY <1>1, QueryType DEF GraphInv, TypeOK
  <2>1. Answer = found
    BY <1>1 DEF Answer, OnePiece
  <2>2. visited \subseteq Ball(query.direction, found, query.max_depth)
    <3>1. Ball(query.direction, found, depth) \subseteq Ball(query.direction, found, query.max_depth)
      BY <2>0, BallGrows
    <3> QED BY <1>1, <3>1 DEF OnePiece
  <2>3. Ball(query.direction, found, query.max_depth) \subseteq visited
    <3>1. Root \in visited /\ \A e \in found : e[1] \in visited /\ e[2] \in visited
      BY <1>1 DEF OnePiece
    <3>2. Leaving(query.direction, visited, found) \subseteq found
      BY DEF Leaving
    <3> QED BY <2>0, <3>1, <3>2, BallInside
  <2> QED BY <2>1, <2>2, <2>3
<1> QED BY <1>1, OnePieceInit, OnePieceNext, GraphInit, GraphNext, PTL DEF Spec

-----------------------------------------------------------------------------
(* The response is exact.                                                  *)

Wanted == edges \ Unwanted

\* The nodes less than k edges away from the root.
Within(k) == IF k = 0 THEN {} ELSE Ball(query.direction, Wanted, k - 1)

\* The edges that leave S.
Out(S) == Leaving(query.direction, S, Wanted)

\* As long as nothing changed and nothing was cut off: level after level the
\* nodes visited are a ball, the frontier is its rim, and the edges found are
\* those that leave the ball before it and those read of the current level.
Exact ==
    changes = 0 /\ ~truncated =>
      /\ pc = "query" =>
           /\ visited = Within(depth + 1) /\ frontier = visited \ Within(depth)
           /\ found = Out(Within(depth))
      /\ pc = "level" =>
           /\ depth >= 1
           /\ visited = Within(depth) /\ frontier = visited \ Within(depth - 1)
           /\ found = Out(Within(depth - 1)) \cup (Out(frontier) \ result)
           /\ next = Ends(Out(frontier) \ result)
           /\ result \subseteq Leaving(query.direction, frontier, edges)
      /\ pc = "done" =>
           /\ visited = Within(query.max_depth + 1)
           /\ found = Out(Within(query.max_depth))

LEMMA ExactInit == Init => Exact
<1> SUFFICES ASSUME Init PROVE Exact
  OBVIOUS
<1>1. depth = 0 /\ Within(0) = {} /\ Within(0 + 1) = {Root}
  BY BallStep DEF Init, Within
<1>2. Out({}) = {}
  BY DEF Out, Leaving
<1> QED BY <1>1, <1>2 DEF Init, Exact

\* One level: the ball grows by the ends of the edges that leave its rim.
LEMMA WithinStep ==
    ASSUME NEW k \in Nat, k >= 1
    PROVE  /\ Within(k - 1) \subseteq Within(k)
           /\ Within(k + 1) = Within(k) \cup Ends(Out(Within(k) \ Within(k - 1)))
           /\ Out(Within(k)) = Out(Within(k - 1)) \cup Out(Within(k) \ Within(k - 1))
<1> DEFINE d == query.direction
           B(n) == Ball(d, Wanted, n)
<1>1. \A n \in Nat : B(n + 1) = Around(d, B(n), Wanted)
  BY BallStep
<1>2. k - 1 \in Nat /\ Within(k) = B(k - 1) /\ Within(k + 1) = B(k)
  BY DEF Within
<1>3. B(k) = Around(d, B(k - 1), Wanted)
  <2>1. k = (k - 1) + 1
    OBVIOUS
  <2> HIDE DEF B
  <2> QED BY <1>1, <1>2, <2>1
<1>4. \A x : x \in Within(k - 1) => x \in Within(k)
  <2>1. CASE k = 1
    BY <2>1 DEF Within
  <2>2. CASE k > 1
    <3>1. Within(k - 1) = B(k - 2) /\ k - 2 \in 0..(k - 1)
      BY <2>2 DEF Within
    <3> QED BY <3>1, <1>2, BallGrows
  <2> QED BY <2>1, <2>2
<1>5. \A x : x \in Ends(Out(Within(k - 1))) => x \in Within(k)
  <2>1. CASE k = 1
    <3>1. Out(Within(k - 1)) = {}
      BY <2>1 DEF Within, Out, Leaving
    <3> QED BY <3>1, EndsFacts
  <2>2. CASE k > 1
    <3>1. Within(k - 1) = B(k - 2) /\ k - 2 \in Nat /\ k - 1 = (k - 2) + 1
      BY <2>2 DEF Within
    <3>2. B(k - 1) = Around(d, B(k - 2), Wanted)
      <4> HIDE DEF B
      <4> QED BY <1>1, <3>1
    <3> QED BY <3>1, <3>2, <1>2 DEF Around, Out
  <2> QED BY <2>1, <2>2
<1>6. Out(Within(k)) = Out(Within(k - 1)) \cup Out(Within(k) \ Within(k - 1))
  BY <1>4 DEF Out, Leaving
<1>7. \A x : x \in Within(k + 1) <=>
                x \in Within(k) \/ x \in Ends(Out(Within(k) \ Within(k - 1)))
  <2>1. \A x : x \in Within(k + 1) <=> x \in Within(k) \/ x \in Ends(Out(Within(k)))
    BY <1>2, <1>3 DEF Around, Out
  <2> QED BY <2>1, <1>5, <1>6, EndsFacts
<1> QED BY <1>4, <1>6, <1>7

LEMMA ExactNext == GraphInv /\ Exact /\ [Next]_vars => Exact'
<1> SUFFICES ASSUME GraphInv, Exact, [Next]_vars, changes' = 0, ~truncated'
             PROVE  Exact'
  BY DEF Exact
<1>0. /\ depth \in Nat /\ query.max_depth \in Nat /\ changes \in Nat
      /\ depth <= query.max_depth
  BY QueryType, MaxChangesAssumption DEF GraphInv, TypeOK
<1>1. ASSUME NEW e \in Pairs, EdgeChanges(e) PROVE Exact'
  BY <1>0, <1>1 DEF EdgeChanges
<1>2. ASSUME QueryLevel PROVE Exact'
  <2> USE <1>2 DEF QueryLevel
  <2>1. /\ visited = Within(depth + 1) /\ frontier = visited \ Within(depth)
        /\ found = Out(Within(depth))
    BY DEF Exact
  <2>2. Out(frontier) \ result' = {}
    BY DEF Out, Leaving, Wanted
  <2>3. Ends({}) = {}
    BY EndsFacts
  <2>4. depth' >= 1 /\ depth' = depth + 1 /\ depth' - 1 = depth
    BY <1>0
  <2>5. /\ visited' = Within(depth') /\ frontier' = visited' \ Within(depth' - 1)
        /\ found' = Out(Within(depth' - 1)) \cup (Out(frontier') \ result')
        /\ next' = Ends(Out(frontier') \ result')
    BY <2>1, <2>2, <2>3, <2>4
  <2>6. result' \subseteq Leaving(query.direction, frontier', edges)
    OBVIOUS
  <2> QED BY <2>4, <2>5, <2>6 DEF Exact, Within, Out, Wanted
<1>3. ASSUME EndLevel PROVE Exact'
  <2> USE <1>3 DEF EndLevel
  <2>1. /\ depth >= 1 /\ result = {}
        /\ visited = Within(depth) /\ frontier = visited \ Within(depth - 1)
        /\ found = Out(Within(depth - 1)) \cup Out(frontier)
        /\ next = Ends(Out(frontier))
    BY DEF Exact
  <2>2. /\ visited' = Within(depth + 1) /\ found = Out(Within(depth))
        /\ Within(depth - 1) \subseteq Within(depth)
    BY <1>0, <2>1, WithinStep
  <2>3. frontier' = visited' \ Within(depth)
    BY <2>1
  <2>4. CASE pc' = "query"
    BY <2>2, <2>3, <2>4 DEF Exact, Within, Out, Wanted
  <2>5. CASE pc' = "done"
    <3>1. visited' = Within(query.max_depth + 1) /\ found = Out(Within(query.max_depth))
      <4>1. CASE depth = query.max_depth
        BY <4>1, <2>2
      <4>2. CASE depth # query.max_depth
        <5> DEFINE B(n) == Ball(query.direction, Wanted, n)
        <5>1. frontier' = {}
          BY <4>2, <2>5
        <5>2. /\ Within(depth) = B(depth - 1) /\ Within(depth + 1) = B(depth)
              /\ Within(query.max_depth + 1) = B(query.max_depth)
              /\ Within(query.max_depth) = B(query.max_depth - 1)
          BY <1>0, <2>1 DEF Within
        <5>3. B(depth) = B(depth - 1)
          BY <5>1, <5>2, <2>2, <2>3, <2>1
        <5>4. B(depth) = Around(query.direction, B(depth - 1), Wanted)
          <6>1. \A n \in Nat : B(n + 1) = Around(query.direction, B(n), Wanted)
            BY BallStep
          <6>2. depth - 1 \in Nat /\ depth = (depth - 1) + 1
            BY <1>0, <2>1
          <6> HIDE DEF B
          <6> QED BY <6>1, <6>2
        <5>5. \A x : x \in Ends(Leaving(query.direction, B(depth - 1), Wanted)) => x \in B(depth - 1)
          BY <5>3, <5>4 DEF Around
        <5>6. \A e \in Leaving(query.direction, B(depth - 1), Wanted) :
                 e[1] \in B(depth - 1) /\ e[2] \in B(depth - 1)
          BY <5>5, EndsFacts
        <5>7. depth - 1 \in Nat /\ query.max_depth - 1 \in Nat /\ depth - 1 <= query.max_depth - 1
          BY <1>0, <2>1
        <5>8. B(query.max_depth) = B(depth - 1) /\ B(query.max_depth - 1) = B(depth - 1)
          BY <5>6, <5>7, <1>0, BallFixed
        <5> HIDE DEF B
        <5> QED BY <5>2, <5>3, <5>8, <2>2
      <4> QED BY <4>1, <4>2
    <3> QED BY <3>1, <2>5 DEF Exact, Within, Out, Wanted
  <2> QED BY <2>4, <2>5
<1>4. ASSUME NEW e \in Pairs, Skip(e) PROVE Exact'
  <2> USE <1>4 DEF Skip
  <2>1. Out(frontier) \ result' = Out(frontier) \ result
    BY DEF Out, Leaving, Wanted
  <2> QED BY <2>1 DEF Exact, Within, Out, Wanted
<1>5. ASSUME NEW e \in Pairs, Visit(e) PROVE Exact'
  <2> USE <1>5 DEF Visit
  <2>1. /\ depth >= 1
        /\ visited = Within(depth) /\ frontier = visited \ Within(depth - 1)
        /\ found = Out(Within(depth - 1)) \cup (Out(frontier) \ result)
        /\ next = Ends(Out(frontier) \ result)
        /\ result \subseteq Leaving(query.direction, frontier, edges)
    BY DEF Exact
  <2>2. Out(frontier) \ result' = (Out(frontier) \ result) \cup {e}
    BY <2>1 DEF Out, Leaving, Wanted
  <2>3. Ends(Out(frontier) \ result') = next'
    <3> DEFINE X == Out(frontier) \ result
    <3>1. Ends(X \cup {e}) = Ends(X) \cup {e[1], e[2]}
      BY DEF Ends
    <3> QED BY <2>1, <2>2, <3>1
  <2>4. found' = Out(Within(depth - 1)) \cup (Out(frontier) \ result')
    BY <2>1, <2>2
  <2> QED BY <2>1, <2>3, <2>4 DEF Exact, Within, Out, Wanted
<1>6. ASSUME UNCHANGED vars PROVE Exact'
  BY <1>6 DEF vars, searchVars, Exact, Within, Out, Wanted
<1> QED BY <1>1, <1>2, <1>3, <1>4, <1>5, <1>6 DEF Next, Search

\* A search that no projection disturbs and the node bound does not cut off
\* answers with all nodes within max_depth of the root and all edges that
\* leave a nearer one, for any graph, direction, depth and edge types:
\* the level by level search of RelationshipService.graph loses nothing and
\* adds nothing.
THEOREM ExactTheorem == Spec => []ExactWhenComplete
<1>1. ASSUME GraphInv, OnePiece, Exact PROVE ExactWhenComplete
  <2> SUFFICES ASSUME pc = "done", changes = 0, ~truncated
               PROVE  /\ visited = Ball(query.direction, Wanted, query.max_depth)
                      /\ Answer = Leaving(query.direction, Ball(query.direction, Wanted, query.max_depth - 1), Wanted)
    BY DEF ExactWhenComplete, Wanted
  <2>1. query.max_depth \in Nat \ {0}
    BY <1>1, QueryType DEF GraphInv, TypeOK
  <2>2. visited = Within(query.max_depth + 1) /\ found = Out(Within(query.max_depth))
    BY <1>1 DEF Exact
  <2>3. Answer = found
    BY <1>1 DEF Answer, OnePiece
  <2> QED BY <2>1, <2>2, <2>3 DEF Within, Out
<1> QED BY <1>1, ExactInit, ExactNext, OnePieceInit, OnePieceNext, GraphInit, GraphNext,
           PTL DEF Spec
=============================================================================
