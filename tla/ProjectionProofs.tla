-------------------------- MODULE ProjectionProofs --------------------------
(***************************************************************************)
(* Projection: the graph is well formed and wrong only where requests      *)
(* overlapped, for any resources, references, requests and failures.       *)
(***************************************************************************)
EXTENDS Projection, TLAPS

\* Functions on some of D, with values in S.
Partial(D, S) == UNION {[R -> S] : R \in SUBSET D}

Rows == Partial(Resources, Versions)

Typed ==
    /\ node \in Rows /\ edge \in Partial(Edges, BOOLEAN)
    /\ pc \in [Requests -> {"new", "flushing", "walking", "ok", "refused", "aborted"}]
    /\ target \in [Requests -> SUBSET Resources]
    /\ found \in [Requests -> SUBSET Versions]
    /\ wrote \in [Requests -> BOOLEAN]
    /\ src \in [Requests -> Rows]
    /\ todo \in [Requests -> SUBSET Resources]
    /\ left \in [Requests -> SUBSET Edges] /\ kept \in [Requests -> SUBSET Edges]
    /\ current \in [Requests -> Partial(Edges, BOOLEAN)]
    /\ faults \in 0..MaxFaults
    /\ solo \in [Requests -> SUBSET Resources] /\ since \in [Requests -> SUBSET Resources]
    /\ late \in [Resources -> SUBSET Resources]

\* The foreign keys of relationships.
Anchored == \A e \in DOMAIN edge : e[1] \in DOMAIN node /\ e[2] \in DOMAIN node

\* The sources whose edges request q has read.
Visited(q) == DOMAIN src[q] \ todo[q]

\* What request q works on: one resource, or the nodes it has listed.
Shape(q) ==
    /\ todo[q] \subseteq DOMAIN src[q]
    /\ Open(q) =>
          \/ target[q] = {} /\ pc[q] = "walking" /\ ~wrote[q] /\ DOMAIN src[q] \subseteq DOMAIN node
          \/ \E r \in Resources : target[q] = {r} /\ DOMAIN src[q] = {r}
    /\ pc[q] = "flushing" => ~wrote[q] /\ todo[q] = DOMAIN src[q]
    /\ pc[q] = "flushing" /\ found[q] # {} => DOMAIN src[q] \subseteq DOMAIN node
    /\ pc[q] = "walking" => wrote[q] \/ DOMAIN src[q] \subseteq DOMAIN node
    /\ ~Open(q) => ~wrote[q] /\ src[q] = Nothing
    /\ pc[q] = "new" => target[q] = {}

\* What it has read and will write belongs to the sources it has visited, and
\* an edge it will insert has its target.
Holds(q) ==
    /\ \A e \in DOMAIN current[q] : e \in DOMAIN edge /\ e[1] \in Visited(q)
    /\ \A e \in left[q] \cup kept[q] :
          e[1] \in Visited(q) /\ e[2] \in Refs[e[1]][src[q][e[1]]]
    /\ \A e \in kept[q] : e[1] # e[2] /\ e[2] \in DOMAIN node

\* Of a source that it is alone with it knows the node and the edges.
Knows(q) ==
    Open(q) => \A s \in solo[q] \cap DOMAIN src[q] :
        /\ pc[q] = "flushing" => found[q] = IF s \in DOMAIN node THEN {node[s]} ELSE {}
        /\ pc[q] = "walking" /\ ~wrote[q] => s \in DOMAIN node /\ node[s] = src[q][s]
        /\ s \in Visited(q) => \A e \in DOMAIN edge : e[1] = s =>
              e \in DOMAIN current[q] /\ current[q][e] = edge[e]

\* A candidate that it has looked up and skipped had no node when it began.
Skips(q) ==
    \A s \in Visited(q) : \A x \in Refs[s][src[q][s]] :
        x = s \/ <<s, x>> \in left[q] \cup kept[q] \/ x \notin DOMAIN node \/ x \in since[q]

\* Nobody else who is under way writes a source that q is alone with.
Alone(p, q) == Open(p) /\ Open(q) => solo[q] \cap Scope(p) = {}

Local(q) == Shape(q) /\ Holds(q) /\ Knows(q) /\ Skips(q)

GInv ==
    /\ Typed /\ Anchored
    /\ \A q \in Requests : Local(q)
    /\ \A p, q \in Requests : p # q => Alone(p, q)
    /\ StaleNeedsOverlap /\ RefusedNeedsOverlap
-----------------------------------------------------------------------------
(* Frames.                                                                 *)

LEMMA PartialFacts ==
    ASSUME NEW D, NEW S, NEW f \in Partial(D, S)
    PROVE  DOMAIN f \subseteq D /\ \A x \in DOMAIN f : f[x] \in S
  BY DEF Partial

LEMMA PartialIntro ==
    ASSUME NEW D, NEW S, NEW R \in SUBSET D, NEW f \in [R -> S]
    PROVE  f \in Partial(D, S)
  BY DEF Partial

LEMMA NothingFacts ==
    /\ DOMAIN Nothing = {}
    /\ \A D, S : Nothing \in Partial(D, S)
  <1>1. DOMAIN Nothing = {}
    BY DEF Nothing
  <1>2. ASSUME NEW D, NEW S PROVE Nothing \in Partial(D, S)
    <2>1. Nothing \in [{} -> S]
      BY DEF Nothing
    <2> QED BY <2>1, PartialIntro
  <1> QED BY <1>1, <1>2

LEMMA TypedImplies == Typed /\ Anchored => TypeOK
  <1> SUFFICES ASSUME Typed, Anchored PROVE TypeOK
    OBVIOUS
  <1>1. /\ DOMAIN node \subseteq Resources /\ \A r \in DOMAIN node : node[r] \in Versions
        /\ DOMAIN edge \subseteq Edges /\ \A e \in DOMAIN edge : edge[e] \in BOOLEAN
    BY PartialFacts DEF Typed, Rows
  <1>2. \A q \in Requests : DOMAIN src[q] \subseteq Resources /\ DOMAIN current[q] \subseteq Edges
    BY PartialFacts DEF Typed, Rows
  <1>3. \A e \in DOMAIN edge : {e[1], e[2]} \subseteq DOMAIN node
    BY DEF Anchored
  <1> QED BY <1>1, <1>2, <1>3 DEF Typed, TypeOK

\* Request p has not moved.
Same(p) ==
    /\ pc'[p] = pc[p] /\ target'[p] = target[p] /\ found'[p] = found[p]
    /\ wrote'[p] = wrote[p] /\ src'[p] = src[p] /\ todo'[p] = todo[p]
    /\ left'[p] = left[p] /\ current'[p] = current[p] /\ kept'[p] = kept[p]
    /\ since'[p] = since[p]

LEMMA LocalKept ==
    ASSUME NEW p \in Requests, Local(p), node' = node, edge' = edge, Same(p),
           solo'[p] \subseteq solo[p]
    PROVE  Local(p)'
  <1>1. Visited(p)' = Visited(p) /\ (Open(p)' <=> Open(p))
    BY DEF Visited, Same, Open
  <1>2. Shape(p)'
    BY <1>1 DEF Local, Shape, Same
  <1>3. Holds(p)'
    BY <1>1 DEF Local, Holds, Same
  <1>4. Knows(p)'
    <2>1. /\ Knows(p) /\ pc'[p] = pc[p] /\ found'[p] = found[p] /\ wrote'[p] = wrote[p]
          /\ src'[p] = src[p] /\ current'[p] = current[p]
      BY DEF Local, Same
    <2>2. solo'[p] \cap DOMAIN src'[p] \subseteq solo[p] \cap DOMAIN src[p]
      BY <2>1
    <2> QED BY <1>1, <2>1, <2>2 DEF Knows
  <1>5. Skips(p)'
    BY <1>1 DEF Local, Skips, Same
  <1> QED BY <1>2, <1>3, <1>4, <1>5 DEF Local

LEMMA StaleKept ==
    ASSUME StaleNeedsOverlap, node' = node, edge' = edge, mixed' = mixed, late' = late
    PROVE  StaleNeedsOverlap'
  BY DEF StaleNeedsOverlap, Active, Implied

\* A step of q that does not commit disturbs nobody else.
LEMMA Combine ==
    ASSUME GInv, NEW q \in Requests, Typed', Local(q)',
           node' = node, edge' = edge, mixed' = mixed, late' = late,
           \A p \in Requests \ {q} :
               /\ Same(p) /\ solo'[p] \subseteq solo[p]
               /\ pc[p] = "refused" => solo'[p] = solo[p]
               /\ Alone(p, q)' /\ Alone(q, p)',
           pc'[q] = "refused" => solo'[q] # Scope(q)'
    PROVE  GInv'
  <1>1. Anchored'
    BY DEF GInv, Anchored
  <1>2. ASSUME NEW p \in Requests PROVE Local(p)'
    BY LocalKept DEF GInv
  <1>3. ASSUME NEW p \in Requests, NEW r \in Requests, p # r PROVE Alone(p, r)'
    <2>1. CASE p # q /\ r # q
      BY <1>3, <2>1 DEF GInv, Alone, Same, Open, Scope
    <2> QED BY <1>3, <2>1
  <1>4. ASSUME NEW p \in Requests, pc'[p] = "refused" PROVE solo'[p] # Scope(p)'
    <2>1. CASE p # q
      BY <1>4, <2>1 DEF GInv, RefusedNeedsOverlap, Same, Scope
    <2> QED BY <1>4, <2>1
  <1> QED BY <1>1, <1>2, <1>3, <1>4, StaleKept DEF GInv, RefusedNeedsOverlap

-----------------------------------------------------------------------------
(* A request begins.                                                       *)

\* Whoever arrives leaves the others their knowledge of what it does not touch.
LEMMA ArriveAlone ==
    ASSUME Typed, NEW q \in Requests, NEW S \in SUBSET Resources, Arrive(q, S),
           Scope(q)' = S, \A p \in Requests \ {q} : pc'[p] = pc[p] /\ target'[p] = target[p]
    PROVE  /\ solo' \in [Requests -> SUBSET Resources]
           /\ \A p \in Requests \ {q} :
                 /\ solo'[p] \subseteq solo[p]
                 /\ pc[p] = "refused" => solo'[p] = solo[p]
                 /\ Alone(p, q)' /\ Alone(q, p)'
  <1> DEFINE others == {p \in Requests : Open(p)}
  <1>1. solo' = [p \in Requests |->
                    IF p = q THEN S \ UNION {Scope(o) : o \in others}
                    ELSE IF p \in others THEN solo[p] \ S ELSE solo[p]]
    BY DEF Arrive
  <1>2. solo' \in [Requests -> SUBSET Resources]
    BY <1>1 DEF Typed
  <1>3. ASSUME NEW p \in Requests \ {q}
        PROVE  /\ solo'[p] = (IF p \in others THEN solo[p] \ S ELSE solo[p])
               /\ (Open(p)' <=> p \in others) /\ Scope(p)' = Scope(p)
    BY <1>1 DEF Open, Scope
  <1>4. ASSUME NEW p \in Requests \ {q} PROVE Alone(p, q)'
    <2>1. solo'[q] = S \ UNION {Scope(o) : o \in others}
      BY <1>1
    <2>2. p \in others => solo'[q] \cap Scope(p) = {}
      BY <2>1
    <2>3. (Open(p)' => p \in others) /\ Scope(p)' = Scope(p)
      BY <1>3
    <2> QED BY <2>2, <2>3 DEF Alone
  <1>5. ASSUME NEW p \in Requests \ {q} PROVE Alone(q, p)'
    BY <1>3 DEF Alone
  <1>6. ASSUME NEW p \in Requests \ {q}, pc[p] = "refused" PROVE p \notin others
    BY <1>6 DEF Open
  <1> QED BY <1>2, <1>3, <1>4, <1>5, <1>6

LEMMA SelectNodeStep ==
    ASSUME GInv, NEW q \in Requests, NEW r \in Resources, NEW v \in Versions,
           SelectNode(q, r, v)
    PROVE  GInv'
  <1>0. Typed /\ Local(q)
    BY DEF GInv
  <1>1. /\ pc'[q] = "flushing" /\ target'[q] = {r} /\ todo'[q] = {r}
        /\ found'[q] = (IF r \in DOMAIN node THEN {node[r]} ELSE {})
        /\ src'[q] = [x \in {r} |-> v]
        /\ wrote' = wrote /\ left' = left /\ current' = current /\ kept' = kept
        /\ node' = node /\ edge' = edge /\ since' = since /\ late' = late
        /\ mixed' = mixed /\ faults' = faults /\ pc[q] = "new"
    BY <1>0 DEF SelectNode, Arrive, graphVars, Typed
  <1>2. ASSUME NEW p \in Requests \ {q} PROVE Same(p)
    BY <1>0, <1>1 DEF SelectNode, Same, Typed
  <1>3. Scope(q)' = {r}
    BY <1>1 DEF Scope
  <1>4. /\ solo' \in [Requests -> SUBSET Resources]
        /\ \A p \in Requests \ {q} :
              /\ solo'[p] \subseteq solo[p]
              /\ pc[p] = "refused" => solo'[p] = solo[p]
              /\ Alone(p, q)' /\ Alone(q, p)'
    BY <1>0, <1>2, <1>3, ArriveAlone DEF SelectNode, Same
  <1>5. Typed'
    <2>1. [x \in {r} |-> v] \in Rows
      <3>1. [x \in {r} |-> v] \in [{r} -> Versions]
        OBVIOUS
      <3> QED BY <3>1, PartialIntro DEF Rows
    <2>2. src' \in [Requests -> Rows]
      BY <1>0, <2>1 DEF SelectNode, Typed
    <2>3. found' \in [Requests -> SUBSET Versions]
      BY <1>0, PartialFacts DEF SelectNode, Typed, Rows
    <2> QED BY <1>0, <1>1, <1>4, <2>2, <2>3 DEF SelectNode, Typed
  <1>6. Local(q)'
    <2>1. ~wrote[q] /\ DOMAIN src[q] = {}
      BY <1>0, <1>1, NothingFacts DEF Local, Shape, Open
    <2>2. DOMAIN current[q] = {} /\ left[q] = {} /\ kept[q] = {}
      BY <1>0, <2>1 DEF Local, Holds, Visited
    <2>3. DOMAIN src'[q] = {r} /\ Visited(q)' = {}
      BY <1>1 DEF Visited
    <2>4. Shape(q)'
      BY <1>1, <2>1, <2>3 DEF Shape, Open
    <2>5. Holds(q)' /\ Skips(q)'
      BY <1>1, <2>2, <2>3 DEF Holds, Skips
    <2>6. Knows(q)'
      BY <1>1, <2>3 DEF Knows
    <2> QED BY <2>4, <2>5, <2>6 DEF Local
  <1> QED BY <1>1, <1>2, <1>4, <1>5, <1>6, Combine

LEMMA ListNodesStep ==
    ASSUME GInv, NEW q \in Requests, ListNodes(q)
    PROVE  GInv'
  <1>0. Typed /\ Local(q)
    BY DEF GInv
  <1>1. /\ pc'[q] = "walking" /\ todo'[q] = DOMAIN node /\ src'[q] = node
        /\ target' = target /\ found' = found
        /\ wrote' = wrote /\ left' = left /\ current' = current /\ kept' = kept
        /\ node' = node /\ edge' = edge /\ since' = since /\ late' = late
        /\ mixed' = mixed /\ faults' = faults /\ pc[q] = "new" /\ target[q] = {}
    BY <1>0 DEF ListNodes, Arrive, graphVars, Typed, Local, Shape
  <1>2. ASSUME NEW p \in Requests \ {q} PROVE Same(p)
    BY <1>0, <1>1 DEF ListNodes, Same, Typed
  <1>3. Scope(q)' = Resources
    BY <1>1 DEF Scope
  <1>4. /\ solo' \in [Requests -> SUBSET Resources]
        /\ \A p \in Requests \ {q} :
              /\ solo'[p] \subseteq solo[p]
              /\ pc[p] = "refused" => solo'[p] = solo[p]
              /\ Alone(p, q)' /\ Alone(q, p)'
    BY <1>0, <1>2, <1>3, ArriveAlone DEF ListNodes, Same
  <1>5. Typed'
    <2>1. DOMAIN node \subseteq Resources
      BY <1>0, PartialFacts DEF Typed, Rows
    <2> QED BY <1>0, <1>1, <1>4, <2>1 DEF ListNodes, Typed
  <1>6. Local(q)'
    <2>1. ~wrote[q] /\ DOMAIN src[q] = {}
      BY <1>0, <1>1, NothingFacts DEF Local, Shape, Open
    <2>2. DOMAIN current[q] = {} /\ left[q] = {} /\ kept[q] = {}
      BY <1>0, <2>1 DEF Local, Holds, Visited
    <2>3. Visited(q)' = {}
      BY <1>1 DEF Visited
    <2>4. Shape(q)'
      BY <1>1, <2>1 DEF Shape, Open
    <2>5. Holds(q)' /\ Skips(q)'
      BY <1>1, <2>2, <2>3 DEF Holds, Skips
    <2>6. Knows(q)'
      BY <1>1, <2>1, <2>3 DEF Knows
    <2> QED BY <2>4, <2>5, <2>6 DEF Local
  <1> QED BY <1>1, <1>2, <1>4, <1>5, <1>6, Combine

-----------------------------------------------------------------------------
(* Its statements.                                                         *)

\* A step in the middle of request q.
LEMMA InnerStep ==
    ASSUME GInv, NEW q \in Requests, Typed', Local(q)', Open(q), pc'[q] = "walking",
           \A p \in Requests \ {q} : Same(p),
           node' = node, edge' = edge, mixed' = mixed, late' = late,
           solo' = solo, target' = target
    PROVE  GInv'
  <1>1. ASSUME NEW p \in Requests \ {q} PROVE Alone(p, q)' /\ Alone(q, p)'
    <2>1. Alone(p, q) /\ Alone(q, p)
      BY DEF GInv
    <2>2. (Open(p)' <=> Open(p)) /\ Scope(p)' = Scope(p) /\ Scope(q)' = Scope(q)
      BY DEF Same, Open, Scope
    <2> QED BY <2>1, <2>2 DEF Alone
  <1> QED BY <1>1, Combine

LEMMA FlushNodeStep ==
    ASSUME GInv, NEW q \in Requests, FlushNode(q)
    PROVE  GInv'
  <1>0. Typed /\ Local(q)
    BY DEF GInv
  <1>1. /\ pc[q] = "flushing" /\ pc'[q] = "walking" /\ Open(q)
        /\ wrote'[q] = (\A r \in target[q] : found[q] # {src[q][r]})
        /\ target' = target /\ found' = found /\ src' = src /\ todo' = todo
        /\ left' = left /\ current' = current /\ kept' = kept
        /\ node' = node /\ edge' = edge /\ faults' = faults
        /\ solo' = solo /\ since' = since /\ late' = late /\ mixed' = mixed
    BY <1>0 DEF FlushNode, graphVars, historyVars, Typed, Open
  <1>2. ASSUME NEW p \in Requests \ {q} PROVE Same(p)
    BY <1>0, <1>1 DEF FlushNode, Same, Typed
  <1>3. Typed'
    <2>1. pc' \in [Requests -> {"new", "flushing", "walking", "ok", "refused", "aborted"}]
          /\ wrote' \in [Requests -> BOOLEAN]
      BY <1>0 DEF FlushNode, Typed
    <2> QED BY <1>0, <1>1, <2>1 DEF Typed
  <1>4. PICK r \in Resources : target[q] = {r} /\ DOMAIN src[q] = {r}
    BY <1>0, <1>1 DEF Local, Shape
  <1>5. wrote'[q] \/ found[q] = {src[q][r]}
    BY <1>1, <1>4
  <1>6. Visited(q)' = {} /\ Visited(q) = {}
    BY <1>0, <1>1 DEF Local, Shape, Visited
  <1>7. Shape(q)'
    <2>1. wrote'[q] \/ DOMAIN src[q] \subseteq DOMAIN node
      BY <1>0, <1>1, <1>5 DEF Local, Shape
    <2> QED BY <1>0, <1>1, <1>4, <2>1 DEF Local, Shape, Open
  <1>8. Holds(q)' /\ Skips(q)'
    BY <1>0, <1>1, <1>6 DEF Local, Holds, Skips
  <1>9. Knows(q)'
    <2>1. ASSUME r \in solo[q], ~wrote'[q] PROVE r \in DOMAIN node /\ node[r] = src[q][r]
      BY <1>0, <1>1, <1>4, <1>5, <2>1 DEF Local, Knows
    <2> QED BY <1>1, <1>4, <1>6, <2>1 DEF Knows
  <1> QED BY <1>1, <1>2, <1>3, <1>7, <1>8, <1>9, InnerStep DEF Local

LEMMA ReadEdgesStep ==
    ASSUME GInv, NEW q \in Requests, NEW s \in Resources, ReadEdges(q, s)
    PROVE  GInv'
  <1>0. Typed /\ Local(q)
    BY DEF GInv
  <1> DEFINE leaving == {x \in DOMAIN edge : x[1] = s}
             cur == [e \in DOMAIN current[q] \cup leaving |->
                        IF e[1] = s THEN edge[e] ELSE current[q][e]]
  <1>1. /\ pc[q] = "walking" /\ Open(q) /\ left[q] = {} /\ s \in todo[q]
        /\ todo'[q] = todo[q] \ {s} /\ current'[q] = cur
        /\ left'[q] = {s} \X Refs[s][src[q][s]]
        /\ pc' = pc /\ target' = target /\ found' = found /\ src' = src
        /\ wrote' = wrote /\ kept' = kept
        /\ node' = node /\ edge' = edge /\ faults' = faults
        /\ solo' = solo /\ since' = since /\ late' = late /\ mixed' = mixed
    BY <1>0 DEF ReadEdges, Candidates, graphVars, historyVars, Typed, Open
  <1>2. ASSUME NEW p \in Requests \ {q} PROVE Same(p)
    BY <1>0, <1>1 DEF ReadEdges, Same, Typed
  <1>3. /\ s \in DOMAIN src[q] /\ src[q][s] \in Versions
        /\ Refs[s][src[q][s]] \subseteq Resources
        /\ DOMAIN current[q] \subseteq Edges /\ DOMAIN edge \subseteq Edges
        /\ \A e \in DOMAIN current[q] : current[q][e] \in BOOLEAN
        /\ \A e \in DOMAIN edge : edge[e] \in BOOLEAN
    <2>1. s \in DOMAIN src[q]
      BY <1>0, <1>1 DEF Local, Shape
    <2>2. src[q][s] \in Versions
      BY <1>0, <2>1, PartialFacts DEF Typed, Rows
    <2>3. Refs[s][src[q][s]] \subseteq Resources
      BY <2>2, RefsAssumption
    <2> QED BY <1>0, <2>1, <2>2, <2>3, PartialFacts DEF Typed
  <1>4. Typed'
    <2>1. cur \in [DOMAIN current[q] \cup leaving -> BOOLEAN]
      <3>1. ASSUME NEW e \in DOMAIN current[q] \cup leaving
            PROVE  (IF e[1] = s THEN edge[e] ELSE current[q][e]) \in BOOLEAN
        BY <1>0, <1>3 DEF Local, Holds
      <3> QED BY <3>1
    <2>2. cur \in Partial(Edges, BOOLEAN)
      <3>1. DOMAIN current[q] \cup leaving \in SUBSET Edges
        BY <1>3
      <3> HIDE DEF cur, leaving
      <3> QED BY <2>1, <3>1, PartialIntro
    <2>3. current' \in [Requests -> Partial(Edges, BOOLEAN)]
      <3>1. current' = [current EXCEPT ![q] = cur]
        BY DEF ReadEdges
      <3> HIDE DEF cur
      <3> QED BY <1>0, <2>2, <3>1 DEF Typed
    <2>4. {s} \X Refs[s][src[q][s]] \subseteq Edges
      BY <1>3 DEF Edges
    <2>5. left' \in [Requests -> SUBSET Edges] /\ todo' \in [Requests -> SUBSET Resources]
      BY <1>0, <2>4 DEF ReadEdges, Candidates, Typed
    <2> QED BY <1>0, <1>1, <2>3, <2>5 DEF Typed
  <1>5. Visited(q)' = Visited(q) \cup {s}
    BY <1>1, <1>3 DEF Visited
  <1>6. Shape(q)'
    BY <1>0, <1>1 DEF Local, Shape, Open
  <1>7. Holds(q)'
    <2>1. ASSUME NEW e \in DOMAIN current'[q] PROVE e \in DOMAIN edge /\ e[1] \in Visited(q)'
      BY <1>0, <1>1, <1>5, <2>1 DEF Local, Holds
    <2>2. ASSUME NEW e \in left'[q] \cup kept[q]
          PROVE  e[1] \in Visited(q)' /\ e[2] \in Refs[e[1]][src[q][e[1]]]
      BY <1>0, <1>1, <1>5 DEF Local, Holds
    <2> QED BY <1>0, <1>1, <2>1, <2>2 DEF Local, Holds
  <1>8. Knows(q)'
    <2>1. ASSUME NEW x \in solo[q] \cap DOMAIN src[q], x \in Visited(q)',
                 NEW e \in DOMAIN edge, e[1] = x
          PROVE  e \in DOMAIN cur /\ cur[e] = edge[e]
      BY <1>0, <1>1, <1>5, <2>1 DEF Local, Knows
    <2> HIDE DEF cur
    <2>2. ASSUME NEW x \in solo[q] \cap DOMAIN src[q], ~wrote[q]
          PROVE  x \in DOMAIN node /\ node[x] = src[q][x]
      BY <1>0, <1>1, <2>2 DEF Local, Knows
    <2> QED BY <1>1, <2>1, <2>2 DEF Knows
  <1>9. Skips(q)'
    <2> SUFFICES ASSUME NEW x \in Visited(q)', NEW y \in Refs[x][src[q][x]]
                 PROVE  \/ y = x \/ <<x, y>> \in left'[q] \cup kept[q]
                        \/ y \notin DOMAIN node \/ y \in since[q]
      BY <1>1 DEF Skips
    <2>1. CASE x = s
      BY <1>1, <2>1
    <2>2. CASE x \in Visited(q)
      BY <1>0, <1>1, <2>2 DEF Local, Skips
    <2> QED BY <1>5, <2>1, <2>2
  <1> QED BY <1>1, <1>2, <1>4, <1>6, <1>7, <1>8, <1>9, InnerStep DEF Local

LEMMA FindTargetStep ==
    ASSUME GInv, NEW q \in Requests, NEW e \in Edges, FindTarget(q, e)
    PROVE  GInv'
  <1>0. Typed /\ Local(q)
    BY DEF GInv
  <1>1. /\ e \in left[q] /\ left'[q] = left[q] \ {e}
        /\ kept'[q] = (IF e[2] \in DOMAIN node /\ e[1] # e[2] THEN kept[q] \cup {e} ELSE kept[q])
        /\ pc' = pc /\ target' = target /\ found' = found /\ src' = src /\ todo' = todo
        /\ wrote' = wrote /\ current' = current
        /\ node' = node /\ edge' = edge /\ faults' = faults
        /\ solo' = solo /\ since' = since /\ late' = late /\ mixed' = mixed
    BY <1>0 DEF FindTarget, graphVars, historyVars, Typed
  <1>2. ASSUME NEW p \in Requests \ {q} PROVE Same(p)
    BY <1>0, <1>1 DEF FindTarget, Same, Typed
  <1>3. Typed'
    <2>1. left' \in [Requests -> SUBSET Edges] /\ kept' \in [Requests -> SUBSET Edges]
      BY <1>0 DEF FindTarget, Typed
    <2> QED BY <1>0, <1>1, <2>1 DEF Typed
  <1>4. pc[q] = "walking" /\ Open(q)
    <2>1. e[1] \in Visited(q)
      BY <1>0, <1>1 DEF Local, Holds
    <2>2. DOMAIN src[q] # {} /\ todo[q] # DOMAIN src[q]
      BY <2>1 DEF Visited
    <2> QED BY <1>0, <2>2, NothingFacts DEF Local, Shape, Open
  <1>5. Visited(q)' = Visited(q)
    BY <1>1 DEF Visited
  <1>6. Shape(q)' /\ Knows(q)'
    <2>1. Shape(q) /\ Knows(q) /\ (Open(q)' <=> Open(q))
      BY <1>0, <1>1 DEF Local, Open
    <2>2. Shape(q)'
      BY <1>1, <2>1 DEF Shape
    <2>3. Knows(q)'
      BY <1>1, <1>5, <2>1 DEF Knows
    <2> QED BY <2>2, <2>3
  <1>7. Holds(q)'
    BY <1>0, <1>1, <1>5 DEF Local, Holds
  <1>8. Skips(q)'
    <2> SUFFICES ASSUME NEW x \in Visited(q), NEW y \in Refs[x][src[q][x]]
                 PROVE  \/ y = x \/ <<x, y>> \in left'[q] \cup kept'[q]
                        \/ y \notin DOMAIN node \/ y \in since[q]
      BY <1>1, <1>5 DEF Skips
    <2>1. CASE e = <<x, y>>
      BY <1>1, <2>1
    <2>2. CASE e # <<x, y>>
      BY <1>0, <1>1, <2>2 DEF Local, Skips
    <2> QED BY <2>1, <2>2
  <1> QED BY <1>1, <1>2, <1>3, <1>4, <1>6, <1>7, <1>8, InnerStep DEF Local

-----------------------------------------------------------------------------
(* It fails.                                                               *)

LEMMA FailStep ==
    ASSUME GInv, NEW q \in Requests, NEW a \in {"refused", "aborted"}, Fail(q, a),
           faults' \in 0..MaxFaults, Open(q), a = "refused" => solo[q] # Scope(q)
    PROVE  GInv'
  <1>0. Typed /\ Local(q)
    BY DEF GInv
  <1>1. /\ pc'[q] = a /\ found'[q] = {} /\ wrote'[q] = FALSE /\ src'[q] = Nothing
        /\ todo'[q] = {} /\ left'[q] = {} /\ current'[q] = Nothing /\ kept'[q] = {}
        /\ node' = node /\ edge' = edge /\ target' = target
        /\ solo' = solo /\ late' = late /\ mixed' = mixed
    BY <1>0 DEF Fail, End, graphVars, Typed
  <1>2. ASSUME NEW p \in Requests \ {q} PROVE Same(p)
    BY <1>0, <1>1 DEF Fail, End, Same, Typed
  <1>3. Typed'
    <2>1. Nothing \in Rows /\ Nothing \in Partial(Edges, BOOLEAN)
      BY NothingFacts DEF Rows
    <2>2. src' \in [Requests -> Rows] /\ current' \in [Requests -> Partial(Edges, BOOLEAN)]
      BY <1>0, <2>1 DEF Fail, End, Typed
    <2>3. /\ pc' \in [Requests -> {"new", "flushing", "walking", "ok", "refused", "aborted"}]
          /\ found' \in [Requests -> SUBSET Versions] /\ wrote' \in [Requests -> BOOLEAN]
          /\ todo' \in [Requests -> SUBSET Resources] /\ since' \in [Requests -> SUBSET Resources]
          /\ left' \in [Requests -> SUBSET Edges] /\ kept' \in [Requests -> SUBSET Edges]
      BY <1>0 DEF Fail, End, Typed
    <2> QED BY <1>0, <1>1, <2>2, <2>3 DEF Typed
  <1>4. ~Open(q)'
    BY <1>1 DEF Open
  <1>5. Local(q)'
    <2>1. Visited(q)' = {}
      BY <1>1, NothingFacts DEF Visited
    <2> QED BY <1>1, <1>4, <2>1, NothingFacts DEF Local, Shape, Holds, Knows, Skips
  <1>6. ASSUME NEW p \in Requests \ {q} PROVE Alone(p, q)' /\ Alone(q, p)'
    BY <1>4 DEF Alone
  <1>7. pc'[q] = "refused" => solo'[q] # Scope(q)'
    BY <1>1 DEF Scope
  <1> QED BY <1>1, <1>2, <1>3, <1>5, <1>6, <1>7, Combine

\* The sources of a request are in its scope.
LEMMA InScope ==
    ASSUME Typed, NEW q \in Requests, Shape(q), Open(q)
    PROVE  DOMAIN src[q] \subseteq Scope(q)
  <1>1. DOMAIN src[q] \subseteq Resources
    BY PartialFacts DEF Typed, Rows
  <1> QED BY <1>1 DEF Shape, Scope

\* uq_node_inventory_id, uq_relationship_edge and the deadlock detection refuse
\* only requests that were not alone.
LEMMA NodeConflictStep ==
    ASSUME GInv, NEW q \in Requests, NodeConflict(q)
    PROVE  GInv'
  <1>0. Typed /\ Local(q) /\ Open(q) /\ faults' \in 0..MaxFaults
    BY DEF GInv, NodeConflict, Open, Typed
  <1>1. solo[q] # Scope(q)
    <2> SUFFICES ASSUME solo[q] = Scope(q) PROVE FALSE
      OBVIOUS
    <2>1. pc[q] = "flushing" /\ found[q] = {} /\ target[q] \subseteq DOMAIN node
      BY DEF NodeConflict, Taken
    <2>2. PICK r \in Resources : target[q] = {r} /\ DOMAIN src[q] = {r}
      BY <1>0, <2>1 DEF Local, Shape
    <2>3. r \in solo[q] \cap DOMAIN src[q]
      BY <2>2 DEF Scope
    <2> QED BY <1>0, <2>1, <2>2, <2>3 DEF Local, Knows
  <1> QED BY <1>0, <1>1, FailStep DEF NodeConflict

LEMMA EdgeConflictStep ==
    ASSUME GInv, NEW q \in Requests, EdgeConflict(q)
    PROVE  GInv'
  <1>0. Typed /\ Local(q) /\ Open(q) /\ faults' \in 0..MaxFaults
    BY DEF GInv, EdgeConflict, Flushing, Open, Typed
  <1>1. solo[q] # Scope(q)
    <2> SUFFICES ASSUME solo[q] = Scope(q) PROVE FALSE
      OBVIOUS
    <2>1. PICK e \in DOMAIN edge : e \in kept[q] /\ e \notin DOMAIN current[q]
      BY DEF EdgeConflict, Inserts
    <2>2. e[1] \in Visited(q)
      BY <1>0, <2>1 DEF Local, Holds
    <2>3. e[1] \in solo[q] \cap DOMAIN src[q]
      BY <1>0, <2>2, InScope DEF Local, Visited
    <2> QED BY <1>0, <2>1, <2>2, <2>3 DEF Local, Knows
  <1> QED BY <1>0, <1>1, FailStep DEF EdgeConflict

LEMMA DeadlockVictimStep ==
    ASSUME GInv, NEW q \in Requests, DeadlockVictim(q)
    PROVE  GInv'
  <1>0. Typed /\ Local(q) /\ Open(q) /\ faults' \in 0..MaxFaults
    BY DEF GInv, DeadlockVictim, Flushing, Open, Typed
  <1>1. PICK p \in Requests \ {q} : Flushing(p) /\ \E d, e \in Inserts(p) \cap Inserts(q) : d # e
    BY DEF DeadlockVictim
  <1>2. PICK e \in kept[p] \cap kept[q] : TRUE
    BY <1>1 DEF Inserts
  <1>3. Local(p) /\ Open(p) /\ Alone(p, q)
    BY <1>1 DEF GInv, Flushing, Open
  <1>4. e[1] \in DOMAIN src[p] /\ e[1] \in DOMAIN src[q]
    BY <1>0, <1>2, <1>3 DEF Local, Holds, Visited
  <1>5. e[1] \in Scope(p) /\ e[1] \in Scope(q)
    BY <1>0, <1>3, <1>4, InScope DEF Local
  <1>6. solo[q] # Scope(q)
    BY <1>0, <1>3, <1>5 DEF Alone
  <1> QED BY <1>0, <1>6, FailStep DEF DeadlockVictim

LEMMA AbortStep ==
    ASSUME GInv, NEW q \in Requests, Abort(q)
    PROVE  GInv'
  <1>1. Open(q) /\ faults' \in 0..MaxFaults
    BY MaxFaultsAssumption DEF GInv, Typed, Abort
  <1> QED BY <1>1, FailStep DEF Abort

-----------------------------------------------------------------------------
(* It commits.                                                             *)

\* What a commit makes of the edges: those of other sources stay, and those of
\* a source that q is alone with become what its candidates give.
LEMMA CommitEdges ==
    ASSUME GInv, NEW q \in Requests, Commit(q)
    PROVE  /\ edge' \in Partial(Edges, BOOLEAN)
           /\ DOMAIN edge \subseteq DOMAIN edge' /\ kept[q] \subseteq DOMAIN edge'
           /\ \A e \in DOMAIN edge' \ DOMAIN edge : e \in kept[q]
           /\ \A e \in DOMAIN edge :
                 e[1] \notin DOMAIN src[q] => edge'[e] = edge[e]
           /\ \A e \in DOMAIN edge' :
                 e[1] \in solo[q] \cap DOMAIN src[q] => (edge'[e] <=> e \in kept[q])
  <1>0. Typed /\ Local(q)
    BY DEF GInv
  <1>1. /\ pc[q] = "walking" /\ todo[q] = {} /\ Open(q)
        /\ Inserts(q) \cap DOMAIN edge = {}
        /\ edge' = [e \in DOMAIN edge \cup Inserts(q) |-> Written(q, e)]
    BY DEF Commit, Flushing, Open
  <1>2. /\ DOMAIN edge \subseteq Edges /\ kept[q] \subseteq Edges
        /\ \A e \in DOMAIN edge : edge[e] \in BOOLEAN
    BY <1>0, PartialFacts DEF Typed
  <1>3. /\ \A e \in DOMAIN current[q] : e \in DOMAIN edge /\ e[1] \in DOMAIN src[q]
        /\ \A e \in kept[q] : e[1] \in DOMAIN src[q]
    BY <1>0 DEF Local, Holds, Visited
  <1>4. ASSUME NEW e \in DOMAIN edge \cup Inserts(q) PROVE Written(q, e) \in BOOLEAN
    <2>1. CASE e \in Inserts(q)
      BY <2>1 DEF Written
    <2>2. CASE e \notin Inserts(q)
      <3>1. edge[e] \in BOOLEAN /\ (e \in kept[q]) \in BOOLEAN
        BY <1>2, <1>4, <2>2
      <3> QED BY <2>2, <3>1, Zenon DEF Written
    <2> QED BY <2>1, <2>2
  <1>5. edge' \in Partial(Edges, BOOLEAN)
    <2>1. edge' \in [DOMAIN edge \cup Inserts(q) -> BOOLEAN]
      BY <1>1, <1>4
    <2>2. DOMAIN edge \cup Inserts(q) \in SUBSET Edges
      BY <1>2 DEF Inserts
    <2> QED BY <2>1, <2>2, PartialIntro
  <1>6. DOMAIN edge' = DOMAIN edge \cup Inserts(q)
        /\ \A e \in DOMAIN edge' : edge'[e] = Written(q, e)
    BY <1>1
  <1>7. kept[q] \subseteq DOMAIN edge'
    BY <1>3, <1>6 DEF Inserts
  <1>8. ASSUME NEW e \in DOMAIN edge, e[1] \notin DOMAIN src[q] PROVE edge'[e] = edge[e]
    BY <1>3, <1>6, <1>8 DEF Written, Inserts
  <1>9. ASSUME NEW e \in DOMAIN edge', e[1] \in solo[q] \cap DOMAIN src[q]
        PROVE  edge'[e] <=> e \in kept[q]
    <2>1. CASE e \in Inserts(q)
      BY <1>6, <2>1 DEF Written, Inserts
    <2>2. CASE e \in DOMAIN edge
      <3>1. e[1] \in Visited(q)
        BY <1>1, <1>9 DEF Visited
      <3>2. e \in DOMAIN current[q] /\ current[q][e] = edge[e]
        BY <1>0, <1>1, <1>9, <2>2, <3>1 DEF Local, Knows
      <3>3. e \notin Inserts(q)
        BY <1>1, <2>2
      <3>4. edge'[e] = (IF current[q][e] # (e \in kept[q]) THEN e \in kept[q] ELSE edge[e])
        BY <1>6, <3>2, <3>3 DEF Written
      <3>5. edge[e] \in BOOLEAN /\ (e \in kept[q]) \in BOOLEAN
        BY <1>2, <2>2
      <3> QED BY <3>2, <3>4, <3>5
    <2> QED BY <1>6, <2>1, <2>2
  <1>10. \A e \in DOMAIN edge' \ DOMAIN edge : e \in kept[q]
    BY <1>6 DEF Inserts
  <1> QED BY <1>5, <1>6, <1>7, <1>8, <1>9, <1>10

\* What it makes of the nodes.
LEMMA CommitNodes ==
    ASSUME GInv, NEW q \in Requests, Commit(q)
    PROVE  /\ node' \in Rows
           /\ DOMAIN node' = DOMAIN node \cup DOMAIN src[q]
           /\ \A r \in DOMAIN node \ DOMAIN src[q] : node'[r] = node[r]
           /\ \A s \in solo[q] \cap DOMAIN src[q] : node'[s] = src[q][s]
           /\ \A r \in DOMAIN node' \ DOMAIN node : DOMAIN src[q] = {r}
  <1>0. Typed /\ Local(q)
    BY DEF GInv
  <1>1. pc[q] = "walking" /\ Open(q)
    BY DEF Commit, Flushing, Open
  <1>2. CASE ~wrote[q]
    <2>1. node' = node /\ DOMAIN src[q] \subseteq DOMAIN node
      BY <1>0, <1>1, <1>2 DEF Commit, Local, Shape
    <2>2. \A s \in solo[q] \cap DOMAIN src[q] : node[s] = src[q][s]
      BY <1>0, <1>1, <1>2 DEF Local, Knows
    <2> QED BY <1>0, <2>1, <2>2 DEF Typed
  <1>3. CASE wrote[q]
    <2>1. PICK r \in Resources : target[q] = {r} /\ DOMAIN src[q] = {r}
      BY <1>0, <1>1, <1>3 DEF Local, Shape
    <2>2. node' = [x \in DOMAIN node \cup {r} |-> IF x = r THEN src[q][x] ELSE node[x]]
      BY <1>3, <2>1 DEF Commit
    <2>3. /\ DOMAIN node \subseteq Resources /\ \A x \in DOMAIN node : node[x] \in Versions
          /\ src[q][r] \in Versions
      BY <1>0, <2>1, PartialFacts DEF Typed, Rows
    <2>4. node' \in Rows
      <3>1. node' \in [DOMAIN node \cup {r} -> Versions]
        BY <2>2, <2>3
      <3>2. DOMAIN node \cup {r} \in SUBSET Resources
        BY <2>3
      <3> QED BY <3>1, <3>2, PartialIntro DEF Rows
    <2> QED BY <2>1, <2>2, <2>4
  <1> QED BY <1>2, <1>3

\* The others are not disturbed.
LEMMA CommitOthers ==
    ASSUME GInv, NEW q \in Requests, Commit(q), NEW p \in Requests \ {q}
    PROVE  Local(p)'
  <1>0. Typed /\ Local(p) /\ Local(q) /\ Alone(q, p)
    BY DEF GInv
  <1>1. /\ pc'[p] = pc[p] /\ target'[p] = target[p] /\ found'[p] = found[p]
        /\ wrote'[p] = wrote[p] /\ src'[p] = src[p] /\ todo'[p] = todo[p]
        /\ left'[p] = left[p] /\ current'[p] = current[p] /\ kept'[p] = kept[p]
        /\ solo'[p] = solo[p]
        /\ since'[p] = (IF Open(p) THEN since[p] \cup (DOMAIN node' \ DOMAIN node) ELSE {})
    BY <1>0 DEF Commit, End, Typed
  <1>2. Visited(p)' = Visited(p) /\ (Open(p)' <=> Open(p))
    BY <1>1 DEF Visited, Open
  <1>3. DOMAIN node \subseteq DOMAIN node' /\ DOMAIN edge \subseteq DOMAIN edge'
    BY CommitNodes, CommitEdges
  <1>4. Shape(p)'
    BY <1>0, <1>1, <1>2, <1>3 DEF Local, Shape
  <1>5. Holds(p)'
    BY <1>0, <1>1, <1>2, <1>3 DEF Local, Holds
  <1>6. ASSUME Open(p), NEW s \in solo[p] \cap DOMAIN src[p]
        PROVE  /\ s \in DOMAIN node' <=> s \in DOMAIN node
               /\ s \in DOMAIN node => node'[s] = node[s]
               /\ \A e \in DOMAIN edge' : e[1] = s => e \in DOMAIN edge /\ edge'[e] = edge[e]
    <2>1. Open(q)
      BY DEF Commit, Flushing, Open
    <2>2. s \notin Scope(q)
      BY <1>0, <1>6, <2>1 DEF Alone
    <2>3. s \notin DOMAIN src[q]
      BY <1>0, <2>1, <2>2, InScope DEF Local
    <2>4. \A e \in kept[q] : e[1] \in DOMAIN src[q]
      BY <1>0 DEF Local, Holds, Visited
    <2>5. (s \in DOMAIN node' <=> s \in DOMAIN node) /\ (s \in DOMAIN node => node'[s] = node[s])
      BY <2>3, CommitNodes
    <2>6. ASSUME NEW e \in DOMAIN edge', e[1] = s PROVE e \in DOMAIN edge /\ edge'[e] = edge[e]
      <3>1. /\ \A f \in DOMAIN edge' \ DOMAIN edge : f \in kept[q]
            /\ \A f \in DOMAIN edge : f[1] \notin DOMAIN src[q] => edge'[f] = edge[f]
        BY CommitEdges
      <3>2. e[1] \notin DOMAIN src[q]
        BY <2>3, <2>6
      <3>3. e \in DOMAIN edge
        BY <2>4, <3>1, <3>2
      <3> QED BY <3>1, <3>2, <3>3
    <2> QED BY <2>5, <2>6
  <1>7. Knows(p)'
    <2> SUFFICES ASSUME Open(p), NEW s \in solo[p] \cap DOMAIN src[p]
                 PROVE  /\ pc[p] = "flushing" =>
                              found[p] = IF s \in DOMAIN node' THEN {node'[s]} ELSE {}
                        /\ pc[p] = "walking" /\ ~wrote[p] =>
                              s \in DOMAIN node' /\ node'[s] = src[p][s]
                        /\ s \in Visited(p) => \A e \in DOMAIN edge' : e[1] = s =>
                              e \in DOMAIN current[p] /\ current[p][e] = edge'[e]
      BY <1>1, <1>2 DEF Knows
    <2>1. /\ s \in DOMAIN node' <=> s \in DOMAIN node
          /\ s \in DOMAIN node => node'[s] = node[s]
          /\ \A e \in DOMAIN edge' : e[1] = s => e \in DOMAIN edge /\ edge'[e] = edge[e]
      BY <1>6
    <2>2. /\ pc[p] = "flushing" => found[p] = IF s \in DOMAIN node THEN {node[s]} ELSE {}
          /\ pc[p] = "walking" /\ ~wrote[p] => s \in DOMAIN node /\ node[s] = src[p][s]
          /\ s \in Visited(p) => \A e \in DOMAIN edge : e[1] = s =>
                e \in DOMAIN current[p] /\ current[p][e] = edge[e]
      BY <1>0 DEF Local, Knows
    <2> QED BY <2>1, <2>2
  <1>8. Skips(p)'
    <2>1. Visited(p) # {} => Open(p)
      BY <1>0, NothingFacts DEF Local, Shape, Visited
    <2> QED BY <1>0, <1>1, <1>2, <2>1 DEF Local, Skips
  <1> QED BY <1>4, <1>5, <1>7, <1>8 DEF Local

\* The edges of a source that q was alone with are right, but for nodes that
\* came while q was under way; those of other sources wait for the new nodes.
LEMMA CommitStale ==
    ASSUME GInv, NEW q \in Requests, Commit(q)
    PROVE  StaleNeedsOverlap'
  <1>0. Typed /\ Local(q) /\ StaleNeedsOverlap
    BY DEF GInv
  <1>1. /\ mixed' = (mixed \ DOMAIN src[q]) \cup (DOMAIN src[q] \ solo[q])
        /\ late' = [s \in Resources |-> IF s \in DOMAIN src[q] THEN since[q]
                                        ELSE late[s] \cup (DOMAIN node' \ DOMAIN node)]
        /\ todo[q] = {} /\ left[q] = {}
    BY DEF Commit, Flushing
  <1>2. DOMAIN node' \subseteq Resources
    BY CommitNodes, PartialFacts DEF Rows
  <1> SUFFICES ASSUME NEW s \in DOMAIN node' \ mixed'
               PROVE  /\ Active(s)' \subseteq Implied(s)'
                      /\ \A e \in Implied(s)' \ Active(s)' : e[2] \in late'[s]
    BY DEF StaleNeedsOverlap
  <1>3. Active(s)' = {e \in DOMAIN edge' : e[1] = s /\ edge'[e]}
    BY DEF Active
  <1>4. Implied(s)' = {e \in ({s} \X Refs[s][node'[s]]) : e[2] \in DOMAIN node' /\ e[1] # e[2]}
    BY DEF Implied
  <1>5. CASE s \in DOMAIN src[q]
    <2>1. s \in solo[q] \cap DOMAIN src[q] /\ late'[s] = since[q]
      BY <1>1, <1>2, <1>5
    <2>2. node'[s] = src[q][s] /\ DOMAIN node \subseteq DOMAIN node'
      BY <2>1, CommitNodes
    <2>3. Active(s)' = {e \in kept[q] : e[1] = s}
      BY <1>3, <2>1, CommitEdges
    <2>4. ASSUME NEW e \in kept[q], e[1] = s PROVE e \in Implied(s)'
      <3>1. e[2] \in Refs[s][src[q][s]] /\ e[1] # e[2] /\ e[2] \in DOMAIN node
        BY <1>0, <2>4 DEF Local, Holds
      <3>2. e \in Edges
        BY <1>0 DEF Typed
      <3>3. e = <<s, e[2]>>
        BY <2>4, <3>2 DEF Edges
      <3> QED BY <1>4, <2>2, <3>1, <3>3
    <2>5. ASSUME NEW e \in Implied(s)', e \notin Active(s)' PROVE e[2] \in since[q]
      <3>1. /\ e = <<s, e[2]>> /\ e[2] \in Refs[s][src[q][s]]
            /\ e[2] \in DOMAIN node' /\ e[1] = s /\ e[2] # s
        BY <1>4, <2>2, <2>5
      <3>2. e \notin kept[q]
        BY <2>3, <2>5, <3>1
      <3>3. e[2] \in DOMAIN node
        <4>1. e[2] \notin DOMAIN node => DOMAIN src[q] = {e[2]}
          BY <3>1, CommitNodes
        <4> QED BY <1>5, <3>1, <4>1
      <3>4. s \in Visited(q)
        BY <1>1, <1>5 DEF Visited
      <3> QED BY <1>0, <1>1, <3>1, <3>2, <3>3, <3>4 DEF Local, Skips
    <2> QED BY <2>1, <2>3, <2>4, <2>5
  <1>6. CASE s \notin DOMAIN src[q]
    <2>1. s \in DOMAIN node \ mixed /\ node'[s] = node[s]
      BY <1>1, <1>6, CommitNodes
    <2>2. late'[s] = late[s] \cup (DOMAIN node' \ DOMAIN node)
      BY <1>1, <1>2, <1>6
    <2>3. \A e \in kept[q] : e[1] \in DOMAIN src[q]
      BY <1>0 DEF Local, Holds, Visited
    <2>4. Active(s)' = Active(s)
      BY <1>3, <1>6, <2>3, CommitEdges DEF Active
    <2>5. Implied(s) \subseteq Implied(s)'
      BY <1>4, <2>1, CommitNodes DEF Implied
    <2>6. \A e \in Implied(s)' \ Implied(s) : e[2] \in DOMAIN node' \ DOMAIN node
      BY <1>4, <2>1 DEF Implied
    <2> QED BY <1>0, <2>1, <2>2, <2>4, <2>5, <2>6 DEF StaleNeedsOverlap
  <1> QED BY <1>5, <1>6

LEMMA CommitStep ==
    ASSUME GInv, NEW q \in Requests, Commit(q)
    PROVE  GInv'
  <1>0. Typed /\ Local(q)
    BY DEF GInv
  <1>1. /\ pc'[q] = "ok" /\ wrote'[q] = FALSE /\ src'[q] = Nothing
        /\ todo'[q] = {} /\ left'[q] = {} /\ current'[q] = Nothing /\ kept'[q] = {}
        /\ target' = target /\ solo' = solo /\ faults' = faults
    BY <1>0 DEF Commit, End, Typed
  <1>2. ASSUME NEW p \in Requests \ {q} PROVE pc'[p] = pc[p]
    BY <1>0 DEF Commit, End, Typed
  <1>3. Typed'
    <2>1. Nothing \in Rows /\ Nothing \in Partial(Edges, BOOLEAN)
      BY NothingFacts DEF Rows
    <2>2. src' \in [Requests -> Rows] /\ current' \in [Requests -> Partial(Edges, BOOLEAN)]
      BY <1>0, <2>1 DEF Commit, End, Typed
    <2>3. /\ pc' \in [Requests -> {"new", "flushing", "walking", "ok", "refused", "aborted"}]
          /\ found' \in [Requests -> SUBSET Versions] /\ wrote' \in [Requests -> BOOLEAN]
          /\ todo' \in [Requests -> SUBSET Resources]
          /\ left' \in [Requests -> SUBSET Edges] /\ kept' \in [Requests -> SUBSET Edges]
      BY <1>0 DEF Commit, End, Typed
    <2>4. DOMAIN node' \subseteq Resources
      BY CommitNodes, PartialFacts DEF Rows
    <2>5. since' \in [Requests -> SUBSET Resources] /\ late' \in [Resources -> SUBSET Resources]
      <3>1. since' = [p \in Requests |-> IF p # q /\ Open(p)
                         THEN since[p] \cup (DOMAIN node' \ DOMAIN node) ELSE {}]
        BY DEF Commit
      <3>2. late' = [s \in Resources |-> IF s \in DOMAIN src[q] THEN since[q]
                                        ELSE late[s] \cup (DOMAIN node' \ DOMAIN node)]
        BY DEF Commit
      <3> QED BY <1>0, <2>4, <3>1, <3>2 DEF Typed
    <2>6. node' \in Rows /\ edge' \in Partial(Edges, BOOLEAN)
      BY CommitNodes, CommitEdges
    <2> QED BY <1>0, <1>1, <2>2, <2>3, <2>5, <2>6 DEF Typed
  <1>4. Anchored'
    <2>1. ASSUME NEW e \in kept[q] PROVE e[1] \in DOMAIN node' /\ e[2] \in DOMAIN node'
      <3>1. e[1] \in DOMAIN src[q] /\ e[2] \in DOMAIN node
        BY <1>0 DEF Local, Holds, Visited
      <3> QED BY <3>1, CommitNodes
    <2>2. ASSUME NEW e \in DOMAIN edge PROVE e[1] \in DOMAIN node' /\ e[2] \in DOMAIN node'
      BY CommitNodes DEF GInv, Anchored
    <2> QED BY <2>1, <2>2, CommitEdges DEF Anchored
  <1>5. ~Open(q)'
    BY <1>1 DEF Open
  <1>6. Local(q)'
    <2>1. Visited(q)' = {}
      BY <1>1, NothingFacts DEF Visited
    <2> QED BY <1>1, <1>5, <2>1, NothingFacts DEF Local, Shape, Holds, Knows, Skips
  <1>7. \A p \in Requests : Local(p)'
    BY <1>6, CommitOthers
  <1>8. ASSUME NEW p \in Requests, NEW r \in Requests, p # r PROVE Alone(p, r)'
    <2>1. CASE p = q \/ r = q
      BY <1>5, <2>1 DEF Alone
    <2>2. CASE p # q /\ r # q
      <3>1. Alone(p, r)
        BY <1>8 DEF GInv
      <3>2. (Open(p)' <=> Open(p)) /\ (Open(r)' <=> Open(r)) /\ Scope(p)' = Scope(p)
        BY <1>1, <1>2, <2>2 DEF Open, Scope
      <3> QED BY <1>1, <3>1, <3>2 DEF Alone
    <2> QED BY <2>1, <2>2
  <1>9. RefusedNeedsOverlap'
    <2> SUFFICES ASSUME NEW p \in Requests, pc'[p] = "refused" PROVE solo[p] # Scope(p)
      BY <1>1 DEF RefusedNeedsOverlap, Scope
    <2> QED BY <1>1, <1>2 DEF GInv, RefusedNeedsOverlap
  <1> QED BY <1>3, <1>4, <1>7, <1>8, <1>9, CommitStale DEF GInv

-----------------------------------------------------------------------------
(* Theorems.                                                               *)

LEMMA GInvInit == Init => GInv
  <1> SUFFICES ASSUME Init PROVE GInv
    OBVIOUS
  <1>1. Nothing \in Rows /\ Nothing \in Partial(Edges, BOOLEAN)
    BY NothingFacts DEF Rows
  <1>2. src \in [Requests -> Rows] /\ current \in [Requests -> Partial(Edges, BOOLEAN)]
    BY <1>1 DEF Init
  <1>3. faults \in 0..MaxFaults
    BY MaxFaultsAssumption DEF Init
  <1>4. Typed
    BY <1>1, <1>2, <1>3 DEF Init, Typed
  <1>5. DOMAIN node = {} /\ DOMAIN edge = {}
    BY NothingFacts DEF Init
  <1>6. ASSUME NEW q \in Requests PROVE Local(q) /\ ~Open(q) /\ pc[q] # "refused"
    <2>1. /\ pc[q] = "new" /\ target[q] = {} /\ ~wrote[q] /\ src[q] = Nothing /\ todo[q] = {}
          /\ left[q] = {} /\ current[q] = Nothing /\ kept[q] = {}
      BY DEF Init
    <2>2. ~Open(q) /\ Visited(q) = {}
      BY <2>1, NothingFacts DEF Open, Visited
    <2> QED BY <2>1, <2>2, NothingFacts DEF Local, Shape, Holds, Knows, Skips
  <1> QED BY <1>4, <1>5, <1>6
          DEF GInv, Anchored, Alone, StaleNeedsOverlap, RefusedNeedsOverlap

LEMMA GInvNext == GInv /\ [Next]_vars => GInv'
  <1> SUFFICES ASSUME GInv, [Next]_vars PROVE GInv'
    OBVIOUS
  <1>1. ASSUME NEW q \in Requests, Begin(q) PROVE GInv'
    BY <1>1, ListNodesStep, SelectNodeStep DEF Begin
  <1>2. ASSUME NEW q \in Requests, Handle(q) PROVE GInv'
    BY <1>2, FlushNodeStep, CommitStep, NodeConflictStep, EdgeConflictStep,
       DeadlockVictimStep, ReadEdgesStep, FindTargetStep DEF Handle
  <1>3. ASSUME UNCHANGED vars PROVE GInv'
    <2>1. /\ node' = node /\ edge' = edge /\ pc' = pc /\ target' = target /\ found' = found
          /\ wrote' = wrote /\ src' = src /\ todo' = todo /\ left' = left
          /\ current' = current /\ kept' = kept /\ faults' = faults /\ solo' = solo
          /\ since' = since /\ mixed' = mixed /\ late' = late
      BY <1>3 DEF vars, graphVars, localVars, historyVars
    <2>2. Typed' /\ Anchored'
      BY <2>1 DEF GInv, Typed, Anchored
    <2>3. \A q \in Requests : Local(q)'
      BY <2>1, LocalKept DEF GInv, Same
    <2>4. \A p, q \in Requests : p # q => Alone(p, q)'
      BY <2>1 DEF GInv, Alone, Open, Scope
    <2>5. RefusedNeedsOverlap'
      BY <2>1 DEF GInv, RefusedNeedsOverlap, Scope
    <2> QED BY <2>1, <2>2, <2>3, <2>4, <2>5, StaleKept DEF GInv
  <1> QED BY <1>1, <1>2, <1>3, AbortStep DEF Next

\* The tables are well formed whatever requests overlap and fail: an edge never
\* stands without the nodes at its ends, although rebuild_edges looks the
\* target up in one statement and the commit inserts the edge much later.
THEOREM ProjectionTyped == Spec => []TypeOK
  <1>1. GInv => TypeOK
    BY TypedImplies DEF GInv
  <1> QED BY <1>1, GInvInit, GInvNext, PTL DEF Spec

\* A projection or rebuild that no other request for the same sources overlaps
\* never meets uq_node_inventory_id, uq_relationship_edge or a deadlock.
THEOREM RefusedTheorem == Spec => []RefusedNeedsOverlap
  <1>1. GInv => RefusedNeedsOverlap
    BY DEF GInv
  <1> QED BY <1>1, GInvInit, GInvNext, PTL DEF Spec

\* Where the graph differs from what the properties imply, requests for the
\* same source overlapped, or a node came after its last visitor began.
THEOREM StaleTheorem == Spec => []StaleNeedsOverlap
  <1>1. GInv => StaleNeedsOverlap
    BY DEF GInv
  <1> QED BY <1>1, GInvInit, GInvNext, PTL DEF Spec

=============================================================================
