--------------------------- MODULE GraphTraversal ---------------------------
(***************************************************************************)
(* RelationshipService.graph: breadth-first search from a root resource,   *)
(* one query per level, bounded in depth and in nodes.                     *)
(*                                                                         *)
(* The queries of one search are separate statements at READ COMMITTED:    *)
(* a projection may commit between two levels and change the edges.  The   *)
(* rows of a query come in no particular order, which matters because the  *)
(* loop breaks off when the node bound is reached.                         *)
(***************************************************************************)
EXTENDS Integers, FiniteSets

CONSTANTS
    Nodes, Root,
    Unwanted,      \* edges of types that a query's relationship_types rule out
    Queries,       \* the GraphQuery objects to try
    MaxChanges     \* edges that appear or vanish during a search (bound)

ASSUME NodesAssumption == IsFiniteSet(Nodes) /\ Root \in Nodes
ASSUME QueriesAssumption ==
    Queries \subseteq [direction : {"downstream", "upstream", "both"},
                       max_depth : Nat \ {0}, max_nodes : Nat \ {0}]
ASSUME MaxChangesAssumption == MaxChanges \in Nat

\* The ends of an edge: never a resource and itself (relationship_no_self_loop).
\* Edges of several types between two resources are one edge here.
Pairs == {e \in Nodes \X Nodes : e[1] # e[2]}

VARIABLES
    query,       \* the request
    edges,       \* active edges in the database
    changes,
    pc,          \* "query", "level" or "done"
    depth,       \* levels searched
    frontier, visited, next,
    result,      \* rows of the current query, not yet looked at
    found,       \* edges_by_id
    truncated

searchVars == <<pc, depth, frontier, visited, next, result, found, truncated>>
vars == <<query, edges, changes, searchVars>>

TypeOK ==
    /\ query \in Queries
    /\ edges \subseteq Pairs /\ result \subseteq Pairs /\ found \subseteq Pairs
    /\ frontier \subseteq Nodes /\ visited \subseteq Nodes /\ next \subseteq Nodes
    /\ pc \in {"query", "level", "done"}
    /\ depth \in 0..query.max_depth
    /\ truncated \in BOOLEAN
    /\ changes \in 0..MaxChanges

Init ==
    /\ query \in Queries
    /\ edges \in SUBSET Pairs
    /\ changes = 0
    /\ pc = "query" /\ depth = 0
    /\ frontier = {Root} /\ visited = {Root} /\ next = {}
    /\ result = {} /\ found = {} /\ truncated = FALSE

-----------------------------------------------------------------------------
\* A projection or a rebuild commits.
EdgeChanges(e) ==
    /\ changes < MaxChanges
    /\ pc # "done"
    /\ changes' = changes + 1
    /\ edges' = IF e \in edges THEN edges \ {e} ELSE edges \cup {e}
    /\ UNCHANGED <<query, searchVars>>

\* The edges of E that leave S in direction d.
Leaving(d, S, E) ==
    {e \in E : \/ d # "upstream" /\ e[1] \in S
               \/ d # "downstream" /\ e[2] \in S}

\* edges_for_frontier
QueryLevel ==
    /\ pc = "query"
    /\ pc' = "level"
    /\ depth' = depth + 1
    /\ next' = {}
    /\ result' = Leaving(query.direction, frontier, edges)
    /\ UNCHANGED <<query, edges, changes, frontier, visited, found, truncated>>

\* Mutant: the type is looked at after the nodes were taken over.
SkipLate(e) ==
    /\ pc = "level" /\ ~truncated
    /\ e \in result \cap Unwanted
    /\ result' = result \ {e}
    /\ next' = next \cup {e[1], e[2]}
    /\ UNCHANGED <<query, edges, changes, pc, depth, frontier, visited, found, truncated>>

\* An edge of another type is skipped.
Skip(e) ==
    /\ pc = "level" /\ ~truncated
    /\ e \in result \cap Unwanted
    /\ result' = result \ {e}
    /\ UNCHANGED <<query, edges, changes, pc, depth, frontier, visited, next, found, truncated>>

\* Mutant: the bound looks at the nodes of earlier levels only.
VisitLevelBound(e) ==
    /\ pc = "level" /\ ~truncated
    /\ e \in result \ Unwanted
    /\ result' = result \ {e}
    /\ found' = found \cup {e}
    /\ next' = next \cup {e[1], e[2]}
    /\ truncated' = (Cardinality(visited) >= query.max_nodes)
    /\ UNCHANGED <<query, edges, changes, pc, depth, frontier, visited>>

\* Mutant: off by one at the bound.
VisitOneMore(e) ==
    /\ pc = "level" /\ ~truncated
    /\ e \in result \ Unwanted
    /\ result' = result \ {e}
    /\ found' = found \cup {e}
    /\ next' = next \cup {e[1], e[2]}
    /\ truncated' = (Cardinality(visited \cup next') > query.max_nodes)
    /\ UNCHANGED <<query, edges, changes, pc, depth, frontier, visited>>

\* One edge of the level; the loop breaks when the node bound is reached.
Visit(e) ==
    /\ pc = "level" /\ ~truncated
    /\ e \in result \ Unwanted
    /\ result' = result \ {e}
    /\ found' = found \cup {e}
    /\ next' = next \cup {e[1], e[2]}
    /\ truncated' = (Cardinality(visited \cup next') >= query.max_nodes)
    /\ UNCHANGED <<query, edges, changes, pc, depth, frontier, visited>>

\* Mutant: the nodes of earlier levels are forgotten.
EndLevelForgets ==
    /\ pc = "level"
    /\ truncated \/ result = {}
    /\ visited' = next
    /\ frontier' = next \ visited
    /\ pc' = IF truncated \/ frontier' = {} \/ depth = query.max_depth THEN "done" ELSE "query"
    /\ UNCHANGED <<query, edges, changes, depth, next, result, found, truncated>>

\* The rest of the loop body and the loop condition.
EndLevel ==
    /\ pc = "level"
    /\ truncated \/ result = {}
    /\ visited' = visited \cup next
    /\ frontier' = next \ visited
    /\ pc' = IF truncated \/ frontier' = {} \/ depth = query.max_depth THEN "done" ELSE "query"
    /\ UNCHANGED <<query, edges, changes, depth, next, result, found, truncated>>

Search == QueryLevel \/ EndLevel \/ \E e \in Pairs : Skip(e) \/ Visit(e)

Next == Search \/ \E e \in Pairs : EdgeChanges(e)

Spec == Init /\ [][Next]_vars

\* The edges of the response: both ends are in it.
Answer == {e \in found : e[1] \in visited /\ e[2] \in visited}

-----------------------------------------------------------------------------
(* Properties.                                                             *)

Ends(E) == UNION {{e[1], e[2]} : e \in E}

\* S with the ends of the edges that leave it.
Around(d, S, E) == S \cup Ends(Leaving(d, S, E))

\* Reference: the nodes at most n edges away from the root, in graph E.
Ball(d, E, n) ==
    LET ball[i \in 0..n] == IF i = 0 THEN {Root} ELSE Around(d, ball[i - 1], E)
    IN  ball[n]

\* If nothing changes during the search and the bound is not reached, the
\* response is exactly the part of the graph within max_depth.
ExactWhenComplete ==
    pc = "done" /\ changes = 0 /\ ~truncated =>
        LET graph == edges \ Unwanted
            inner == Ball(query.direction, graph, query.max_depth - 1)
        IN  /\ visited = Ball(query.direction, graph, query.max_depth)
            /\ Answer = Leaving(query.direction, inner, graph)

\* Whatever changes or is cut off, the response is one connected piece around
\* the root, no node of it farther away than max_depth.
Connected == pc = "done" => visited = Ball(query.direction, Answer, query.max_depth)

\* A response says it was cut off exactly when the search reached the node
\* bound, so one that does not say so lost nothing to the bound.
TruncatedMeansFull ==
    pc = "done" => (truncated <=> Cardinality(visited) >= query.max_nodes /\ found # {})

\* The node bound, which the first edge alone may exceed by one.
NodeBound == Cardinality(visited \cup next) <= (IF query.max_nodes = 1 THEN 2 ELSE query.max_nodes)
=============================================================================
