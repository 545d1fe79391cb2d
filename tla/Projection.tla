----------------------------- MODULE Projection -----------------------------
(***************************************************************************)
(* The two internal requests of the relationship service that write the    *)
(* graph: project_resource (upsert_node, then rebuild_edges of that node)  *)
(* and rebuild_relationships (rebuild_edges of every node), statement by   *)
(* statement.  The sync workers send them one after the other, but a       *)
(* worker that gave up after its ten seconds, or a second worker, sends    *)
(* the next while the service still runs the first.                        *)
(*                                                                         *)
(* PostgreSQL runs at READ COMMITTED and the session flushes only when     *)
(* told to (autoflush=False): upsert_node flushes its row, which stays     *)
(* locked until the end; the edges are written by the commit.  SQLAlchemy  *)
(* writes only the columns whose value differs from the one it read.       *)
(*                                                                         *)
(* A node is the version of its properties.  There is one extractor and    *)
(* one relationship type, so source and target identify an edge.           *)
(***************************************************************************)
EXTENDS Integers, FiniteSets

CONSTANTS
    Resources,
    Versions,       \* versions of the properties of a resource
    Refs,           \* Refs[r][v]: resources that version v of r's properties names
    NumRequests,    \* requests ever sent (bound)
    MaxOpen,        \* requests under way at the same time (bound)
    MaxFaults       \* transactions that fail for other reasons (bound)

ASSUME RefsAssumption == Refs \in [Resources -> [Versions -> SUBSET Resources]]
ASSUME NumRequestsAssumption == NumRequests \in Nat
ASSUME MaxOpenAssumption == MaxOpen \in Nat
ASSUME MaxFaultsAssumption == MaxFaults \in Nat

Requests == 1..NumRequests     \* in the order of their arrival
Edges == Resources \X Resources

VARIABLES
    node,      \* committed rows of resource_nodes, a function on these
    edge,      \* committed rows of relationships: is_active, a function on these
    pc,        \* pc[q]: how far request q is
    target,    \* target[q]: the one resource it projects, {} for a rebuild
    found,     \* found[q]: what its select of the node found, if anything
    wrote,     \* wrote[q]: it has flushed, and so locked, its node
    src,       \* src[q]: the nodes it visits, with the properties it extracts from
    todo,      \* todo[q]: nodes it has still to visit
    left,      \* left[q]: candidates of the current node still to be looked up
    current,   \* current[q]: edges it has read, is_active as it was then
    kept,      \* kept[q]: edges its candidates give
    faults,
    solo,      \* history, solo[q]: sources no request visited while q was open
    since,     \* history, since[q]: nodes inserted since q began
    mixed,     \* history: sources last written by requests that overlapped
    late       \* history, late[s]: nodes inserted since s's last visitor began

graphVars == <<node, edge>>
localVars == <<found, wrote, src, todo, left, current, kept>>
historyVars == <<solo, since, mixed, late>>
vars == <<graphVars, pc, target, localVars, faults, historyVars>>

Nothing == [x \in {} |-> 0]
Open(q) == pc[q] \in {"flushing", "walking"}

\* Types; and an edge, active or not, never stands without the nodes at its
\* ends, whichever part of a request failed.
TypeOK ==
    /\ \A e \in DOMAIN edge : {e[1], e[2]} \subseteq DOMAIN node
    /\ DOMAIN node \subseteq Resources /\ \A r \in DOMAIN node : node[r] \in Versions
    /\ DOMAIN edge \subseteq Edges /\ \A e \in DOMAIN edge : edge[e] \in BOOLEAN
    /\ pc \in [Requests -> {"new", "flushing", "walking", "ok", "refused", "aborted"}]
    /\ target \in [Requests -> SUBSET Resources]
    /\ found \in [Requests -> SUBSET Versions]
    /\ wrote \in [Requests -> BOOLEAN]
    /\ todo \in [Requests -> SUBSET Resources]
    /\ left \in [Requests -> SUBSET Edges] /\ kept \in [Requests -> SUBSET Edges]
    /\ \A q \in Requests : DOMAIN src[q] \subseteq Resources /\ DOMAIN current[q] \subseteq Edges
    /\ faults \in 0..MaxFaults

Init ==
    /\ node = Nothing /\ edge = Nothing
    /\ pc = [q \in Requests |-> "new"]
    /\ target = [q \in Requests |-> {}]
    /\ found = [q \in Requests |-> {}]
    /\ wrote = [q \in Requests |-> FALSE]
    /\ src = [q \in Requests |-> Nothing]
    /\ todo = [q \in Requests |-> {}]
    /\ left = [q \in Requests |-> {}]
    /\ current = [q \in Requests |-> Nothing]
    /\ kept = [q \in Requests |-> {}]
    /\ faults = 0
    /\ solo = [q \in Requests |-> {}]
    /\ since = [q \in Requests |-> {}]
    /\ mixed = {}
    /\ late = [r \in Resources |-> {}]

-----------------------------------------------------------------------------
(* Statements.                                                             *)

\* Sources that q may write edges of.
Scope(q) == IF target[q] = {} THEN Resources ELSE target[q]

\* Request q begins, for the sources in S.
Arrive(q, S) ==
    /\ pc[q] = "new"
    /\ \A p \in Requests : p < q => pc[p] # "new"
    /\ LET others == {p \in Requests : Open(p)}
       IN  /\ Cardinality(others) < MaxOpen
           /\ solo' = [p \in Requests |->
                 IF p = q THEN S \ UNION {Scope(o) : o \in others}
                 ELSE IF p \in others THEN solo[p] \ S ELSE solo[p]]
    /\ UNCHANGED <<graphVars, wrote, left, current, kept, faults, since, mixed, late>>

\* project_resource: upsert_node selects the node.  The event holds version v.
SelectNode(q, r, v) ==
    /\ Arrive(q, {r})
    /\ pc' = [pc EXCEPT ![q] = "flushing"]
    /\ target' = [target EXCEPT ![q] = {r}]
    /\ found' = [found EXCEPT ![q] = IF r \in DOMAIN node THEN {node[r]} ELSE {}]
    /\ src' = [src EXCEPT ![q] = [x \in {r} |-> v]]
    /\ todo' = [todo EXCEPT ![q] = {r}]

\* rebuild_relationships: list_nodes.
ListNodes(q) ==
    /\ Arrive(q, Resources)
    /\ pc' = [pc EXCEPT ![q] = "walking"]
    /\ src' = [src EXCEPT ![q] = node]
    /\ todo' = [todo EXCEPT ![q] = DOMAIN node]
    /\ UNCHANGED <<target, found>>

\* Another open transaction has written the node of q.
Locked(q) == \E p \in Requests \ {q} : wrote[p] /\ target[p] = target[q]

\* Somebody else inserted the node that q did not find.
Taken(q) == found[q] = {} /\ target[q] \subseteq DOMAIN node

\* upsert_node flushes: an insert, an update if the properties differ from
\* what the select found, else nothing, and then nothing is locked.
FlushNode(q) ==
    /\ pc[q] = "flushing"
    /\ LET writes == \A r \in target[q] : found[q] # {src[q][r]}
       IN  /\ writes => ~Locked(q) /\ ~Taken(q)
           /\ wrote' = [wrote EXCEPT ![q] = writes]
    /\ pc' = [pc EXCEPT ![q] = "walking"]
    /\ UNCHANGED <<graphVars, target, found, src, todo, left, current, kept, faults, historyVars>>

\* extract: what the properties of s name, once each.
Candidates(q, s) == {s} \X Refs[s][src[q][s]]

\* rebuild_edges selects the edges that leave s and extracts the candidates.
ReadEdges(q, s) ==
    /\ pc[q] = "walking"
    /\ left[q] = {}
    /\ s \in todo[q]
    /\ todo' = [todo EXCEPT ![q] = @ \ {s}]
    /\ current' = [current EXCEPT ![q] =
          [e \in DOMAIN current[q] \cup {x \in DOMAIN edge : x[1] = s} |->
              IF e[1] = s THEN edge[e] ELSE current[q][e]]]
    /\ left' = [left EXCEPT ![q] = Candidates(q, s)]
    /\ UNCHANGED <<graphVars, pc, target, found, wrote, src, kept, faults, historyVars>>

\* Mutant: a target need not be a node.
FindTargetUnchecked(q, e) ==
    /\ e \in left[q]
    /\ left' = [left EXCEPT ![q] = @ \ {e}]
    /\ kept' = [kept EXCEPT ![q] = @ \cup {e}]
    /\ UNCHANGED <<graphVars, pc, target, found, wrote, src, todo, current, faults, historyVars>>

\* It looks a candidate's target up; none, or the source itself, is skipped.
FindTarget(q, e) ==
    /\ e \in left[q]
    /\ left' = [left EXCEPT ![q] = @ \ {e}]
    /\ kept' = [kept EXCEPT ![q] = IF e[2] \in DOMAIN node /\ e[1] # e[2] THEN @ \cup {e} ELSE @]
    /\ UNCHANGED <<graphVars, pc, target, found, wrote, src, todo, current, faults, historyVars>>

-----------------------------------------------------------------------------
(* The end of a request.                                                   *)

\* q ends with the answer a; what it held is released.
End(q, a) ==
    /\ pc' = [pc EXCEPT ![q] = a]
    /\ found' = [found EXCEPT ![q] = {}]
    /\ wrote' = [wrote EXCEPT ![q] = FALSE]
    /\ src' = [src EXCEPT ![q] = Nothing]
    /\ todo' = [todo EXCEPT ![q] = {}]
    /\ left' = [left EXCEPT ![q] = {}]
    /\ current' = [current EXCEPT ![q] = Nothing]
    /\ kept' = [kept EXCEPT ![q] = {}]

\* Mutant: the edges that exist are not looked at.
InsertsAll(q) == kept[q]

\* The edges it adds to the session.
Inserts(q) == kept[q] \ DOMAIN current[q]
Flushing(q) == pc[q] = "walking" /\ todo[q] = {} /\ left[q] = {}

\* Mutant: the edges are not deactivated first.
WrittenKept(q, e) == e \in kept[q] \/ edge[e]

\* What the commit makes of edge e.  An edge that was deactivated and activated
\* again has the is_active that was read, and the update does not set it.
Written(q, e) ==
    IF e \in Inserts(q) THEN TRUE
    ELSE IF e \in DOMAIN current[q] /\ current[q][e] # (e \in kept[q]) THEN e \in kept[q]
    ELSE edge[e]

\* The commit flushes the edges.  Its row locks end with it, so it is one step.
Commit(q) ==
    /\ Flushing(q)
    /\ Inserts(q) \cap DOMAIN edge = {}
    /\ edge' = [e \in DOMAIN edge \cup Inserts(q) |-> Written(q, e)]
    /\ node' = IF wrote[q]
               THEN [r \in DOMAIN node \cup target[q] |->
                        IF r \in target[q] THEN src[q][r] ELSE node[r]]
               ELSE node
    /\ End(q, "ok")
    /\ LET new == DOMAIN node' \ DOMAIN node
       IN  /\ since' = [p \in Requests |-> IF p # q /\ Open(p) THEN since[p] \cup new ELSE {}]
           /\ late' = [s \in Resources |->
                 IF s \in DOMAIN src[q] THEN since[q] ELSE late[s] \cup new]
    /\ mixed' = (mixed \ DOMAIN src[q]) \cup (DOMAIN src[q] \ solo[q])
    /\ UNCHANGED <<target, faults, solo>>

\* The transaction rolls back: 500.
Fail(q, a) ==
    /\ End(q, a)
    /\ since' = [since EXCEPT ![q] = {}]
    /\ UNCHANGED <<graphVars, target, solo, mixed, late>>

\* Mutant: the flush is tried again and again.
NodeConflictRetried(q) ==
    /\ pc[q] = "flushing"
    /\ ~Locked(q) /\ Taken(q)
    /\ UNCHANGED vars

\* uq_node_inventory_id: somebody else inserted the node.
NodeConflict(q) ==
    /\ pc[q] = "flushing"
    /\ ~Locked(q) /\ Taken(q)
    /\ Fail(q, "refused")
    /\ UNCHANGED faults

\* uq_relationship_edge: somebody else inserted an edge.
EdgeConflict(q) ==
    /\ Flushing(q)
    /\ Inserts(q) \cap DOMAIN edge # {}
    /\ Fail(q, "refused")
    /\ UNCHANGED faults

\* Two commits insert the same edges, in the different orders in which they
\* came upon them, and wait for each other: PostgreSQL picks a victim.
DeadlockVictim(q) ==
    /\ Flushing(q)
    /\ \E p \in Requests \ {q} :
          Flushing(p) /\ \E d, e \in Inserts(p) \cap Inserts(q) : d # e
    /\ Fail(q, "refused")
    /\ UNCHANGED faults

\* The database or the process fails.
Abort(q) ==
    /\ Open(q)
    /\ faults < MaxFaults
    /\ faults' = faults + 1
    /\ Fail(q, "aborted")

-----------------------------------------------------------------------------
Begin(q) == ListNodes(q) \/ \E r \in Resources, v \in Versions : SelectNode(q, r, v)

Handle(q) ==
    \/ FlushNode(q) \/ Commit(q)
    \/ NodeConflict(q) \/ EdgeConflict(q) \/ DeadlockVictim(q)
    \/ \E s \in Resources : ReadEdges(q, s)
    \/ \E e \in Edges : FindTarget(q, e)

Next == \E q \in Requests : Begin(q) \/ Handle(q) \/ Abort(q)

Spec == Init /\ [][Next]_vars

\* The service goes on as long as some request that arrived can.
FairSpec == Spec /\ WF_vars(\E q \in Requests : Handle(q))

-----------------------------------------------------------------------------
(* Properties.                                                             *)

Active(s) == {e \in DOMAIN edge : e[1] = s /\ edge[e]}

\* The edges that the properties of s imply.
Implied(s) == {e \in ({s} \X Refs[s][node[s]]) : e[2] \in DOMAIN node /\ e[1] # e[2]}

\* The graph is wrong only where requests overlapped.  Of a source that was
\* last written by a request alone with it, no edge is active that its
\* properties do not imply, and none is missing but to a node that came after
\* that request began.  So requests for different resources may overlap, and
\* a rebuild that runs alone repairs everything.
StaleNeedsOverlap ==
    \A s \in DOMAIN node \ mixed :
        /\ Active(s) \subseteq Implied(s)
        /\ \A e \in Implied(s) \ Active(s) : e[2] \in late[s]

\* A request that was alone with its sources is never answered 500 by a
\* unique constraint or a deadlock.
RefusedNeedsOverlap == \A q \in Requests : pc[q] = "refused" => solo[q] # Scope(q)

\* Requests wait for each other's nodes, and none of them waits for ever.
RequestsAnswered == <>[](\A q \in Requests : ~Open(q))
=============================================================================
