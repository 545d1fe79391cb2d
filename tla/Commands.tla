------------------------------ MODULE Commands ------------------------------
(***************************************************************************)
(* The commands of the public API that create work: a sync job, an         *)
(* operation and a change assessment.  Each runs in one UnitOfWork: look   *)
(* for an entity under the same Idempotency-Key, insert one, add the audit *)
(* event to the outbox, commit.  Assessments take no key.                  *)
(*                                                                         *)
(* A request is one HTTP call; a client that retries makes another request *)
(* with the same key.  An entity is identified by the request that created *)
(* it.  Keys stand for (tenant_id, idempotency_key).                       *)
(*                                                                         *)
(* Names carry the module's so that it can be extended beside Outbox.      *)
(***************************************************************************)
EXTENDS Integers, FiniteSets

CONSTANTS
    Requests,
    Command,      \* Command[q] \in {"sync", "operation", "assessment"}
    Key,          \* Key[q]: the key, for an assessment the client's intent
    Valid,        \* requests that pass validation
    NoRequest,    \* no entity
    MaxFaults     \* transactions that fail for other reasons (bound)

ASSUME CommandsAssumption ==
    /\ Command \in [Requests -> {"sync", "operation", "assessment"}]
    /\ Valid \subseteq Requests
    /\ NoRequest \notin Requests
    /\ MaxFaults \in Nat

VARIABLES
    step,      \* step[q]: how far the transaction of q is
    entity,    \* entity[q]: the entity that q found or created
    rows,      \* committed entities
    events,    \* committed outbox records: <<request, entity>>
    faults

commandVars == <<step, entity, rows, events, faults>>

Steps == {"new", "selected", "inserted", "ok", "rejected", "error"}

CommandsTypeOK ==
    /\ step \in [Requests -> Steps]
    /\ entity \in [Requests -> Requests \cup {NoRequest}]
    /\ rows \subseteq Requests
    /\ events \subseteq Requests \X Requests
    /\ faults \in 0..MaxFaults

CommandsInit ==
    /\ step = [q \in Requests |-> "new"]
    /\ entity = [q \in Requests |-> NoRequest]
    /\ rows = {} /\ events = {} /\ faults = 0

\* uq_sync_job_idempotency, uq_operation_idempotency: p and q cannot both
\* have an entity.
Clash(p, q) ==
    /\ Command[p] = Command[q] /\ Key[p] = Key[q]
    /\ Command[q] # "assessment"

-----------------------------------------------------------------------------
\* 422: an unregistered subscription, an action that is not in the catalogue.
Reject(q) ==
    /\ step[q] = "new" /\ q \notin Valid
    /\ step' = [step EXCEPT ![q] = "rejected"]
    /\ UNCHANGED <<entity, rows, events, faults>>

\* select ... where idempotency_key = ...
Select(q) ==
    /\ step[q] = "new" /\ q \in Valid
    /\ LET existing == {p \in rows : Clash(p, q)}
       IN  entity' = [entity EXCEPT ![q] =
              IF existing = {} THEN NoRequest ELSE CHOOSE p \in existing : TRUE]
    /\ step' = [step EXCEPT ![q] = "selected"]
    /\ UNCHANGED <<rows, events, faults>>

\* Somebody else has flushed a row with q's key and not committed it.
InsertPending(q) == \E p \in Requests \ {q} : step[p] = "inserted" /\ Clash(p, q)

\* Mutant: no unique constraint.
InsertUnchecked(q) ==
    /\ step[q] = "selected" /\ entity[q] = NoRequest
    /\ entity' = [entity EXCEPT ![q] = q]
    /\ step' = [step EXCEPT ![q] = "inserted"]
    /\ UNCHANGED <<rows, events, faults>>

\* session.add and flush; the insert waits for a pending one with its key.
Insert(q) ==
    /\ step[q] = "selected" /\ entity[q] = NoRequest
    /\ ~InsertPending(q)
    /\ \A p \in rows : ~Clash(p, q)
    /\ entity' = [entity EXCEPT ![q] = q]
    /\ step' = [step EXCEPT ![q] = "inserted"]
    /\ UNCHANGED <<rows, events, faults>>

\* Mutant: the insert is tried again and again.
ConflictRetried(q) ==
    /\ step[q] = "selected" /\ entity[q] = NoRequest
    /\ \E p \in rows : Clash(p, q)
    /\ UNCHANGED commandVars

\* The flush finds that a row with q's key was committed after the select.
\* IntegrityError is not caught: rollback, 500.
Conflict(q) ==
    /\ step[q] = "selected" /\ entity[q] = NoRequest
    /\ ~InsertPending(q)
    /\ \E p \in rows : Clash(p, q)
    /\ step' = [step EXCEPT ![q] = "error"]
    /\ UNCHANGED <<entity, rows, events, faults>>

\* enqueue_audit and commit.
Create(q) ==
    /\ step[q] = "inserted"
    /\ rows' = rows \cup {q}
    /\ events' = events \cup {<<q, q>>}
    /\ step' = [step EXCEPT ![q] = "ok"]
    /\ UNCHANGED <<entity, faults>>

\* Mutant: a repeated operation is audited as created once more.
RepeatAudited(q) ==
    /\ step[q] = "selected" /\ entity[q] # NoRequest
    /\ events' = events \cup {<<q, entity[q]>>}
    /\ step' = [step EXCEPT ![q] = "ok"]
    /\ UNCHANGED <<entity, rows, faults>>

\* The entity exists: operations return it, sync jobs audit the request too.
Repeat(q) ==
    /\ step[q] = "selected" /\ entity[q] # NoRequest
    /\ events' = IF Command[q] = "sync" THEN events \cup {<<q, entity[q]>>} ELSE events
    /\ step' = [step EXCEPT ![q] = "ok"]
    /\ UNCHANGED <<entity, rows, faults>>

\* The database or the process fails before the commit: 500, rolled back.
Abort(q) ==
    /\ step[q] \in {"selected", "inserted"}
    /\ faults < MaxFaults /\ faults' = faults + 1
    /\ step' = [step EXCEPT ![q] = "error"]
    /\ UNCHANGED <<entity, rows, events>>

Handle(q) ==
    Reject(q) \/ Select(q) \/ Insert(q) \/ Conflict(q) \/ Create(q) \/ Repeat(q)

CommandsNext == \E q \in Requests : Handle(q) \/ Abort(q)

CommandsSpec == CommandsInit /\ [][CommandsNext]_commandVars

\* The service runs the requests it accepted.
CommandsFairSpec == CommandsSpec /\ \A q \in Requests : WF_commandVars(Handle(q))

-----------------------------------------------------------------------------
(* Properties.                                                             *)

Answered(q) == step[q] = "ok"

\* However requests with one key interleave, all that succeed name one
\* entity, and that entity is committed.
SameAnswer ==
    \A p, q \in Requests :
        Answered(p) /\ Answered(q) /\ Clash(p, q) =>
            entity[p] = entity[q] /\ entity[q] \in rows

\* Business state and audit trail agree: an entity is committed exactly if
\* its creation is audited, and nothing else is audited but accepted repeats
\* of a sync request.
AuditMatchesState ==
    /\ \A q \in Requests : q \in rows <=> <<q, q>> \in events
    /\ \A e \in events : /\ Answered(e[1]) /\ entity[e[1]] = e[2]
                         /\ e[1] # e[2] => Command[e[1]] = "sync"

\* A request that was answered with an error has left nothing behind.
ErrorsLeaveNothing ==
    \A q \in Requests : step[q] \in {"error", "rejected"} =>
        q \notin rows /\ \A e \in events : e[1] # q

\* No request waits for ever on another one's key.
EveryRequestAnswered ==
    \A q \in Requests : <>(step[q] \in {"ok", "rejected", "error"})
=============================================================================
