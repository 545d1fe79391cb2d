------------------------------ MODULE AuditLog ------------------------------
(***************************************************************************)
(* Audit ingestion: the handler of POST /api/v1/internal/events            *)
(* (sentinel_audit/main.py, ingest_event) and AuditRepository.ingest       *)
(* (sentinel_audit/repository.py), run by any number of concurrent         *)
(* requests against PostgreSQL at READ COMMITTED.                          *)
(*                                                                         *)
(* A request is a transaction of four steps between which other requests   *)
(* run: look for the event (de-duplication), take the tenant's advisory    *)
(* lock, read the previous row, insert the new row and commit.             *)
(* audit_logs.ingested_at defaults to now(), which PostgreSQL fixes when   *)
(* the transaction BEGINS, before it waits for the lock; the previous row  *)
(* is the one with the largest ingested_at.  Time stamps are taken to be   *)
(* distinct (microsecond ties, broken by random ids, are left out).        *)
(*                                                                         *)
(* SHA-256 is taken to be collision free: the hash of a row is its         *)
(* predecessor's hash followed by its event, and <<>> stands for the NULL  *)
(* previous_hash of the first row.  The activity_events row written by the *)
(* same flush has the same fate as the audit row and is not kept apart.    *)
(***************************************************************************)
EXTENDS Integers, Sequences, FiniteSets

CONSTANTS
    Events,      \* event ids
    Tenants,
    TenantOf,    \* TenantOf[e]: the tenant_id of event e
    Handlers,    \* request slots of the audit service
    NoHandler,   \* the lock is free
    NoEvent,     \* the slot carries no request
    MaxTime      \* how many transactions may ever begin (bound)

ASSUME TenantOfAssumption == TenantOf \in [Events -> Tenants]
ASSUME NoHandlerAssumption == NoHandler \notin Handlers
ASSUME NoEventAssumption == NoEvent \notin Events
ASSUME MaxTimeAssumption == MaxTime \in Nat

VARIABLES
    rows,     \* committed rows of audit.audit_logs
    clock,    \* PostgreSQL's time, one unit per BEGIN
    hpc,      \* hpc[h]: the step request h is at
    ev,       \* ev[h]: the event it carries
    began,    \* began[h]: now() of its transaction
    prev,     \* prev[h]: the previous_hash it has read
    lock      \* lock[t]: the request that holds the tenant's advisory lock

vars == <<rows, clock, hpc, ev, began, prev, lock>>

\* ok and error are answered (204 and 5xx) when the connection is read.
Steps == {"idle", "begun", "waiting", "locked", "inserting", "ok", "error"}

Hashes == Seq(Events)

Rows == [event : Events, ingested_at : Nat, previous_hash : Hashes,
         record_hash : Hashes]

TypeOK ==
    /\ rows \subseteq Rows
    /\ clock \in Nat
    /\ hpc \in [Handlers -> Steps]
    /\ ev \in [Handlers -> Events \cup {NoEvent}]
    /\ began \in [Handlers -> Nat]
    /\ prev \in [Handlers -> Hashes]
    /\ lock \in [Tenants -> Handlers \cup {NoHandler}]

Init ==
    /\ rows = {}
    /\ clock = 0
    /\ hpc = [h \in Handlers |-> "idle"]
    /\ ev = [h \in Handlers |-> NoEvent]
    /\ began = [h \in Handlers |-> 0]
    /\ prev = [h \in Handlers |-> <<>>]
    /\ lock = [t \in Tenants |-> NoHandler]

-----------------------------------------------------------------------------
\* Mutant: the query forgets the tenant.
TenantRowsAll(t) == IF t \in Tenants THEN rows ELSE {}

TenantRows(t) == {p \in rows : TenantOf[p.event] = t}
Ingested == {p.event : p \in rows}

\* UnitOfWork.__aenter__: the transaction begins, now() is fixed.
Begin(h, e) ==
    /\ hpc[h] = "idle"
    /\ clock < MaxTime
    /\ clock' = clock + 1
    /\ hpc' = [hpc EXCEPT ![h] = "begun"]
    /\ ev' = [ev EXCEPT ![h] = e]
    /\ began' = [began EXCEPT ![h] = clock + 1]
    /\ UNCHANGED <<rows, prev, lock>>

\* The first SELECT of ingest: a known event is answered at once.
FindExisting(h) ==
    /\ hpc[h] = "begun"
    /\ hpc' = [hpc EXCEPT ![h] = IF ev[h] \in Ingested THEN "ok" ELSE "waiting"]
    /\ UNCHANGED <<rows, clock, ev, began, prev, lock>>

\* Mutant: the lock is not taken.
AcquireLockNot(h) ==
    /\ hpc[h] = "waiting"
    /\ hpc' = [hpc EXCEPT ![h] = "locked"]
    /\ UNCHANGED <<rows, clock, ev, began, prev, lock>>

\* pg_advisory_xact_lock
AcquireLock(h) ==
    LET t == TenantOf[ev[h]] IN
    /\ hpc[h] = "waiting"
    /\ lock[t] = NoHandler
    /\ lock' = [lock EXCEPT ![t] = h]
    /\ hpc' = [hpc EXCEPT ![h] = "locked"]
    /\ UNCHANGED <<rows, clock, ev, began, prev>>

\* Mutant: ascending order.
NewestAscending(p, t) == p \in TenantRows(t) /\ \A q \in TenantRows(t) : q.ingested_at >= p.ingested_at

\* ORDER BY ingested_at DESC LIMIT 1 among the tenant's rows
Newest(p, t) == p \in TenantRows(t) /\ \A q \in TenantRows(t) : q.ingested_at <= p.ingested_at

ReadPrevious(h) ==
    LET t == TenantOf[ev[h]] IN
    /\ hpc[h] = "locked"
    /\ hpc' = [hpc EXCEPT ![h] = "inserting"]
    /\ \/ /\ TenantRows(t) = {}
          /\ prev' = [prev EXCEPT ![h] = <<>>]
       \/ \E p \in rows :
             /\ Newest(p, t)
             /\ prev' = [prev EXCEPT ![h] = p.record_hash]
    /\ UNCHANGED <<rows, clock, ev, began, lock>>

\* Mutant: a session-level lock that nobody unlocks.
ReleaseLockNever(h) == lock' = [lock EXCEPT ![TenantOf[ev[h]]] = @]

\* The end of a transaction releases its advisory lock.
ReleaseLock(h) ==
    lock' = [t \in Tenants |-> IF lock[t] = h THEN NoHandler ELSE lock[t]]

\* The flush and the commit.  The existence check was made before the lock,
\* so an event that was ingested meanwhile is only caught by the unique
\* constraint, which fails the request.
NewRow(h) ==
    [event |-> ev[h], ingested_at |-> began[h], previous_hash |-> prev[h],
     record_hash |-> Append(prev[h], ev[h])]

\* Mutant: no unique constraint on the event.
InsertAndCommitTwice(h) ==
    /\ hpc[h] = "inserting"
    /\ rows' = rows \cup {NewRow(h)}
    /\ hpc' = [hpc EXCEPT ![h] = "ok"]
    /\ ReleaseLock(h)
    /\ UNCHANGED <<clock, ev, began, prev>>

InsertAndCommit(h) ==
    /\ hpc[h] = "inserting"
    /\ ev[h] \notin Ingested
    /\ rows' = rows \cup {NewRow(h)}
    /\ hpc' = [hpc EXCEPT ![h] = "ok"]
    /\ ReleaseLock(h)
    /\ UNCHANGED <<clock, ev, began, prev>>

UniqueViolation(h) ==
    /\ hpc[h] = "inserting"
    /\ ev[h] \in Ingested
    /\ hpc' = [hpc EXCEPT ![h] = "error"]
    /\ ReleaseLock(h)
    /\ UNCHANGED <<rows, clock, ev, began, prev>>

\* The transaction is lost at any point: the service or its connection dies.
Abort(h) ==
    /\ hpc[h] \in {"begun", "waiting", "locked", "inserting"}
    /\ hpc' = [hpc EXCEPT ![h] = "error"]
    /\ ReleaseLock(h)
    /\ UNCHANGED <<rows, clock, ev, began, prev>>

\* The answer is sent, read or not, and the slot is free again.
Respond(h) ==
    /\ hpc[h] \in {"ok", "error"}
    /\ hpc' = [hpc EXCEPT ![h] = "idle"]
    /\ ev' = [ev EXCEPT ![h] = NoEvent]
    /\ began' = [began EXCEPT ![h] = 0]
    /\ prev' = [prev EXCEPT ![h] = <<>>]
    /\ UNCHANGED <<rows, clock, lock>>

Step(h) ==
    \/ FindExisting(h) \/ AcquireLock(h) \/ ReadPrevious(h)
    \/ InsertAndCommit(h) \/ UniqueViolation(h) \/ Respond(h)

Next ==
    \E h \in Handlers : (\E e \in Events : Begin(h, e)) \/ Step(h) \/ Abort(h)

Spec == Init /\ [][Next]_vars

\* Requests run to completion; PostgreSQL queues the waiters of an advisory
\* lock, so a waiter is not overtaken for ever.
Fairness ==
    \A h \in Handlers : WF_vars(Step(h)) /\ SF_vars(AcquireLock(h))

FairSpec == Spec /\ Fairness

-----------------------------------------------------------------------------
(* Properties.                                                             *)

\* A row's previous_hash is the hash of a row of the same tenant, so no link
\* of the chain dangles (no uncommitted or foreign row was ever read).
ChainClosed ==
    \A p \in rows :
        p.previous_hash # <<>> =>
            \E q \in rows :
                /\ TenantOf[q.event] = TenantOf[p.event]
                /\ q.record_hash = p.previous_hash

\* Each tenant's chain has a single first row: two requests never both
\* found the tenant's log empty.
OneGenesis ==
    \A p, q \in rows :
        (/\ TenantOf[p.event] = TenantOf[q.event]
         /\ p.previous_hash = <<>> /\ q.previous_hash = <<>>) => p = q

\* Row q was linked to p although q's transaction began before p's.
Overtook(p, q) ==
    p.record_hash = q.previous_hash /\ q.ingested_at < p.ingested_at

\* The chain forks only where a transaction was overtaken between its BEGIN
\* and its turn at the lock; requests that do not overlap build one line.
ForkNeedsOvertaking ==
    \A p, q \in rows :
        (/\ p # q
         /\ TenantOf[p.event] = TenantOf[q.event]
         /\ p.previous_hash = q.previous_hash) =>
            \E u, v \in rows :
                Overtook(u, v) /\ TenantOf[v.event] = TenantOf[p.event]

\* An answer of 204 means committed, also when it was given because another
\* request's row was found.
OkMeansIngested == \A h \in Handlers : hpc[h] = "ok" => ev[h] \in Ingested

\* Every request is answered: no request waits for ever on the lock.
EveryRequestAnswered ==
    \A h \in Handlers : hpc[h] = "begun" ~> hpc[h] = "idle"

\* The chain of each tenant is a line: no row has two successors.
LinearChain ==
    \A p, q \in rows :
        (/\ TenantOf[p.event] = TenantOf[q.event]
         /\ p.previous_hash = q.previous_hash) => p = q
=============================================================================
