---------------------------- MODULE AuditPipeline ----------------------------
(***************************************************************************)
(* The audit path end to end: the outbox relays of module Outbox post to   *)
(* the audit service of module AuditLog over HTTP.                         *)
(*                                                                         *)
(* Outbox's environment variable `ingested` becomes the set of events that *)
(* have a row in the audit log.  A POST is a message in `net`; a request   *)
(* slot of the service takes it and runs the ingest transaction; the       *)
(* answer reaches the relay only if the relay still waits.  A relay that   *)
(* gave up (timeout or crash) leaves its request running.                  *)
(*                                                                         *)
(* Faults of the environment (a lost connection, a timeout although the    *)
(* request is alive, a transaction that dies) share the budget MaxFaults.  *)
(***************************************************************************)
EXTENDS Integers, Sequences, FiniteSets

CONSTANTS
    NumRecords, Relays, MaxAttempts, MaxCrashes, Covered,          \* Outbox
    Tenants, TenantOf, Handlers, NoHandler, NoEvent, MaxTime,      \* AuditLog
    NoRelay,     \* nobody waits for the answer any more
    MaxFaults    \* how many faults the environment may inject (bound)

ASSUME NoRelayAssumption == NoRelay \notin Relays
ASSUME MaxFaultsAssumption == MaxFaults \in Nat

VARIABLES
    status, attempts, due, pc, rec, copy, posted, crashes,   \* Outbox
    rows, clock, hpc, ev, began, prev, lock,                 \* AuditLog
    net,       \* POSTs sent and not yet received: [event, relay]
    client,    \* client[h]: the relay that waits for request h, or NoRelay
    faults     \* faults so far

Log == INSTANCE AuditLog WITH Events <- 1..NumRecords
Box == INSTANCE Outbox WITH ingested <- Log!Ingested

boxVars == <<status, attempts, due, pc, rec, copy, posted, crashes>>
logVars == <<rows, clock, hpc, ev, began, prev, lock>>
linkVars == <<net, client, faults>>
vars == <<boxVars, logVars, linkVars>>

\* Log!Init comes first: Outbox's `ingested` is a function of `rows`.
Init ==
    /\ Log!Init
    /\ Box!Init
    /\ net = {}
    /\ client = [h \in Handlers |-> NoRelay]
    /\ faults = 0

-----------------------------------------------------------------------------
\* Steps of the services and of the relays that the audit side does not
\* notice.
Services(e) ==
    /\ UNCHANGED <<logVars, linkVars>>
    /\ Box!Enqueue(e) \/ Box!Commit(e) \/ Box!Rollback(e)

TimePasses(e) ==
    /\ UNCHANGED <<logVars, linkVars>>
    /\ Box!BecomeDue(e)

RelayLoop(r) ==
    /\ UNCHANGED <<logVars, linkVars>>
    /\ \/ \E e \in 1..NumRecords : Box!SelectForUpdate(r, e)
       \/ Box!CommitClaim(r)
       \/ Box!MarkPublished(r)
       \/ Box!MarkFailed(r)

\* client.post: the request leaves the relay.
Send(r) ==
    /\ UNCHANGED logVars
    /\ Box!Post(r)
    /\ net' = net \cup {[event |-> rec[r], relay |-> r]}
    /\ UNCHANGED <<client, faults>>

\* The service accepts the request and its transaction begins.
Receive(h, m) ==
    /\ m \in net
    /\ Log!Begin(h, m.event)
    /\ net' = net \ {m}
    /\ client' = [client EXCEPT ![h] = m.relay]
    /\ UNCHANGED <<boxVars, faults>>

\* ingest runs inside the service.
Ingest(h) ==
    /\ \/ Log!FindExisting(h) \/ Log!AcquireLock(h) \/ Log!ReadPrevious(h)
       \/ Log!InsertAndCommit(h) \/ Log!UniqueViolation(h)
    /\ UNCHANGED <<boxVars, linkVars>>

\* The answer to a request leaves the service.
Answer(h, result) ==
    /\ hpc[h] = result
    /\ Log!Respond(h)
    /\ client' = [client EXCEPT ![h] = NoRelay]
    /\ UNCHANGED <<net, faults>>

\* 204: publish returns.
AnswerOk(h) ==
    client[h] # NoRelay /\ Answer(h, "ok") /\ Box!Acked(client[h])

\* Mutant: raise_for_status is left out.
AnswerErrorIgnored(h) ==
    client[h] # NoRelay /\ Answer(h, "error") /\ Box!Acked(client[h])

\* 5xx: raise_for_status raises.
AnswerError(h) ==
    client[h] # NoRelay /\ Answer(h, "error") /\ Box!PublishFails(client[h])

\* Nobody reads the answer any more.
AnswerNobody(h) ==
    /\ client[h] = NoRelay
    /\ Answer(h, "ok") \/ Answer(h, "error")
    /\ UNCHANGED boxVars

\* The relay turns away from its request, which goes on without it.
Abandon(r) ==
    /\ client' = [h \in Handlers |-> IF client[h] = r THEN NoRelay ELSE client[h]]
    /\ net' = {[m EXCEPT !.relay = IF m.relay = r THEN NoRelay ELSE @] : m \in net}

InFlight(r) ==
    (\E m \in net : m.relay = r) \/ (\E h \in Handlers : client[h] = r)

\* publish raises on the relay's side: free of charge if there is nothing to
\* wait for, a fault (timeout) if the request is alive.
GiveUp(r) ==
    /\ UNCHANGED logVars
    /\ Box!PublishFails(r)
    /\ \/ pc[r] = "posting" /\ ~InFlight(r) /\ UNCHANGED faults
       \/ faults < MaxFaults /\ faults' = faults + 1
    /\ Abandon(r)

RelayCrash(r) ==
    /\ UNCHANGED logVars
    /\ Box!Crash(r)
    /\ Abandon(r)
    /\ UNCHANGED faults

\* The request never arrives.
Lose(m) ==
    /\ m \in net
    /\ faults < MaxFaults
    /\ net' = net \ {m}
    /\ faults' = faults + 1
    /\ UNCHANGED <<boxVars, logVars, client>>

\* The service loses a transaction.
AbortIngest(h) ==
    /\ faults < MaxFaults
    /\ Log!Abort(h)
    /\ faults' = faults + 1
    /\ UNCHANGED <<boxVars, net, client>>

Next ==
    \/ \E e \in 1..NumRecords : Services(e) \/ TimePasses(e)
    \/ \E r \in Relays : RelayLoop(r) \/ Send(r) \/ GiveUp(r) \/ RelayCrash(r)
    \/ \E h \in Handlers : \/ Ingest(h) \/ AbortIngest(h)
                           \/ AnswerOk(h) \/ AnswerError(h) \/ AnswerNobody(h)
                           \/ \E m \in net : Receive(h, m)
    \/ \E m \in net : Lose(m)

Spec == Init /\ [][Next]_vars

\* Time passes; relays and requests run; a request on the wire is received;
\* PostgreSQL queues the waiters of an advisory lock.  A relay's timeout and
\* every fault may happen or not.
RelayRuns(r) ==
    RelayLoop(r) \/ Send(r) \/ (GiveUp(r) /\ UNCHANGED faults)
RequestRuns(h) ==
    Ingest(h) \/ AnswerOk(h) \/ AnswerError(h) \/ AnswerNobody(h)
Received == \E h \in Handlers : \E m \in net : Receive(h, m)

Fairness ==
    /\ \A e \in 1..NumRecords : WF_vars(TimePasses(e))
    /\ \A r \in Relays : WF_vars(RelayRuns(r))
    /\ \A h \in Handlers :
          /\ WF_vars(RequestRuns(h))
          /\ SF_vars(Log!AcquireLock(h) /\ UNCHANGED <<boxVars, linkVars>>)
    /\ WF_vars(Received)

FairSpec == Spec /\ Fairness

-----------------------------------------------------------------------------
(* Properties.                                                             *)

\* With the real audit service in place of its environment, the relays still
\* implement Outbox: in particular a relay sees a 2xx answer only for an
\* event that is in the log, and an event enters the log only if it was
\* posted.
ImplementsOutbox == Box!Spec

\* A published record has exactly one row, under its own tenant, however
\* often it was sent.
PublishedExactlyOnce ==
    \A e \in 1..NumRecords :
        status[e] = "published" => Cardinality({p \in rows : p.event = e}) = 1

\* If fewer attempts than MaxAttempts are lost to faults and crashes, every
\* committed record reaches the audit log.
AtLeastOnce ==
    \A e \in 1..NumRecords : status[e] = "pending" ~> e \in Log!Ingested

\* The chain of each tenant is a line.
LinearChain == Log!LinearChain
=============================================================================
