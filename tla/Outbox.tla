------------------------------- MODULE Outbox -------------------------------
(***************************************************************************)
(* The transactional audit outbox: the table platform.outbox written by    *)
(* every service (sentinel_common/audit.py, enqueue_audit) and the relay   *)
(* processes that drain it (sentinel_common/outbox_worker.py, run).        *)
(*                                                                         *)
(* A record is named by its created_at, so Records is 1..N and the claim   *)
(* query's ORDER BY created_at is the order of the numbers.  created_at is *)
(* taken when the row is flushed, before its transaction commits, so a     *)
(* record may become visible after a younger one.                          *)
(*                                                                         *)
(* Time: available_at is abstracted to a flag `due`, which is lowered when *)
(* the code moves available_at to the future and raised by BecomeDue.  For *)
(* the records in Covered the five-minute lease outlives every attempt (a  *)
(* relay gives up on a POST long before); on the others a relay that       *)
(* stalled may still be working when its lease has run out.                *)
(*                                                                         *)
(* The audit service is an environment here: a posted event may be         *)
(* ingested at any later time, also after its relay stopped waiting.       *)
(* AuditPipeline replaces that environment by the real service.            *)
(***************************************************************************)
EXTENDS Integers, FiniteSets

CONSTANTS
    NumRecords,    \* how many outbox records are ever created (bound)
    Relays,        \* the relay processes that may run at the same time
    MaxAttempts,   \* the 20 of outbox_worker.py
    MaxCrashes,    \* how many relay crashes may happen (bound)
    Covered        \* records whose lease never expires under a working relay

ASSUME NumRecordsAssumption == NumRecords \in Nat \ {0}
ASSUME RelaysAssumption == Relays # {} /\ IsFiniteSet(Relays)
ASSUME MaxAttemptsAssumption == MaxAttempts \in Nat \ {0}
ASSUME MaxCrashesAssumption == MaxCrashes \in Nat

Records == 1..NumRecords

ASSUME CoveredAssumption == Covered \subseteq Records

VARIABLES
    status,     \* status[e]: the row's status, "none" before its flush
    attempts,   \* attempts[e]: the row's attempts column
    due,        \* due[e]: available_at <= now
    pc,         \* pc[r]: where relay r stands in its loop
    rec,        \* rec[r]: the record object relay r holds (0: none)
    copy,       \* copy[r]: attempts as that object remembers it
    posted,     \* events whose POST was sent at least once
    ingested,   \* events the audit service has committed
    crashes     \* relay crashes so far

rowVars == <<status, attempts, due>>
relayVars == <<pc, rec, copy>>
vars == <<rowVars, relayVars, posted, ingested, crashes>>

\* "open" is a flushed row of a transaction that has not committed yet.
Statuses == {"none", "open", "rolledback", "pending", "publishing",
             "published", "dead"}

\* selected: the claim's SELECT ... FOR UPDATE holds the row lock.
\* claimed: the claim is committed, the event not yet sent.
Phases == {"idle", "selected", "claimed", "posting", "acked", "failed"}

\* Relay r is between the commit of a claim and the end of that attempt.
Working(r) == pc[r] \in {"claimed", "posting", "acked", "failed"}

TypeOK ==
    /\ status \in [Records -> Statuses]
    /\ attempts \in [Records -> Nat]
    /\ due \in [Records -> BOOLEAN]
    /\ pc \in [Relays -> Phases]
    /\ rec \in [Relays -> Records \cup {0}]
    /\ copy \in [Relays -> Nat]
    /\ posted \subseteq Records
    /\ ingested \subseteq Records
    /\ crashes \in 0..MaxCrashes

Init ==
    /\ status = [e \in Records |-> "none"]
    /\ attempts = [e \in Records |-> 0]
    /\ due = [e \in Records |-> FALSE]
    /\ pc = [r \in Relays |-> "idle"]
    /\ rec = [r \in Relays |-> 0]
    /\ copy = [r \in Relays |-> 0]
    /\ posted = {}
    /\ ingested = {}
    /\ crashes = 0

-----------------------------------------------------------------------------
(* The services that write the outbox.                                     *)

\* enqueue_audit adds the row to the session of the business transaction;
\* created_at and available_at get the current time when it is flushed.
Enqueue(e) ==
    /\ status[e] = "none"
    /\ \A f \in 1..(e - 1) : status[f] # "none"
    /\ status' = [status EXCEPT ![e] = "open"]
    /\ due' = [due EXCEPT ![e] = TRUE]
    /\ UNCHANGED <<attempts, relayVars, posted, ingested, crashes>>

\* UnitOfWork.__aexit__: the row becomes visible, or disappears, together
\* with the business change of the same transaction.
EndTransaction(e, outcome) ==
    /\ status[e] = "open"
    /\ status' = [status EXCEPT ![e] = outcome]
    /\ UNCHANGED <<attempts, due, relayVars, posted, ingested, crashes>>

Commit(e) == EndTransaction(e, "pending")
Rollback(e) == EndTransaction(e, "rolledback")

\* Wall-clock time reaches available_at.
BecomeDue(e) ==
    /\ status[e] \in {"pending", "publishing"}
    /\ ~due[e]
    /\ e \in Covered => \A r \in Relays : Working(r) => rec[r] # e
    /\ due' = [due EXCEPT ![e] = TRUE]
    /\ UNCHANGED <<status, attempts, relayVars, posted, ingested, crashes>>

-----------------------------------------------------------------------------
(* The relay loop.                                                         *)

RowLocked(e) == \E r \in Relays : pc[r] = "selected" /\ rec[r] = e

\* Mutant: stale publishing leases are not recovered.
EligiblePendingOnly(e) == status[e] = "pending" /\ due[e]

Eligible(e) == status[e] \in {"pending", "publishing"} /\ due[e]

\* Mutant: FOR UPDATE is left out.
ClaimableUnlocked(e) ==
    Eligible(e) /\ \A f \in 1..(e - 1) : ~Eligible(f)

\* claim_outbox: SELECT ... ORDER BY created_at FOR UPDATE SKIP LOCKED LIMIT 1
Claimable(e) ==
    /\ Eligible(e) /\ ~RowLocked(e)
    /\ \A f \in 1..(e - 1) : ~(Eligible(f) /\ ~RowLocked(f))

SelectForUpdate(r, e) ==
    /\ pc[r] = "idle"
    /\ Claimable(e)
    /\ pc' = [pc EXCEPT ![r] = "selected"]
    /\ rec' = [rec EXCEPT ![r] = e]
    /\ UNCHANGED <<rowVars, copy, posted, ingested, crashes>>

\* The rest of claim_outbox and the commit of its transaction: n is the new
\* value of attempts, stillDue what becomes of available_at <= now.
ClaimWith(r, n, stillDue) ==
    /\ pc[r] = "selected"
    /\ status' = [status EXCEPT ![rec[r]] = "publishing"]
    /\ attempts' = [attempts EXCEPT ![rec[r]] = n]
    /\ due' = [due EXCEPT ![rec[r]] = stillDue]
    /\ copy' = [copy EXCEPT ![r] = n]
    /\ pc' = [pc EXCEPT ![r] = "claimed"]
    /\ UNCHANGED <<rec, posted, ingested, crashes>>

\* Mutant: a claim that takes over a stale lease is not counted.
CommitClaimUncounted(r) ==
    ClaimWith(r, attempts[rec[r]] + (IF status[rec[r]] = "pending" THEN 1 ELSE 0), FALSE)

\* Mutant: the claim does not move available_at.
CommitClaimNoLease(r) == ClaimWith(r, attempts[rec[r]] + 1, TRUE)

CommitClaim(r) == ClaimWith(r, attempts[rec[r]] + 1, FALSE)

\* HttpAuditPublisher.publish sends the event.
Post(r) ==
    /\ pc[r] = "claimed"
    /\ pc' = [pc EXCEPT ![r] = "posting"]
    /\ posted' = posted \cup {rec[r]}
    /\ UNCHANGED <<rowVars, rec, copy, ingested, crashes>>

\* The audit service commits a posted event (environment).
AuditIngests(e) ==
    /\ e \in posted \ ingested
    /\ ingested' = ingested \cup {e}
    /\ UNCHANGED <<rowVars, relayVars, posted, crashes>>

\* publish returns: a 2xx answer reached the relay.
Acked(r) ==
    /\ pc[r] = "posting"
    /\ pc' = [pc EXCEPT ![r] = "acked"]
    /\ UNCHANGED <<rowVars, rec, copy, posted, ingested, crashes>>

\* Mutant: raise_for_status is left out.
AckAnything(r) == Acked(r)

\* The service answers 2xx only for an event it has committed.
Ack(r) == rec[r] \in ingested /\ Acked(r)

\* publish raises: the payload does not validate, the connection fails, the
\* five-second timeout fires or the answer is not 2xx.  The event may have
\* been ingested all the same.
PublishFails(r) ==
    /\ pc[r] \in {"claimed", "posting"}
    /\ pc' = [pc EXCEPT ![r] = "failed"]
    /\ UNCHANGED <<rowVars, rec, copy, posted, ingested, crashes>>

\* Back to the top of the loop with no record in hand.
Release(r) ==
    /\ pc' = [pc EXCEPT ![r] = "idle"]
    /\ rec' = [rec EXCEPT ![r] = 0]
    /\ copy' = [copy EXCEPT ![r] = 0]

\* The success branch writes the row whatever another relay did to it in
\* the meantime; it waits for a row lock.
MarkPublished(r) ==
    /\ pc[r] = "acked"
    /\ ~RowLocked(rec[r])
    /\ status' = [status EXCEPT ![rec[r]] = "published"]
    /\ Release(r)
    /\ UNCHANGED <<attempts, due, posted, ingested, crashes>>

\* What MarkFailed does apart from choosing the new status.
FailWith(r, newStatus) ==
    /\ pc[r] = "failed"
    /\ ~RowLocked(rec[r])
    /\ status' = [status EXCEPT ![rec[r]] = newStatus]
    /\ due' = [due EXCEPT ![rec[r]] = FALSE]
    /\ Release(r)
    /\ UNCHANGED <<attempts, posted, ingested, crashes>>

\* Mutant: an off-by-one.
MarkFailedEarly(r) ==
    FailWith(r, IF copy[r] < MaxAttempts - 1 THEN "pending" ELSE "dead")

\* The except branch: it decides by the attempts of its own record object.
MarkFailed(r) ==
    FailWith(r, IF copy[r] < MaxAttempts THEN "pending" ELSE "dead")

\* The process dies and is restarted: locks and uncommitted work are gone,
\* a claimed row stays "publishing".  A failed commit of either branch ends
\* the process too.
Crash(r) ==
    /\ pc[r] # "idle"
    /\ crashes < MaxCrashes
    /\ crashes' = crashes + 1
    /\ Release(r)
    /\ UNCHANGED <<rowVars, posted, ingested>>

RelayStep(r) ==
    \/ \E e \in Records : SelectForUpdate(r, e)
    \/ CommitClaim(r)
    \/ Post(r)
    \/ Ack(r)
    \/ PublishFails(r)
    \/ MarkPublished(r)
    \/ MarkFailed(r)

Next ==
    \/ \E e \in Records :
          Enqueue(e) \/ Commit(e) \/ Rollback(e) \/ BecomeDue(e) \/ AuditIngests(e)
    \/ \E r \in Relays : RelayStep(r) \/ Crash(r)

Spec == Init /\ [][Next]_vars

\* The relays are deployments that run for ever and time passes.  Nothing
\* is assumed of the services, of the audit service or of the network.
Fairness ==
    /\ \A e \in Records : WF_vars(BecomeDue(e))
    /\ \A r \in Relays : WF_vars(RelayStep(r))

FairSpec == Spec /\ Fairness

-----------------------------------------------------------------------------
(* Properties.                                                             *)

\* A record marked published was really committed by the audit service, for
\* every interleaving of lost answers, expired leases and stale writers.
PublishedWasIngested ==
    \A e \in Records : status[e] = "published" => e \in ingested

\* No record is given up before MaxAttempts attempts were charged to it,
\* although the decision is taken from a relay's possibly stale copy.
DeadWasTriedEnough ==
    \A e \in Records : status[e] = "dead" => attempts[e] >= MaxAttempts

\* attempts is a fencing token: two relays that work on the same record at
\* the same time always hold different attempt numbers.
AttemptIdentifiesHolder ==
    \A r, s \in Relays :
        (r # s /\ Working(r) /\ Working(s) /\ rec[r] = rec[s]) => copy[r] # copy[s]

\* While the lease outlives the attempt, one relay at most works on a record.
LeaseExclusive ==
    \A r, s \in Relays :
        (r # s /\ Working(r) /\ Working(s) /\ rec[r] \in Covered) => rec[r] # rec[s]

\* While the lease outlives the attempt, published and dead are final.
SettledIsFinal ==
    [][\A e \in Covered :
            status[e] \in {"published", "dead"} => status'[e] = status[e]]_vars

\* claim_outbox does not look at attempts, so a relay that dies in mid-attempt
\* makes the record overrun MaxAttempts; while leases hold, each crash buys
\* one more attempt and nothing else does.
AttemptsBounded ==
    \A e \in Covered : attempts[e] <= MaxAttempts + crashes

\* Every committed record is in the end published or dead, for good.
EventuallySettled ==
    \A e \in Records :
        status[e] = "pending" ~> [](status[e] \in {"published", "dead"})
=============================================================================
