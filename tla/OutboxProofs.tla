---------------------------- MODULE OutboxProofs ----------------------------
(***************************************************************************)
(* Proofs about Outbox: the safety properties hold for any number of       *)
(* records, relays, attempts and crashes; and about Commands, the          *)
(* transactions that fill the outbox.                                      *)
(***************************************************************************)
EXTENDS Outbox, Commands, TLAPS

\* A relay that waits on no record has none; otherwise its record exists.
HoldsRecord == \A r \in Relays : pc[r] # "idle" => rec[r] \in Records

\* SKIP LOCKED never hands one row to two claims.
NoDoubleLock ==
    \A r, s \in Relays :
        (r # s /\ pc[r] = "selected" /\ pc[s] = "selected") => rec[r] # rec[s]

\* A row selected for update stays claimable until the claim ends.
SelectedIsEligible ==
    \A r \in Relays : pc[r] = "selected" => Eligible(rec[r])

\* A 2xx answer is only ever seen for an ingested event.
AckedWasIngested == \A r \in Relays : pc[r] = "acked" => rec[r] \in ingested

\* A relay's copy of attempts is never ahead of the row.
CopyNotAhead ==
    \A r \in Relays : Working(r) => copy[r] <= attempts[rec[r]]

\* Under a covering lease the worker's view of the row is current.
LeaseInForce ==
    \A r \in Relays :
        Working(r) /\ rec[r] \in Covered =>
            /\ status[rec[r]] = "publishing"
            /\ ~due[rec[r]]
            /\ copy[r] = attempts[rec[r]]

\* Under a covering lease a row that may be claimed has an attempt to spare.
SpareAttempt ==
    \A e \in Covered :
            (/\ status[e] \in {"none", "open", "pending", "publishing"}
             /\ \A r \in Relays : Working(r) => rec[r] # e)
            => attempts[e] < MaxAttempts + crashes

\* The inductive invariant.
OutboxInv ==
    /\ TypeOK
    /\ HoldsRecord
    /\ SelectedIsEligible
    /\ NoDoubleLock
    /\ AckedWasIngested
    /\ PublishedWasIngested
    /\ CopyNotAhead
    /\ DeadWasTriedEnough
    /\ AttemptIdentifiesHolder
    /\ LeaseInForce
    /\ LeaseExclusive
    /\ SpareAttempt
    /\ AttemptsBounded

USE NumRecordsAssumption, MaxAttemptsAssumption, MaxCrashesAssumption,
    CoveredAssumption

\* Every initial state satisfies the inductive invariant.
LEMMA InitOutboxInv == Init => OutboxInv
BY DEF Init, OutboxInv, TypeOK, HoldsRecord, SelectedIsEligible, NoDoubleLock,
       AckedWasIngested, PublishedWasIngested, CopyNotAhead, DeadWasTriedEnough,
       AttemptIdentifiesHolder, LeaseInForce, LeaseExclusive, SpareAttempt,
       AttemptsBounded, Records, Statuses, Phases, Working

\* No step breaks the inductive invariant.
LEMMA NextOutboxInv == OutboxInv /\ [Next]_vars => OutboxInv'
<1> SUFFICES ASSUME OutboxInv, [Next]_vars PROVE OutboxInv'
  OBVIOUS
<1> USE DEF OutboxInv
<1>1. ASSUME NEW e \in Records, Enqueue(e) PROVE OutboxInv'
  <2> USE <1>1 DEF Enqueue, relayVars
  <2>1. /\ HoldsRecord'
        /\ NoDoubleLock'
        /\ AckedWasIngested'
        /\ CopyNotAhead'
        /\ AttemptIdentifiesHolder'
        /\ LeaseExclusive'
        /\ AttemptsBounded'
    BY DEF AckedWasIngested, AttemptIdentifiesHolder, AttemptsBounded,
           CopyNotAhead, Eligible, HoldsRecord, LeaseExclusive, NoDoubleLock,
           Working
  <2>2. TypeOK'
    BY DEF TypeOK, Records, Statuses, Phases, HoldsRecord
  <2>3. SelectedIsEligible'
    BY DEF SelectedIsEligible, TypeOK, Eligible, HoldsRecord, NoDoubleLock,
           Working
  <2>4. PublishedWasIngested'
    BY DEF PublishedWasIngested, TypeOK, AckedWasIngested, HoldsRecord
  <2>5. DeadWasTriedEnough'
    BY DEF DeadWasTriedEnough, TypeOK, CopyNotAhead, Working, HoldsRecord
  <2>6. LeaseInForce'
    BY DEF LeaseInForce, TypeOK, Working, HoldsRecord, LeaseExclusive,
           SelectedIsEligible, Eligible
  <2>7. SpareAttempt'
    BY DEF SpareAttempt, TypeOK, Working, LeaseInForce, HoldsRecord,
           AttemptsBounded
  <2> QED BY <2>1, <2>2, <2>3, <2>4, <2>5, <2>6, <2>7
<1>2. ASSUME NEW e \in Records, Commit(e) \/ Rollback(e) PROVE OutboxInv'
  <2> USE <1>2 DEF Commit, Rollback, EndTransaction, relayVars
  <2>1. /\ HoldsRecord'
        /\ NoDoubleLock'
        /\ AckedWasIngested'
        /\ CopyNotAhead'
        /\ AttemptIdentifiesHolder'
        /\ LeaseExclusive'
        /\ AttemptsBounded'
    BY DEF AckedWasIngested, AttemptIdentifiesHolder, AttemptsBounded,
           CopyNotAhead, Eligible, HoldsRecord, LeaseExclusive, NoDoubleLock,
           Working
  <2>2. TypeOK'
    BY DEF TypeOK, Records, Statuses, Phases, HoldsRecord
  <2>3. SelectedIsEligible'
    BY DEF SelectedIsEligible, TypeOK, Eligible, HoldsRecord, NoDoubleLock,
           Working
  <2>4. PublishedWasIngested'
    BY DEF PublishedWasIngested, TypeOK, AckedWasIngested, HoldsRecord
  <2>5. DeadWasTriedEnough'
    BY DEF DeadWasTriedEnough, TypeOK, CopyNotAhead, Working, HoldsRecord
  <2>6. LeaseInForce'
    BY DEF LeaseInForce, TypeOK, Working, HoldsRecord, LeaseExclusive,
           SelectedIsEligible, Eligible
  <2>7. SpareAttempt'
    BY DEF SpareAttempt, TypeOK, Working, LeaseInForce, HoldsRecord,
           AttemptsBounded
  <2> QED BY <2>1, <2>2, <2>3, <2>4, <2>5, <2>6, <2>7
<1>3. ASSUME NEW e \in Records, BecomeDue(e) PROVE OutboxInv'
  <2> USE <1>3 DEF BecomeDue, relayVars
  <2>1. /\ HoldsRecord'
        /\ NoDoubleLock'
        /\ AckedWasIngested'
        /\ PublishedWasIngested'
        /\ CopyNotAhead'
        /\ DeadWasTriedEnough'
        /\ AttemptIdentifiesHolder'
        /\ LeaseExclusive'
        /\ SpareAttempt'
        /\ AttemptsBounded'
    BY DEF AckedWasIngested, AttemptIdentifiesHolder, AttemptsBounded,
           CopyNotAhead, DeadWasTriedEnough, Eligible, HoldsRecord,
           LeaseExclusive, NoDoubleLock, PublishedWasIngested, SpareAttempt,
           Working
  <2>2. TypeOK'
    BY DEF TypeOK, Records, Statuses, Phases, HoldsRecord
  <2>3. SelectedIsEligible'
    BY DEF SelectedIsEligible, TypeOK, Eligible, HoldsRecord, NoDoubleLock,
           Working
  <2>4. LeaseInForce'
    BY DEF LeaseInForce, TypeOK, Working, HoldsRecord, LeaseExclusive,
           SelectedIsEligible, Eligible
  <2> QED BY <2>1, <2>2, <2>3, <2>4
<1>4. ASSUME NEW e \in Records, AuditIngests(e) PROVE OutboxInv'
  <2> USE <1>4 DEF AuditIngests, rowVars, relayVars
  <2>1. /\ HoldsRecord'
        /\ SelectedIsEligible'
        /\ NoDoubleLock'
        /\ CopyNotAhead'
        /\ DeadWasTriedEnough'
        /\ AttemptIdentifiesHolder'
        /\ LeaseInForce'
        /\ LeaseExclusive'
        /\ SpareAttempt'
        /\ AttemptsBounded'
    BY DEF AttemptIdentifiesHolder, AttemptsBounded, CopyNotAhead,
           DeadWasTriedEnough, Eligible, HoldsRecord, LeaseExclusive,
           LeaseInForce, NoDoubleLock, SelectedIsEligible, SpareAttempt,
           Working
  <2>2. TypeOK'
    BY DEF TypeOK, Records, Statuses, Phases, HoldsRecord
  <2>3. AckedWasIngested'
    BY DEF AckedWasIngested, TypeOK
  <2>4. PublishedWasIngested'
    BY DEF PublishedWasIngested, TypeOK, AckedWasIngested, HoldsRecord
  <2> QED BY <2>1, <2>2, <2>3, <2>4
<1>5. ASSUME NEW r \in Relays, NEW e \in Records, SelectForUpdate(r, e) PROVE OutboxInv'
  <2> USE <1>5 DEF SelectForUpdate, Claimable, RowLocked, rowVars
  <2>1. /\ PublishedWasIngested'
        /\ DeadWasTriedEnough'
        /\ AttemptsBounded'
    BY DEF AttemptsBounded, DeadWasTriedEnough, Eligible,
           PublishedWasIngested, Working
  <2>2. TypeOK'
    BY DEF TypeOK, Records, Statuses, Phases, HoldsRecord
  <2>3. HoldsRecord'
    BY DEF HoldsRecord, TypeOK
  <2>4. SelectedIsEligible'
    BY DEF SelectedIsEligible, TypeOK, Eligible, HoldsRecord, NoDoubleLock,
           Working
  <2>5. NoDoubleLock'
    BY DEF NoDoubleLock, TypeOK, HoldsRecord
  <2>6. AckedWasIngested'
    BY DEF AckedWasIngested, TypeOK
  <2>7. CopyNotAhead'
    BY DEF CopyNotAhead, TypeOK, Working, HoldsRecord
  <2>8. AttemptIdentifiesHolder'
    BY DEF AttemptIdentifiesHolder, TypeOK, Working, CopyNotAhead, HoldsRecord
  <2>9. LeaseInForce'
    BY DEF LeaseInForce, TypeOK, Working, HoldsRecord, LeaseExclusive,
           SelectedIsEligible, Eligible
  <2>10. LeaseExclusive'
    BY DEF LeaseExclusive, TypeOK, Working, LeaseInForce, SelectedIsEligible,
           Eligible, HoldsRecord
  <2>11. SpareAttempt'
    BY DEF SpareAttempt, TypeOK, Working, LeaseInForce, HoldsRecord,
           AttemptsBounded
  <2> QED BY <2>1, <2>2, <2>3, <2>4, <2>5, <2>6, <2>7, <2>8, <2>9, <2>10, <2>11
<1>6. ASSUME NEW r \in Relays, CommitClaim(r) PROVE OutboxInv'
  <2> USE <1>6 DEF CommitClaim, ClaimWith
  <2>1. TypeOK'
    BY DEF TypeOK, Records, Statuses, Phases, HoldsRecord
  <2>2. HoldsRecord'
    BY DEF HoldsRecord, TypeOK
  <2>3. SelectedIsEligible'
    BY DEF SelectedIsEligible, TypeOK, Eligible, HoldsRecord, NoDoubleLock,
           Working
  <2>4. NoDoubleLock'
    BY DEF NoDoubleLock, TypeOK, HoldsRecord
  <2>5. AckedWasIngested'
    BY DEF AckedWasIngested, TypeOK
  <2>6. PublishedWasIngested'
    BY DEF PublishedWasIngested, TypeOK, AckedWasIngested, HoldsRecord
  <2>7. CopyNotAhead'
    BY DEF CopyNotAhead, TypeOK, Working, HoldsRecord
  <2>8. DeadWasTriedEnough'
    BY DEF DeadWasTriedEnough, TypeOK, CopyNotAhead, Working, HoldsRecord
  <2>9. AttemptIdentifiesHolder'
    BY DEF AttemptIdentifiesHolder, TypeOK, Working, CopyNotAhead, HoldsRecord
  <2>10. LeaseInForce'
    BY DEF LeaseInForce, TypeOK, Working, HoldsRecord, LeaseExclusive,
           SelectedIsEligible, Eligible
  <2>11. LeaseExclusive'
    BY DEF LeaseExclusive, TypeOK, Working, LeaseInForce, SelectedIsEligible,
           Eligible, HoldsRecord
  <2>12. SpareAttempt'
    BY DEF SpareAttempt, TypeOK, Working, LeaseInForce, HoldsRecord,
           AttemptsBounded
  <2>13. AttemptsBounded'
    BY DEF AttemptsBounded, TypeOK, SpareAttempt, LeaseInForce, Working,
           HoldsRecord, SelectedIsEligible, Eligible
  <2> QED BY <2>1, <2>2, <2>3, <2>4, <2>5, <2>6, <2>7, <2>8, <2>9, <2>10, <2>11, <2>12, <2>13
<1>7. ASSUME NEW r \in Relays, Post(r) \/ Ack(r) \/ PublishFails(r) PROVE OutboxInv'
  <2> USE <1>7 DEF Post, Ack, Acked, PublishFails, rowVars
  <2>1. /\ PublishedWasIngested'
        /\ DeadWasTriedEnough'
        /\ AttemptsBounded'
    BY DEF AttemptsBounded, DeadWasTriedEnough, Eligible,
           PublishedWasIngested, Working
  <2>2. TypeOK'
    BY DEF TypeOK, Records, Statuses, Phases, HoldsRecord
  <2>3. HoldsRecord'
    BY DEF HoldsRecord, TypeOK
  <2>4. SelectedIsEligible'
    BY DEF SelectedIsEligible, TypeOK, Eligible, HoldsRecord, NoDoubleLock,
           Working
  <2>5. NoDoubleLock'
    BY DEF NoDoubleLock, TypeOK, HoldsRecord
  <2>6. AckedWasIngested'
    BY DEF AckedWasIngested, TypeOK
  <2>7. CopyNotAhead'
    BY DEF CopyNotAhead, TypeOK, Working, HoldsRecord
  <2>8. AttemptIdentifiesHolder'
    BY DEF AttemptIdentifiesHolder, TypeOK, Working, CopyNotAhead, HoldsRecord
  <2>9. LeaseInForce'
    BY DEF LeaseInForce, TypeOK, Working, HoldsRecord, LeaseExclusive,
           SelectedIsEligible, Eligible
  <2>10. LeaseExclusive'
    BY DEF LeaseExclusive, TypeOK, Working, LeaseInForce, SelectedIsEligible,
           Eligible, HoldsRecord
  <2>11. SpareAttempt'
    BY DEF SpareAttempt, TypeOK, Working, LeaseInForce, HoldsRecord,
           AttemptsBounded
  <2> QED BY <2>1, <2>2, <2>3, <2>4, <2>5, <2>6, <2>7, <2>8, <2>9, <2>10, <2>11
<1>8. ASSUME NEW r \in Relays, MarkPublished(r) PROVE OutboxInv'
  <2> USE <1>8 DEF MarkPublished, Release, RowLocked
  <2>1. AttemptsBounded'
    BY DEF AttemptsBounded, Eligible, Working
  <2>2. TypeOK'
    BY DEF TypeOK, Records, Statuses, Phases, HoldsRecord
  <2>3. HoldsRecord'
    BY DEF HoldsRecord, TypeOK
  <2>4. SelectedIsEligible'
    BY DEF SelectedIsEligible, TypeOK, Eligible, HoldsRecord, NoDoubleLock,
           Working
  <2>5. NoDoubleLock'
    BY DEF NoDoubleLock, TypeOK, HoldsRecord
  <2>6. AckedWasIngested'
    BY DEF AckedWasIngested, TypeOK
  <2>7. PublishedWasIngested'
    BY DEF PublishedWasIngested, TypeOK, AckedWasIngested, HoldsRecord
  <2>8. CopyNotAhead'
    BY DEF CopyNotAhead, TypeOK, Working, HoldsRecord
  <2>9. DeadWasTriedEnough'
    BY DEF DeadWasTriedEnough, TypeOK, CopyNotAhead, Working, HoldsRecord
  <2>10. AttemptIdentifiesHolder'
    BY DEF AttemptIdentifiesHolder, TypeOK, Working, CopyNotAhead, HoldsRecord
  <2>11. LeaseInForce'
    BY DEF LeaseInForce, TypeOK, Working, HoldsRecord, LeaseExclusive,
           SelectedIsEligible, Eligible
  <2>12. LeaseExclusive'
    BY DEF LeaseExclusive, TypeOK, Working, LeaseInForce, SelectedIsEligible,
           Eligible, HoldsRecord
  <2>13. SpareAttempt'
    BY DEF SpareAttempt, TypeOK, Working, LeaseInForce, HoldsRecord,
           AttemptsBounded
  <2> QED BY <2>1, <2>2, <2>3, <2>4, <2>5, <2>6, <2>7, <2>8, <2>9, <2>10, <2>11, <2>12, <2>13
<1>9. ASSUME NEW r \in Relays, MarkFailed(r) PROVE OutboxInv'
  <2> USE <1>9 DEF MarkFailed, FailWith, Release, RowLocked
  <2>1. AttemptsBounded'
    BY DEF AttemptsBounded, Eligible, Working
  <2>2. TypeOK'
    BY DEF TypeOK, Records, Statuses, Phases, HoldsRecord
  <2>3. HoldsRecord'
    BY DEF HoldsRecord, TypeOK
  <2>4. SelectedIsEligible'
    BY DEF SelectedIsEligible, TypeOK, Eligible, HoldsRecord, NoDoubleLock,
           Working
  <2>5. NoDoubleLock'
    BY DEF NoDoubleLock, TypeOK, HoldsRecord
  <2>6. AckedWasIngested'
    BY DEF AckedWasIngested, TypeOK
  <2>7. PublishedWasIngested'
    BY DEF PublishedWasIngested, TypeOK, AckedWasIngested, HoldsRecord
  <2>8. CopyNotAhead'
    BY DEF CopyNotAhead, TypeOK, Working, HoldsRecord
  <2>9. DeadWasTriedEnough'
    BY DEF DeadWasTriedEnough, TypeOK, CopyNotAhead, Working, HoldsRecord
  <2>10. AttemptIdentifiesHolder'
    BY DEF AttemptIdentifiesHolder, TypeOK, Working, CopyNotAhead, HoldsRecord
  <2>11. LeaseInForce'
    BY DEF LeaseInForce, TypeOK, Working, HoldsRecord, LeaseExclusive,
           SelectedIsEligible, Eligible
  <2>12. LeaseExclusive'
    BY DEF LeaseExclusive, TypeOK, Working, LeaseInForce, SelectedIsEligible,
           Eligible, HoldsRecord
  <2>13. SpareAttempt'
    BY DEF SpareAttempt, TypeOK, Working, LeaseInForce, HoldsRecord,
           AttemptsBounded
  <2> QED BY <2>1, <2>2, <2>3, <2>4, <2>5, <2>6, <2>7, <2>8, <2>9, <2>10, <2>11, <2>12, <2>13
<1>10. ASSUME NEW r \in Relays, Crash(r) PROVE OutboxInv'
  <2> USE <1>10 DEF Crash, Release, rowVars
  <2>1. /\ PublishedWasIngested'
        /\ DeadWasTriedEnough'
    BY DEF DeadWasTriedEnough, PublishedWasIngested, Working
  <2>2. TypeOK'
    BY DEF TypeOK, Records, Statuses, Phases, HoldsRecord
  <2>3. HoldsRecord'
    BY DEF HoldsRecord, TypeOK
  <2>4. SelectedIsEligible'
    BY DEF SelectedIsEligible, TypeOK, Eligible, HoldsRecord, NoDoubleLock,
           Working
  <2>5. NoDoubleLock'
    BY DEF NoDoubleLock, TypeOK, HoldsRecord
  <2>6. AckedWasIngested'
    BY DEF AckedWasIngested, TypeOK
  <2>7. CopyNotAhead'
    BY DEF CopyNotAhead, TypeOK, Working, HoldsRecord
  <2>8. AttemptIdentifiesHolder'
    BY DEF AttemptIdentifiesHolder, TypeOK, Working, CopyNotAhead, HoldsRecord
  <2>9. LeaseInForce'
    BY DEF LeaseInForce, TypeOK, Working, HoldsRecord, LeaseExclusive,
           SelectedIsEligible, Eligible
  <2>10. LeaseExclusive'
    BY DEF LeaseExclusive, TypeOK, Working, LeaseInForce, SelectedIsEligible,
           Eligible, HoldsRecord
  <2>11. SpareAttempt'
    BY DEF SpareAttempt, TypeOK, Working, LeaseInForce, HoldsRecord,
           AttemptsBounded
  <2>12. AttemptsBounded'
    BY DEF AttemptsBounded, TypeOK, SpareAttempt, LeaseInForce, Working,
           HoldsRecord, SelectedIsEligible, Eligible
  <2> QED BY <2>1, <2>2, <2>3, <2>4, <2>5, <2>6, <2>7, <2>8, <2>9, <2>10, <2>11, <2>12
<1>11. CASE UNCHANGED vars
  BY <1>11 DEF vars, rowVars, relayVars, TypeOK, HoldsRecord, SelectedIsEligible,
     Eligible, Working, NoDoubleLock, AckedWasIngested, PublishedWasIngested,
     CopyNotAhead, DeadWasTriedEnough, AttemptIdentifiesHolder, LeaseInForce,
     LeaseExclusive, SpareAttempt, AttemptsBounded
<1> QED
  BY <1>1, <1>2, <1>3, <1>4, <1>5, <1>6, <1>7, <1>8, <1>9, <1>10, <1>11
     DEF Next, RelayStep

\* The inductive invariant holds in every reachable state.
THEOREM OutboxSafe == Spec => []OutboxInv
<1> QED BY InitOutboxInv, NextOutboxInv, PTL DEF Spec

\* Type correctness of the outbox and its relays, and: a published record was
\* committed by the audit service (outbox_worker.run marks a row published
\* only after a 2xx answer, whatever other relays do to the row).
THEOREM PublishedTheorem == Spec => [](TypeOK /\ PublishedWasIngested)
<1>1. OutboxInv => TypeOK /\ PublishedWasIngested
  BY DEF OutboxInv
<1> QED BY <1>1, OutboxSafe, PTL

\* A record is given up (status dead) only when at least MaxAttempts attempts
\* were charged to its row, although the relay compares its own copy.
THEOREM DeadTheorem == Spec => []DeadWasTriedEnough
<1>1. OutboxInv => DeadWasTriedEnough
  BY DEF OutboxInv
<1> QED BY <1>1, OutboxSafe, PTL

\* claim_outbox: no row lock is given twice, and the attempt numbers of two
\* relays that work on one record always differ.
THEOREM ClaimTheorem == Spec => [](NoDoubleLock /\ AttemptIdentifiesHolder)
<1>1. OutboxInv => NoDoubleLock /\ AttemptIdentifiesHolder
  BY DEF OutboxInv
<1> QED BY <1>1, OutboxSafe, PTL

\* With leases that outlive attempts: one worker per record, and only crashes
\* make a record overrun MaxAttempts.
THEOREM LeaseTheorem == Spec => [](LeaseExclusive /\ AttemptsBounded)
<1>1. OutboxInv => LeaseExclusive /\ AttemptsBounded
  BY DEF OutboxInv
<1> QED BY <1>1, OutboxSafe, PTL

\* With leases that outlive attempts, no relay ever takes a record out of
\* published or dead.
THEOREM FinalTheorem == Spec => SettledIsFinal
<1> DEFINE Final == \A e \in Covered :
            status[e] \in {"published", "dead"} => status'[e] = status[e]
<1>1. OutboxInv /\ [Next]_vars => [Final]_vars
  <2> SUFFICES ASSUME OutboxInv, Next,
                      NEW e \in Covered, status[e] \in {"published", "dead"}
               PROVE  status'[e] = status[e]
    OBVIOUS
  <2> USE DEF OutboxInv, TypeOK
  <2>1. ASSUME NEW f \in Records,
               \/ Enqueue(f) \/ Commit(f) \/ Rollback(f)
               \/ BecomeDue(f) \/ AuditIngests(f)
        PROVE  status'[e] = status[e]
    BY <2>1 DEF Enqueue, Commit, Rollback, EndTransaction, BecomeDue,
                AuditIngests, rowVars
  <2>2. ASSUME NEW r \in Relays, CommitClaim(r) PROVE status'[e] = status[e]
    BY <2>2 DEF CommitClaim, ClaimWith, SelectedIsEligible, Eligible
  <2>3. ASSUME NEW r \in Relays, MarkPublished(r) \/ MarkFailed(r)
        PROVE  status'[e] = status[e]
    BY <2>3 DEF MarkPublished, MarkFailed, FailWith, LeaseInForce, Working
  <2>4. ASSUME NEW r \in Relays,
               \/ \E f \in Records : SelectForUpdate(r, f)
               \/ Post(r) \/ Ack(r) \/ PublishFails(r) \/ Crash(r)
        PROVE  status'[e] = status[e]
    BY <2>4 DEF SelectForUpdate, Post, Ack, Acked, PublishFails, Crash, rowVars
  <2> QED
    BY <2>1, <2>2, <2>3, <2>4 DEF Next, RelayStep
<1> QED
  BY <1>1, OutboxSafe, PTL DEF Spec, SettledIsFinal

-----------------------------------------------------------------------------
(***************************************************************************)
(* The services that fill the outbox: the transactions of Commands, which  *)
(* share nothing with the relays but the table.                            *)
(***************************************************************************)

\* How far a transaction is and what it holds.
StepInv ==
    \A q \in Requests :
        /\ step[q] = "new" => entity[q] = NoRequest
        /\ step[q] = "selected" => entity[q] # q
        /\ step[q] = "inserted" => entity[q] = q /\ q \notin rows
        /\ step[q] = "ok" => entity[q] # NoRequest
        /\ q \in rows => step[q] = "ok" /\ entity[q] = q

\* An entity that a request found or created.
EntityInv ==
    \A q \in Requests : step[q] \in {"selected", "ok"} /\ entity[q] # NoRequest =>
        entity[q] \in rows /\ (entity[q] = q \/ Clash(entity[q], q))

\* The unique constraints, committed and pending rows together.
UniqueInv ==
    \A p, q \in Requests :
        /\ p \in rows \/ step[p] = "inserted"
        /\ q \in rows \/ step[q] = "inserted"
        /\ Clash(p, q)
        => p = q

\* The inductive invariant.
CommandsInv ==
    /\ CommandsTypeOK /\ StepInv /\ EntityInv /\ UniqueInv
    /\ AuditMatchesState /\ ErrorsLeaveNothing

\* The unique constraints make an equivalence of the requests they concern.
LEMMA ClashSymmetric == \A p, q : Clash(p, q) => Clash(q, p)
  BY DEF Clash

\* Requests that clash with one request clash with each other.
LEMMA ClashTransitive ==
    \A o, p, q : Clash(o, p) /\ Clash(p, q) => Clash(o, q)
  BY DEF Clash

\* Every initial state satisfies the inductive invariant.
LEMMA CommandsStart ==
    ASSUME CommandsInit
    PROVE  CommandsInv
  BY CommandsAssumption
     DEF CommandsInit, CommandsInv, CommandsTypeOK, StepInv, EntityInv, UniqueInv,
         AuditMatchesState, ErrorsLeaveNothing, Steps

\* A request that ends in an error changes its own step and nothing else.
LEMMA CommandsFails ==
  ASSUME CommandsInv, NEW q \in Requests,
         step[q] \in {"new", "selected", "inserted"},
         NEW result \in {"rejected", "error"},
         step' = [step EXCEPT ![q] = result],
         UNCHANGED <<entity, rows, events>>, faults' \in 0..MaxFaults
  PROVE  CommandsInv'
<1>1. CommandsTypeOK'
  BY DEF CommandsInv, CommandsTypeOK, Steps
<1>2. \A p \in Requests : step'[p] = IF p = q THEN result ELSE step[p]
  BY DEF CommandsInv, CommandsTypeOK
<1>3. q \notin rows /\ \A e \in events : e[1] # q
  BY DEF CommandsInv, StepInv, AuditMatchesState, Answered
<1>4. StepInv' /\ EntityInv' /\ UniqueInv'
  BY <1>2, <1>3 DEF CommandsInv, StepInv, EntityInv, UniqueInv, Clash
<1>5. AuditMatchesState'
  BY <1>2, <1>3 DEF CommandsInv, AuditMatchesState, Answered, CommandsTypeOK
<1>6. ErrorsLeaveNothing'
  BY <1>2, <1>3 DEF CommandsInv, ErrorsLeaveNothing
<1>. QED BY <1>1, <1>4, <1>5, <1>6 DEF CommandsInv

\* No step breaks the inductive invariant.
LEMMA CommandsStep ==
    ASSUME CommandsInv, [CommandsNext]_commandVars
    PROVE  CommandsInv'
<1>0. NoRequest \notin Requests /\ MaxFaults \in Nat
  BY CommandsAssumption
<1>. USE DEF Answered
<1>1. ASSUME NEW q \in Requests, Reject(q) PROVE CommandsInv'
  <2>1. faults' \in 0..MaxFaults
    BY <1>1 DEF Reject, CommandsInv, CommandsTypeOK
  <2>. QED BY <1>1, <2>1, CommandsFails DEF Reject
<1>2. ASSUME NEW q \in Requests, Conflict(q) PROVE CommandsInv'
  <2>1. faults' \in 0..MaxFaults
    BY <1>2 DEF Conflict, CommandsInv, CommandsTypeOK
  <2>. QED BY <1>2, <2>1, CommandsFails DEF Conflict
<1>3. ASSUME NEW q \in Requests, Abort(q) PROVE CommandsInv'
  <2>1. faults' \in 0..MaxFaults
    BY <1>3, <1>0 DEF Abort, CommandsInv, CommandsTypeOK
  <2>. QED BY <1>3, <2>1, CommandsFails DEF Abort
<1>4. ASSUME NEW q \in Requests, Select(q) PROVE CommandsInv'
  <2>. DEFINE existing == {p \in rows : Clash(p, q)}
  <2>1. PICK found \in Requests \cup {NoRequest} :
          /\ entity' = [entity EXCEPT ![q] = found]
          /\ found # NoRequest => found \in rows /\ Clash(found, q)
    BY <1>4 DEF Select, CommandsInv, CommandsTypeOK
  <2>2. CommandsTypeOK'
    BY <1>4, <2>1 DEF Select, CommandsInv, CommandsTypeOK, Steps
  <2>3. \A p \in Requests : /\ step'[p] = IF p = q THEN "selected" ELSE step[p]
                            /\ entity'[p] = IF p = q THEN found ELSE entity[p]
    BY <1>4, <2>1 DEF Select, CommandsInv, CommandsTypeOK
  <2>4. step[q] = "new" /\ UNCHANGED <<rows, events>> /\ q \notin rows
    BY <1>4 DEF Select, CommandsInv, StepInv
  <2>5. found # q
    BY <2>1, <2>4, <1>0
  <2>6. StepInv'
    BY <2>3, <2>4, <2>5 DEF CommandsInv, StepInv
  <2>7. EntityInv'
    BY <2>1, <2>3, <2>4 DEF CommandsInv, EntityInv, Clash
  <2>8. UniqueInv' /\ ErrorsLeaveNothing'
    BY <2>3, <2>4 DEF CommandsInv, UniqueInv, ErrorsLeaveNothing, Clash
  <2>9. AuditMatchesState'
    BY <2>3, <2>4 DEF CommandsInv, AuditMatchesState, CommandsTypeOK
  <2>. QED BY <2>2, <2>6, <2>7, <2>8, <2>9 DEF CommandsInv
<1>5. ASSUME NEW q \in Requests, Insert(q) PROVE CommandsInv'
  <2>1. CommandsTypeOK'
    BY <1>5 DEF Insert, CommandsInv, CommandsTypeOK, Steps
  <2>2. \A p \in Requests : /\ step'[p] = IF p = q THEN "inserted" ELSE step[p]
                            /\ entity'[p] = IF p = q THEN q ELSE entity[p]
    BY <1>5 DEF Insert, CommandsInv, CommandsTypeOK
  <2>3. step[q] = "selected" /\ UNCHANGED <<rows, events>> /\ q \notin rows
    BY <1>5 DEF Insert, CommandsInv, StepInv
  <2>4. StepInv' /\ EntityInv'
    BY <2>2, <2>3 DEF CommandsInv, StepInv, EntityInv, Clash
  <2>5. \A p \in Requests \ {q} :
          p \in rows \/ step[p] = "inserted" => ~Clash(p, q) /\ ~Clash(q, p)
    BY <1>5, ClashSymmetric DEF Insert, InsertPending
  <2>6. UniqueInv'
    BY <2>2, <2>3, <2>5 DEF CommandsInv, UniqueInv, Clash
  <2>7. AuditMatchesState' /\ ErrorsLeaveNothing'
    BY <2>2, <2>3 DEF CommandsInv, AuditMatchesState, ErrorsLeaveNothing,
                      CommandsTypeOK
  <2>. QED BY <2>1, <2>4, <2>6, <2>7 DEF CommandsInv
<1>6. ASSUME NEW q \in Requests, Create(q) PROVE CommandsInv'
  <2>1. CommandsTypeOK'
    BY <1>6 DEF Create, CommandsInv, CommandsTypeOK, Steps
  <2>2. \A p \in Requests : step'[p] = IF p = q THEN "ok" ELSE step[p]
    BY <1>6 DEF Create, CommandsInv, CommandsTypeOK
  <2>3. /\ step[q] = "inserted" /\ entity' = entity /\ entity[q] = q
        /\ rows' = rows \cup {q} /\ events' = events \cup {<<q, q>>}
    BY <1>6 DEF Create, CommandsInv, StepInv
  <2>4. StepInv' /\ EntityInv' /\ UniqueInv'
    BY <2>2, <2>3, <1>0 DEF CommandsInv, StepInv, EntityInv, UniqueInv, Clash
  <2>5. AuditMatchesState'
    BY <2>2, <2>3 DEF CommandsInv, AuditMatchesState, CommandsTypeOK
  <2>6. ErrorsLeaveNothing'
    BY <2>2, <2>3 DEF CommandsInv, ErrorsLeaveNothing
  <2>. QED BY <2>1, <2>4, <2>5, <2>6 DEF CommandsInv
<1>7. ASSUME NEW q \in Requests, Repeat(q) PROVE CommandsInv'
  <2>1. /\ step[q] = "selected" /\ UNCHANGED <<entity, rows>>
        /\ entity[q] \in rows /\ entity[q] # q
        /\ events' = events \/ (events' = events \cup {<<q, entity[q]>>} /\ Command[q] = "sync")
    BY <1>7 DEF Repeat, CommandsInv, StepInv, EntityInv
  <2>2. CommandsTypeOK'
    BY <1>7, <2>1 DEF Repeat, CommandsInv, CommandsTypeOK, Steps
  <2>3. \A p \in Requests : step'[p] = IF p = q THEN "ok" ELSE step[p]
    BY <1>7 DEF Repeat, CommandsInv, CommandsTypeOK
  <2>4. StepInv' /\ EntityInv' /\ UniqueInv'
    BY <2>1, <2>3, <1>7 DEF Repeat, CommandsInv, StepInv, EntityInv, UniqueInv,
                            Clash
  <2>5. AuditMatchesState'
    BY <2>1, <2>3 DEF CommandsInv, AuditMatchesState, CommandsTypeOK
  <2>6. ErrorsLeaveNothing'
    BY <2>1, <2>3 DEF CommandsInv, ErrorsLeaveNothing
  <2>. QED BY <2>2, <2>4, <2>5, <2>6 DEF CommandsInv
<1>8. ASSUME UNCHANGED commandVars PROVE CommandsInv'
  BY <1>8 DEF commandVars, CommandsInv, CommandsTypeOK, StepInv, EntityInv, UniqueInv,
              Clash,
              AuditMatchesState, ErrorsLeaveNothing
<1>. QED
  BY <1>1, <1>2, <1>3, <1>4, <1>5, <1>6, <1>7, <1>8 DEF CommandsNext, Handle

\* The inductive invariant holds in every reachable state.
LEMMA CommandsSafe == CommandsSpec => []CommandsInv
<1>1. CommandsInit => CommandsInv
  BY CommandsStart
<1>2. CommandsInv /\ [CommandsNext]_commandVars => CommandsInv'
  BY CommandsStep
<1>. QED BY <1>1, <1>2, PTL DEF CommandsSpec

\* Requests with one Idempotency-Key that succeed name one committed entity,
\* whatever the requests, the keys and the interleaving are.
THEOREM SameAnswerTheorem == CommandsSpec => [](CommandsTypeOK /\ SameAnswer)
<1>1. CommandsInv => CommandsTypeOK /\ SameAnswer
  <2>. SUFFICES ASSUME CommandsInv, NEW p \in Requests, NEW q \in Requests,
                       Answered(p), Answered(q), Clash(p, q)
                PROVE  entity[p] = entity[q] /\ entity[q] \in rows
    BY DEF CommandsInv, SameAnswer
  <2>1. /\ entity[p] \in rows /\ (entity[p] = p \/ Clash(entity[p], p))
        /\ entity[q] \in rows /\ (entity[q] = q \/ Clash(entity[q], q))
    BY DEF Answered, CommandsInv, StepInv, EntityInv
  <2>2. Clash(entity[p], entity[q])
    BY <2>1, ClashSymmetric, ClashTransitive
  <2>3. entity[p] \in Requests /\ entity[q] \in Requests
    BY <2>1 DEF CommandsInv, CommandsTypeOK
  <2>. QED BY <2>1, <2>2, <2>3 DEF CommandsInv, UniqueInv
<1>. QED BY <1>1, CommandsSafe, PTL

\* The entities and the audit events of the outbox agree at every moment: the
\* two are written by one transaction.
THEOREM AuditTheorem == CommandsSpec => []AuditMatchesState
<1>1. CommandsInv => AuditMatchesState
  BY DEF CommandsInv
<1>. QED BY <1>1, CommandsSafe, PTL

\* A request answered with an error has left nothing behind.
THEOREM ErrorTheorem == CommandsSpec => []ErrorsLeaveNothing
<1>1. CommandsInv => ErrorsLeaveNothing
  BY DEF CommandsInv
<1>. QED BY <1>1, CommandsSafe, PTL
=============================================================================
