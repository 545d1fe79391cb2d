--------------------------- MODULE AuditLogProofs ---------------------------
(***************************************************************************)
(* Proofs about AuditLog: the integrity of the hash chain for any set of   *)
(* events, tenants and concurrent requests.                                *)
(***************************************************************************)
EXTENDS AuditLog, TLAPS

Carrying == {"begun", "waiting", "locked", "inserting", "ok", "error"}
Holding == {"locked", "inserting"}

\* A request in flight carries an event, and began in the past.
CarriesEvent ==
    \A h \in Handlers :
        hpc[h] \in Carrying => ev[h] \in Events /\ began[h] <= clock

\* The advisory lock is held exactly by the request between lock and commit.
LockInv ==
    /\ \A h \in Handlers : hpc[h] \in Holding => lock[TenantOf[ev[h]]] = h
    /\ \A h \in Handlers, t \in Tenants :
          lock[t] = h => hpc[h] \in Holding /\ TenantOf[ev[h]] = t

\* Time stamps identify transactions.
StampsDistinct ==
    /\ \A g, h \in Handlers :
          (g # h /\ hpc[g] \in Carrying /\ hpc[h] \in Carrying) => began[g] # began[h]
    /\ \A p \in rows : p.ingested_at <= clock
    /\ \A p, q \in rows : p.ingested_at = q.ingested_at => p = q
    /\ \A p \in rows, h \in Handlers :
          hpc[h] \in {"begun", "waiting", "locked", "inserting"}
            => p.ingested_at # began[h]

\* A row's hash covers its predecessor's hash and its event.
HashInv == \A p \in rows : p.record_hash = Append(p.previous_hash, p.event)

\* What a lock holder has read is still the newest row when it inserts.
PreviousIsCurrent ==
    \A h \in Handlers :
        hpc[h] = "inserting" =>
            \/ TenantRows(TenantOf[ev[h]]) = {} /\ prev[h] = <<>>
            \/ \E p \in rows :
                  Newest(p, TenantOf[ev[h]]) /\ prev[h] = p.record_hash

\* The inductive invariant.
AuditInv ==
    /\ TypeOK
    /\ CarriesEvent
    /\ LockInv
    /\ StampsDistinct
    /\ HashInv
    /\ PreviousIsCurrent
    /\ ChainClosed
    /\ OneGenesis
    /\ ForkNeedsOvertaking
    /\ OkMeansIngested

USE TenantOfAssumption, NoHandlerAssumption, NoEventAssumption, MaxTimeAssumption

\* Extending a hash gives a longer one: never the empty one, never itself.
LEMMA AppendHash ==
    ASSUME NEW s \in Hashes, NEW e \in Events
    PROVE  Append(s, e) \in Hashes /\ Append(s, e) # s /\ Append(s, e) # <<>>
<1>1. Append(s, e) \in Seq(Events) /\ Len(Append(s, e)) = Len(s) + 1
  BY DEF Hashes
<1>2. Len(s) \in Nat
  BY DEF Hashes
<1> QED BY <1>1, <1>2 DEF Hashes

\* Steps that add no row leave what the inserting requests have read current.
LEMMA PreviousKept ==
    ASSUME PreviousIsCurrent, rows' = rows,
           \A g \in Handlers :
              hpc'[g] = "inserting" =>
                 hpc[g] = "inserting" /\ ev'[g] = ev[g] /\ prev'[g] = prev[g]
    PROVE  PreviousIsCurrent'
BY DEF PreviousIsCurrent, Newest, TenantRows

\* The empty log satisfies the invariant.
LEMMA InitAuditInv == Init => AuditInv
<1> SUFFICES ASSUME Init PROVE AuditInv
  OBVIOUS
<1>1. TypeOK
  BY DEF Init, TypeOK, Steps, Hashes, Rows
<1> QED
  BY <1>1 DEF Init, AuditInv, CarriesEvent, LockInv, StampsDistinct, HashInv,
     PreviousIsCurrent, ChainClosed, OneGenesis, ForkNeedsOvertaking,
     OkMeansIngested, Carrying, Holding

\* No step breaks the invariant.
LEMMA NextAuditInv == AuditInv /\ [Next]_vars => AuditInv'
<1> SUFFICES ASSUME AuditInv, [Next]_vars PROVE AuditInv'
  OBVIOUS
<1> USE DEF AuditInv
<1>1. ASSUME NEW h \in Handlers, NEW e \in Events, Begin(h, e) PROVE AuditInv'
  <2> USE <1>1 DEF Begin
  <2>1. TypeOK'
    BY DEF TypeOK, Steps
  <2>2. CarriesEvent'
    BY DEF CarriesEvent, TypeOK, Carrying
  <2>3. LockInv'
    BY DEF LockInv, TypeOK, Holding
  <2>4. StampsDistinct'
    BY DEF StampsDistinct, CarriesEvent, TypeOK, Carrying, Rows
  <2>5. PreviousIsCurrent'
    BY PreviousKept DEF TypeOK
  <2>6. HashInv' /\ ChainClosed' /\ OneGenesis' /\ ForkNeedsOvertaking'
    BY DEF HashInv, ChainClosed, OneGenesis, ForkNeedsOvertaking, Overtook
  <2>7. OkMeansIngested'
    BY DEF OkMeansIngested, TypeOK, Ingested
  <2> QED BY <2>1, <2>2, <2>3, <2>4, <2>5, <2>6, <2>7
<1>2. ASSUME NEW h \in Handlers, FindExisting(h) PROVE AuditInv'
  <2> USE <1>2 DEF FindExisting
  <2>1. TypeOK'
    BY DEF TypeOK, Steps
  <2>2. CarriesEvent'
    BY DEF CarriesEvent, TypeOK, Carrying
  <2>3. LockInv'
    BY DEF LockInv, TypeOK, Holding
  <2>4. StampsDistinct'
    BY DEF StampsDistinct, TypeOK, Carrying
  <2>5. PreviousIsCurrent'
    BY PreviousKept DEF TypeOK
  <2>6. HashInv' /\ ChainClosed' /\ OneGenesis' /\ ForkNeedsOvertaking'
    BY DEF HashInv, ChainClosed, OneGenesis, ForkNeedsOvertaking, Overtook
  <2>7. OkMeansIngested'
    BY DEF OkMeansIngested, TypeOK, Ingested
  <2> QED BY <2>1, <2>2, <2>3, <2>4, <2>5, <2>6, <2>7
<1>3. ASSUME NEW h \in Handlers, AcquireLock(h) PROVE AuditInv'
  <2> USE <1>3 DEF AcquireLock
  <2>0. ev[h] \in Events /\ TenantOf[ev[h]] \in Tenants
    BY DEF CarriesEvent, Carrying
  <2>1. TypeOK'
    BY <2>0 DEF TypeOK, Steps
  <2>2. CarriesEvent'
    BY DEF CarriesEvent, TypeOK, Carrying
  <2>3. LockInv'
    BY <2>0 DEF LockInv, TypeOK, Holding
  <2>4. StampsDistinct'
    BY DEF StampsDistinct, TypeOK, Carrying
  <2>5. PreviousIsCurrent'
    BY PreviousKept DEF TypeOK
  <2>6. HashInv' /\ ChainClosed' /\ OneGenesis' /\ ForkNeedsOvertaking'
    BY DEF HashInv, ChainClosed, OneGenesis, ForkNeedsOvertaking, Overtook
  <2>7. OkMeansIngested'
    BY DEF OkMeansIngested, TypeOK, Ingested
  <2> QED BY <2>1, <2>2, <2>3, <2>4, <2>5, <2>6, <2>7
<1>4. ASSUME NEW h \in Handlers, ReadPrevious(h) PROVE AuditInv'
  <2> USE <1>4 DEF ReadPrevious
  <2>0. prev' \in [Handlers -> Hashes]
    <3>1. CASE prev' = [prev EXCEPT ![h] = <<>>]
      BY <3>1 DEF TypeOK, Hashes
    <3>2. CASE \E p \in rows : prev' = [prev EXCEPT ![h] = p.record_hash]
      BY <3>2 DEF TypeOK, Rows
    <3> QED BY <3>1, <3>2
  <2>1. TypeOK'
    BY <2>0 DEF TypeOK, Steps
  <2>2. CarriesEvent'
    BY DEF CarriesEvent, TypeOK, Carrying
  <2>3. LockInv'
    BY DEF LockInv, TypeOK, Holding
  <2>4. StampsDistinct'
    BY DEF StampsDistinct, TypeOK, Carrying
  <2>5. PreviousIsCurrent'
    <3> SUFFICES ASSUME NEW g \in Handlers, hpc'[g] = "inserting"
                 PROVE  \/ TenantRows(TenantOf[ev[g]]) = {} /\ prev'[g] = <<>>
                        \/ \E p \in rows :
                              /\ Newest(p, TenantOf[ev[g]])
                              /\ prev'[g] = p.record_hash
      BY DEF PreviousIsCurrent, Newest, TenantRows
    <3>1. CASE g = h
      BY <3>1 DEF TypeOK
    <3>2. CASE g # h
      BY <3>2 DEF PreviousIsCurrent, TypeOK
    <3> QED BY <3>1, <3>2
  <2>6. HashInv' /\ ChainClosed' /\ OneGenesis' /\ ForkNeedsOvertaking'
    BY DEF HashInv, ChainClosed, OneGenesis, ForkNeedsOvertaking, Overtook
  <2>7. OkMeansIngested'
    BY DEF OkMeansIngested, TypeOK, Ingested
  <2> QED BY <2>1, <2>2, <2>3, <2>4, <2>5, <2>6, <2>7
<1>5. ASSUME NEW h \in Handlers, InsertAndCommit(h) PROVE AuditInv'
  <2> DEFINE n == NewRow(h)
             t == TenantOf[ev[h]]
  <2> USE <1>5 DEF InsertAndCommit
  <2>0. /\ ev[h] \in Events
        /\ t \in Tenants
        /\ n \in Rows
        /\ n.event = ev[h]
        /\ n.ingested_at = began[h]
        /\ n.previous_hash = prev[h]
        /\ n.record_hash = Append(prev[h], ev[h])
        /\ rows' = rows \cup {n}
    BY AppendHash DEF CarriesEvent, Carrying, TypeOK, NewRow, Rows
  <2> HIDE DEF n
  <2>1. TypeOK'
    BY <2>0 DEF TypeOK, Steps, ReleaseLock
  <2>2. CarriesEvent'
    BY DEF CarriesEvent, TypeOK, Carrying
  <2>3. LockInv'
    BY DEF LockInv, CarriesEvent, Carrying, TypeOK, Holding, ReleaseLock
  <2>4. StampsDistinct'
    BY <2>0 DEF StampsDistinct, CarriesEvent, TypeOK, Carrying
  <2>5. HashInv'
    BY <2>0 DEF HashInv
  \* The row h chains to: there is none, or it is the newest of the tenant.
  <2>a. \/ TenantRows(t) = {} /\ prev[h] = <<>>
        \/ \E p \in rows : Newest(p, t) /\ prev[h] = p.record_hash
    BY DEF PreviousIsCurrent
  <2>b. \A p \in rows : p.record_hash # <<>> /\ p.record_hash # p.previous_hash
    BY AppendHash DEF HashInv, TypeOK, Rows
  <2>6. PreviousIsCurrent'
    <3> SUFFICES ASSUME NEW g \in Handlers, hpc'[g] = "inserting"
                 PROVE  \/ TenantRows(TenantOf[ev[g]])' = {} /\ prev[g] = <<>>
                        \/ \E p \in rows' :
                              /\ Newest(p, TenantOf[ev[g]])'
                              /\ prev[g] = p.record_hash
      BY DEF PreviousIsCurrent, Newest, TenantRows
    <3>1. g # h /\ hpc[g] = "inserting"
      BY DEF TypeOK
    <3>2. TenantOf[ev[g]] # t
      BY <3>1 DEF LockInv, Holding
    <3>3. TenantRows(TenantOf[ev[g]])' = TenantRows(TenantOf[ev[g]])
      BY <2>0, <3>2 DEF TenantRows
    <3> QED
      BY <2>0, <3>1, <3>3 DEF PreviousIsCurrent, Newest
  <2>7. ChainClosed'
    <3> SUFFICES ASSUME NEW p \in rows', p.previous_hash # <<>>
                 PROVE  \E q \in rows' :
                           /\ TenantOf[q.event] = TenantOf[p.event]
                           /\ q.record_hash = p.previous_hash
      BY DEF ChainClosed
    <3>1. CASE p \in rows
      BY <2>0, <3>1 DEF ChainClosed
    <3>2. CASE p = n
      BY <2>0, <2>a, <3>2 DEF Newest, TenantRows
    <3> QED BY <2>0, <3>1, <3>2
  <2>8. OneGenesis'
    <3>1. \A q \in rows : TenantOf[q.event] = t => n.previous_hash # <<>>
      BY <2>0, <2>a, <2>b DEF TenantRows
    <3> QED BY <2>0, <3>1 DEF OneGenesis
  <2>9. ForkNeedsOvertaking'
    <3>1. ASSUME NEW q \in rows, TenantOf[q.event] = t,
                 q.previous_hash = n.previous_hash
          PROVE  \E p \in rows : Overtook(p, q)
      <4>1. PICK p \in rows : Newest(p, t) /\ prev[h] = p.record_hash
        BY <2>a, <3>1 DEF TenantRows
      <4>2. q.ingested_at <= p.ingested_at
        BY <3>1, <4>1 DEF Newest, TenantRows
      <4>3. q # p
        BY <2>0, <2>b, <3>1, <4>1
      <4>4. q.ingested_at # p.ingested_at
        BY <4>3 DEF StampsDistinct
      <4>5. q.ingested_at \in Nat /\ p.ingested_at \in Nat
        BY DEF TypeOK, Rows
      <4> QED BY <2>0, <3>1, <4>1, <4>2, <4>4, <4>5 DEF Overtook
    <3>2. ASSUME NEW q \in rows, TenantOf[q.event] = t,
                 q.previous_hash = n.previous_hash
          PROVE  \E u, v \in rows' : Overtook(u, v) /\ TenantOf[v.event] = t
      BY <2>0, <3>1, <3>2
    <3>3. ASSUME NEW p \in rows, NEW q \in rows, p # q,
                 TenantOf[p.event] = TenantOf[q.event],
                 p.previous_hash = q.previous_hash
          PROVE  \E u, v \in rows' :
                    Overtook(u, v) /\ TenantOf[v.event] = TenantOf[p.event]
      BY <2>0, <3>3 DEF ForkNeedsOvertaking
    <3> SUFFICES ASSUME NEW p \in rows', NEW q \in rows', p # q,
                        TenantOf[p.event] = TenantOf[q.event],
                        p.previous_hash = q.previous_hash
                 PROVE  \E u, v \in rows' :
                           Overtook(u, v) /\ TenantOf[v.event] = TenantOf[p.event]
      BY DEF ForkNeedsOvertaking, Overtook
    <3> QED BY <2>0, <3>2, <3>3
  <2>10. OkMeansIngested'
    BY <2>0 DEF OkMeansIngested, TypeOK, Ingested
  <2> QED BY <2>1, <2>2, <2>3, <2>4, <2>5, <2>6, <2>7, <2>8, <2>9, <2>10
<1>6. ASSUME NEW h \in Handlers, UniqueViolation(h) \/ Abort(h) PROVE AuditInv'
  <2> USE <1>6 DEF UniqueViolation, Abort
  <2>1. TypeOK'
    BY DEF TypeOK, Steps, ReleaseLock
  <2>2. CarriesEvent'
    BY DEF CarriesEvent, TypeOK, Carrying
  <2>3. LockInv'
    BY DEF LockInv, CarriesEvent, Carrying, TypeOK, Holding, ReleaseLock
  <2>4. StampsDistinct'
    BY DEF StampsDistinct, TypeOK, Carrying
  <2>5. PreviousIsCurrent'
    BY PreviousKept DEF TypeOK
  <2>6. HashInv' /\ ChainClosed' /\ OneGenesis' /\ ForkNeedsOvertaking'
    BY DEF HashInv, ChainClosed, OneGenesis, ForkNeedsOvertaking, Overtook
  <2>7. OkMeansIngested'
    BY DEF OkMeansIngested, TypeOK, Ingested
  <2> QED BY <2>1, <2>2, <2>3, <2>4, <2>5, <2>6, <2>7
<1>7. ASSUME NEW h \in Handlers, Respond(h) PROVE AuditInv'
  <2> USE <1>7 DEF Respond
  <2>1. TypeOK'
    BY DEF TypeOK, Steps, Hashes
  <2>2. CarriesEvent'
    BY DEF CarriesEvent, TypeOK, Carrying
  <2>3. LockInv'
    BY DEF LockInv, TypeOK, Holding
  <2>4. StampsDistinct'
    BY DEF StampsDistinct, TypeOK, Carrying
  <2>5. PreviousIsCurrent'
    BY PreviousKept DEF TypeOK
  <2>6. HashInv' /\ ChainClosed' /\ OneGenesis' /\ ForkNeedsOvertaking'
    BY DEF HashInv, ChainClosed, OneGenesis, ForkNeedsOvertaking, Overtook
  <2>7. OkMeansIngested'
    BY DEF OkMeansIngested, TypeOK, Ingested
  <2> QED BY <2>1, <2>2, <2>3, <2>4, <2>5, <2>6, <2>7
<1>8. CASE UNCHANGED vars
  BY <1>8 DEF vars, TypeOK, CarriesEvent, LockInv, StampsDistinct, HashInv,
     PreviousIsCurrent, Newest, TenantRows, ChainClosed, OneGenesis,
     ForkNeedsOvertaking, Overtook, OkMeansIngested, Ingested
<1> QED
  BY <1>1, <1>2, <1>3, <1>4, <1>5, <1>6, <1>7, <1>8 DEF Next, Step

\* The inductive invariant holds in every reachable state.
THEOREM AuditLogSafe == Spec => []AuditInv
<1> QED BY InitAuditInv, NextAuditInv, PTL DEF Spec

\* AuditRepository.ingest links every row to a row of the same tenant, for any
\* number of concurrent and repeated requests.
THEOREM ChainTheorem == Spec => [](TypeOK /\ ChainClosed)
<1>1. AuditInv => TypeOK /\ ChainClosed
  BY DEF AuditInv
<1> QED BY <1>1, AuditLogSafe, PTL

\* Every tenant's chain has a single first row: the advisory lock keeps two
\* requests from both finding the tenant's log empty.
THEOREM GenesisTheorem == Spec => []OneGenesis
<1>1. AuditInv => OneGenesis
  BY DEF AuditInv
<1> QED BY <1>1, AuditLogSafe, PTL

\* The chain forks only where a transaction that began earlier got the
\* advisory lock later.
THEOREM ForkTheorem == Spec => []ForkNeedsOvertaking
<1>1. AuditInv => ForkNeedsOvertaking
  BY DEF AuditInv
<1> QED BY <1>1, AuditLogSafe, PTL

\* ingest_event answers 204 only for an event that is in the log.
THEOREM OkTheorem == Spec => []OkMeansIngested
<1>1. AuditInv => OkMeansIngested
  BY DEF AuditInv
<1> QED BY <1>1, AuditLogSafe, PTL
=============================================================================
