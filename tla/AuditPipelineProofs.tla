------------------------- MODULE AuditPipelineProofs -------------------------
(***************************************************************************)
(* The audit path implements Outbox, for any number of records, relays,    *)
(* request slots, faults and crashes, and a published record has exactly   *)
(* one row in the audit log.                                               *)
(***************************************************************************)
EXTENDS AuditPipeline, FiniteSetTheorems, TLAPS

Ids == 1..NumRecords
Messages == [event : Ids, relay : Relays \cup {NoRelay}]

PTyped ==
    /\ status \in [Ids -> Box!Statuses]
    /\ pc \in [Relays -> Box!Phases]
    /\ rec \in [Relays -> Ids \cup {0}]
    /\ hpc \in [Handlers -> Log!Steps]
    /\ ev \in [Handlers -> Ids \cup {NoEvent}]
    /\ client \in [Handlers -> Relays \cup {NoRelay}]
    /\ net \subseteq Messages
    /\ \A p \in rows : p.event \in Ids

\* Relay r, if it is one, waits for the answer to event e.
WaitsFor(r, e) == r \in Relays => pc[r] = "posting" /\ rec[r] = e

\* A request, on the wire or in the service, carries an event that was posted,
\* and whoever waits for it waits for that event.
Carried ==
    /\ \A r \in Relays : pc[r] # "idle" => rec[r] \in Ids
    /\ \A m \in net : m.event \in posted /\ WaitsFor(m.relay, m.event)
    /\ \A h \in Handlers :
          hpc[h] # "idle" => ev[h] \in Ids /\ ev[h] \in posted /\ WaitsFor(client[h], ev[h])
    /\ \A h \in Handlers : hpc[h] = "idle" => client[h] = NoRelay

\* A relay waits for one request at a time.
OneRequest ==
    /\ \A g, h \in Handlers : g # h /\ client[g] \in Relays => client[h] # client[g]
    /\ \A h \in Handlers : \A m \in net : client[h] \in Relays => m.relay # client[h]

\* An event has one row at most, and whoever counts on it has it.
Recorded ==
    /\ \A p, q \in rows : p.event = q.event => p = q
    /\ \A h \in Handlers : hpc[h] = "ok" => ev[h] \in Log!Ingested
    /\ \A r \in Relays : pc[r] = "acked" => rec[r] \in Log!Ingested
    /\ \A e \in Ids : status[e] = "published" => e \in Log!Ingested

PInv == PTyped /\ Carried /\ OneRequest /\ Recorded

\* The rows decide what is ingested.
LEMMA IngestedKept == rows' = rows => Log!Ingested' = Log!Ingested
  BY DEF Log!Ingested

LEMMA IngestedGrows ==
    ASSUME NEW h \in Handlers, Log!InsertAndCommit(h)
    PROVE  Log!Ingested' = Log!Ingested \cup {ev[h]}
  <1>1. rows' = rows \cup {Log!NewRow(h)} /\ Log!NewRow(h).event = ev[h]
    BY DEF Log!InsertAndCommit, Log!NewRow
  <1> QED BY <1>1 DEF Log!Ingested

LEMMA InitRefines == Init => Box!Init
  BY DEF Init

\* Every step of the audit path is a step of Outbox, or none.
LEMMA StepRefines ==
    ASSUME PInv, [Next]_vars
    PROVE  [Box!Next]_Box!vars
  <1>0. ASSUME UNCHANGED boxVars, rows' = rows PROVE UNCHANGED Box!vars
    BY <1>0, IngestedKept DEF boxVars, Box!vars, Box!rowVars, Box!relayVars
  <1>1. ASSUME NEW e \in 1..NumRecords, Services(e) \/ TimePasses(e) PROVE Box!Next
    BY <1>1 DEF Services, TimePasses, Box!Next, Box!Records
  <1>2. ASSUME NEW r \in Relays, RelayLoop(r) \/ Send(r) \/ GiveUp(r) \/ RelayCrash(r)
        PROVE  Box!Next
    BY <1>2 DEF RelayLoop, Send, GiveUp, RelayCrash, Box!Next, Box!RelayStep, Box!Records
  <1>3. ASSUME NEW h \in Handlers, Ingest(h) PROVE Box!Next \/ UNCHANGED Box!vars
    <2>1. CASE Log!InsertAndCommit(h)
      <3>1. hpc[h] = "inserting" /\ ev[h] \notin Log!Ingested
        BY <2>1 DEF Log!InsertAndCommit
      <3>2. ev[h] \in Ids /\ ev[h] \in posted
        BY <3>1 DEF PInv, Carried
      <3>3. Log!Ingested' = Log!Ingested \cup {ev[h]} /\ UNCHANGED boxVars
        BY <1>3, <2>1, IngestedGrows DEF Ingest
      <3>4. Box!AuditIngests(ev[h])
        BY <3>1, <3>2, <3>3 DEF Box!AuditIngests, boxVars, Box!rowVars, Box!relayVars
      <3> QED BY <3>2, <3>4 DEF Box!Next, Box!Records, Ids
    <2>2. CASE ~Log!InsertAndCommit(h)
      <3>1. UNCHANGED boxVars /\ rows' = rows
        BY <1>3, <2>2 DEF Ingest, Log!FindExisting, Log!AcquireLock, Log!ReadPrevious,
                          Log!UniqueViolation
      <3> QED BY <1>0, <3>1
    <2> QED BY <2>1, <2>2
  <1>4. ASSUME NEW h \in Handlers, AnswerOk(h) PROVE Box!Next
    <2>1. client[h] \in Relays /\ hpc[h] = "ok" /\ Box!Acked(client[h])
      BY <1>4 DEF AnswerOk, Answer, PInv, PTyped
    <2>2. rec[client[h]] \in Log!Ingested
      BY <2>1 DEF PInv, Carried, WaitsFor, Recorded
    <2> QED BY <2>1, <2>2 DEF Box!Ack, Box!RelayStep, Box!Next
  <1>5. ASSUME NEW h \in Handlers, AnswerError(h) PROVE Box!Next
    <2>1. client[h] \in Relays /\ Box!PublishFails(client[h])
      BY <1>5 DEF AnswerError, Answer, PInv, PTyped
    <2> QED BY <2>1 DEF Box!RelayStep, Box!Next
  <1>6. ASSUME NEW h \in Handlers, AbortIngest(h) \/ AnswerNobody(h) PROVE UNCHANGED Box!vars
    BY <1>0, <1>6 DEF AbortIngest, AnswerNobody, Answer, Log!Abort, Log!Respond
  <1>7. ASSUME NEW h \in Handlers, NEW m \in net, Receive(h, m) PROVE UNCHANGED Box!vars
    BY <1>0, <1>7 DEF Receive, Log!Begin
  <1>8. ASSUME NEW m \in net, Lose(m) PROVE UNCHANGED Box!vars
    BY <1>0, <1>8 DEF Lose, logVars
  <1>9. CASE UNCHANGED vars
    BY <1>0, <1>9 DEF vars, logVars
  <1> QED BY <1>1, <1>2, <1>3, <1>4, <1>5, <1>6, <1>7, <1>8, <1>9 DEF Next

-----------------------------------------------------------------------------
(* PInv is inductive.                                                      *)

LEMMA PInvInit == Init => PInv
  <1> SUFFICES ASSUME Init PROVE PInv
    OBVIOUS
  <1> USE DEF Init, Log!Init, Box!Init, Ids
  <1>1. PTyped
    BY DEF PTyped, Box!Records, Box!Statuses, Box!Phases, Log!Steps
  <1>2. Carried
    BY DEF Carried
  <1>3. OneRequest
    BY NoRelayAssumption DEF OneRequest
  <1>4. Recorded
    BY DEF Recorded, Box!Records
  <1> QED BY <1>1, <1>2, <1>3, <1>4 DEF PInv

\* A step of the services and of a relay's loop: nobody waits for the relay
\* that takes it.
LEMMA BoxSteps ==
    ASSUME PInv, UNCHANGED <<logVars, linkVars>>,
           \/ \E e \in Ids : Box!Enqueue(e) \/ Box!Commit(e) \/ Box!Rollback(e) \/ Box!BecomeDue(e)
           \/ \E r \in Relays : \/ \E e \in Ids : Box!SelectForUpdate(r, e)
                                \/ Box!CommitClaim(r) \/ Box!MarkPublished(r) \/ Box!MarkFailed(r)
    PROVE  PInv'
  <1>0. PTyped /\ Carried /\ OneRequest /\ Recorded
    BY DEF PInv
  <1>a. /\ UNCHANGED <<rows, hpc, ev, net, client>> /\ Log!Ingested' = Log!Ingested
    BY IngestedKept DEF logVars, linkVars
  <1>1. ASSUME NEW e \in Ids, Box!Enqueue(e) \/ Box!Commit(e) \/ Box!Rollback(e) \/ Box!BecomeDue(e)
        PROVE  PInv'
    <2>1. UNCHANGED <<pc, rec, posted>>
      BY <1>1 DEF Box!Enqueue, Box!Commit, Box!Rollback, Box!EndTransaction, Box!BecomeDue,
                  Box!relayVars
    <2>2. /\ status' \in [Ids -> Box!Statuses]
          /\ \A f \in Ids : status'[f] = "published" => status[f] = "published"
      BY <1>0, <1>1 DEF PTyped, Box!Enqueue, Box!Commit, Box!Rollback, Box!EndTransaction,
                        Box!BecomeDue, Box!Statuses
    <2>3. PTyped'
      BY <1>0, <1>a, <2>1, <2>2 DEF PTyped
    <2>4. Carried' /\ OneRequest'
      BY <1>0, <1>a, <2>1 DEF Carried, OneRequest, WaitsFor
    <2>5. Recorded'
      BY <1>0, <1>a, <2>1, <2>2 DEF Recorded
    <2> QED BY <2>3, <2>4, <2>5 DEF PInv
  <1>2. ASSUME NEW r \in Relays,
               \/ \E e \in Ids : Box!SelectForUpdate(r, e)
               \/ Box!CommitClaim(r) \/ Box!MarkPublished(r) \/ Box!MarkFailed(r)
        PROVE  PInv'
    <2>1. /\ pc[r] \notin {"posting"} /\ pc'[r] \in {"selected", "claimed", "idle"}
          /\ \A s \in Relays : s # r => pc'[s] = pc[s] /\ rec'[s] = rec[s]
          /\ pc' \in [Relays -> Box!Phases] /\ rec' \in [Relays -> Ids \cup {0}]
          /\ posted' = posted
      BY <1>0, <1>2 DEF PTyped, Box!SelectForUpdate, Box!CommitClaim, Box!ClaimWith,
         Box!MarkPublished, Box!MarkFailed, Box!FailWith, Box!Release, Box!Phases
    <2>2. pc'[r] # "idle" => rec'[r] \in Ids
      BY <1>0, <1>2 DEF PTyped, Carried, Box!SelectForUpdate, Box!CommitClaim, Box!ClaimWith,
         Box!MarkPublished, Box!MarkFailed, Box!FailWith, Box!Release
    <2>3. status' \in [Ids -> Box!Statuses]
      BY <1>0, <1>2 DEF PTyped, Box!SelectForUpdate, Box!CommitClaim, Box!ClaimWith,
         Box!MarkPublished, Box!MarkFailed, Box!FailWith, Box!rowVars, Box!Statuses
    <2>4. \A f \in Ids : status'[f] = "published" =>
             status[f] = "published" \/ (pc[r] = "acked" /\ f = rec[r])
      BY <1>0, <1>2 DEF PTyped, Box!SelectForUpdate, Box!CommitClaim, Box!ClaimWith,
         Box!MarkPublished, Box!MarkFailed, Box!FailWith, Box!rowVars
    <2>5. PTyped'
      BY <1>0, <1>a, <2>1, <2>3 DEF PTyped
    <2>6. \A s, e : WaitsFor(s, e) => WaitsFor(s, e)'
      BY <2>1 DEF WaitsFor
    <2>7. Carried'
      BY <1>0, <1>a, <2>1, <2>2, <2>6 DEF Carried
    <2>8. OneRequest'
      BY <1>0, <1>a DEF OneRequest
    <2>9. Recorded'
      BY <1>0, <1>a, <2>1, <2>4 DEF Recorded
    <2> QED BY <2>5, <2>7, <2>8, <2>9 DEF PInv
  <1> QED BY <1>1, <1>2

LEMMA SendStep ==
    ASSUME PInv, NEW r \in Relays, Send(r)
    PROVE  PInv'
  <1>0. PTyped /\ Carried /\ OneRequest /\ Recorded
    BY DEF PInv
  <1> DEFINE m0 == [event |-> rec[r], relay |-> r]
  <1>1. /\ UNCHANGED <<rows, hpc, ev, client, status, rec>> /\ Log!Ingested' = Log!Ingested
        /\ pc[r] = "claimed" /\ pc' = [pc EXCEPT ![r] = "posting"]
        /\ posted' = posted \cup {rec[r]} /\ net' = net \cup {m0}
    BY IngestedKept DEF Send, Box!Post, logVars, Box!rowVars
  <1>2. rec[r] \in Ids /\ m0 \in Messages /\ m0.event = rec[r] /\ m0.relay = r
    BY <1>0, <1>1 DEF Carried, Messages
  <1> HIDE DEF m0
  <1>3. /\ pc'[r] = "posting" /\ pc' \in [Relays -> Box!Phases]
        /\ \A s \in Relays : s # r => pc'[s] = pc[s]
    BY <1>0, <1>1 DEF PTyped, Box!Phases
  <1>4. PTyped'
    BY <1>0, <1>1, <1>2, <1>3 DEF PTyped
  <1>5. \A s, e : WaitsFor(s, e) => WaitsFor(s, e)'
    BY <1>1, <1>3 DEF WaitsFor
  <1>6. \A s, e : s = r /\ e = rec[r] => WaitsFor(s, e)'
    BY <1>1, <1>2, <1>3 DEF WaitsFor
  <1>7. Carried'
    BY <1>0, <1>1, <1>2, <1>3, <1>5, <1>6 DEF Carried
  <1>8. \A h \in Handlers : client[h] # r
    BY <1>0, <1>1, NoRelayAssumption DEF Carried, WaitsFor
  <1>9. OneRequest'
    BY <1>0, <1>1, <1>2, <1>8 DEF OneRequest
  <1>10. Recorded'
    BY <1>0, <1>1, <1>3 DEF Recorded
  <1> QED BY <1>4, <1>7, <1>9, <1>10 DEF PInv

\* A message is accepted, or lost.
LEMMA ReceiveStep ==
    ASSUME PInv, NEW h \in Handlers, NEW m \in net, Receive(h, m)
    PROVE  PInv'
  <1>0. PTyped /\ Carried /\ OneRequest /\ Recorded
    BY DEF PInv
  <1>1. /\ UNCHANGED <<rows, status, rec, pc, posted>> /\ Log!Ingested' = Log!Ingested
        /\ hpc[h] = "idle" /\ hpc' = [hpc EXCEPT ![h] = "begun"]
        /\ ev' = [ev EXCEPT ![h] = m.event] /\ net' = net \ {m}
        /\ client' = [client EXCEPT ![h] = m.relay]
    BY IngestedKept DEF Receive, Log!Begin, boxVars
  <1>2. /\ m.event \in Ids /\ m.relay \in Relays \cup {NoRelay}
        /\ m.event \in posted /\ WaitsFor(m.relay, m.event)
    BY <1>0 DEF PTyped, Messages, Carried
  <1>3. /\ hpc'[h] = "begun" /\ ev'[h] = m.event /\ client'[h] = m.relay
        /\ \A g \in Handlers : g # h => hpc'[g] = hpc[g] /\ ev'[g] = ev[g] /\ client'[g] = client[g]
    BY <1>0, <1>1 DEF PTyped
  <1>4. PTyped'
    <2>1. /\ hpc' \in [Handlers -> Log!Steps] /\ ev' \in [Handlers -> Ids \cup {NoEvent}]
          /\ client' \in [Handlers -> Relays \cup {NoRelay}]
      BY <1>0, <1>1, <1>2 DEF PTyped, Log!Steps
    <2> QED BY <1>0, <1>1, <2>1 DEF PTyped
  <1>5. \A s, e : WaitsFor(s, e) => WaitsFor(s, e)'
    BY <1>1 DEF WaitsFor
  <1>6. Carried'
    BY <1>0, <1>1, <1>2, <1>3, <1>5 DEF Carried
  <1>7. \A n \in net : n # m => n.relay # m.relay \/ n.relay \notin Relays
    <2> SUFFICES ASSUME NEW n \in net, n.relay = m.relay, n.relay \in Relays PROVE n = m
      OBVIOUS
    <2>1. n.event = m.event
      BY <1>0, <1>2 DEF Carried, WaitsFor
    <2> QED BY <1>0, <2>1 DEF PTyped, Messages
  <1>8. OneRequest'
    BY <1>0, <1>1, <1>3, <1>7 DEF OneRequest
  <1>9. Recorded'
    BY <1>0, <1>1, <1>3 DEF Recorded
  <1> QED BY <1>4, <1>6, <1>8, <1>9 DEF PInv

LEMMA LoseStep ==
    ASSUME PInv, NEW m \in net, Lose(m)
    PROVE  PInv'
  <1>1. /\ UNCHANGED <<rows, status, rec, pc, posted, hpc, ev, client>>
        /\ Log!Ingested' = Log!Ingested /\ net' \subseteq net
    BY IngestedKept DEF Lose, boxVars, logVars
  <1>2. PTyped' /\ OneRequest' /\ Recorded'
    BY <1>1 DEF PInv, PTyped, OneRequest, Recorded
  <1>3. Carried'
    BY <1>1 DEF PInv, Carried, WaitsFor
  <1> QED BY <1>2, <1>3 DEF PInv

\* The ingest transaction goes on, commits or dies.
LEMMA IngestStep ==
    ASSUME PInv, NEW h \in Handlers, Ingest(h) \/ AbortIngest(h)
    PROVE  PInv'
  <1>0. PTyped /\ Carried /\ OneRequest /\ Recorded
    BY DEF PInv
  <1>1. UNCHANGED <<status, rec, pc, posted, net, client, ev>>
    BY DEF Ingest, AbortIngest, boxVars, linkVars, Log!FindExisting, Log!AcquireLock,
           Log!ReadPrevious, Log!InsertAndCommit, Log!UniqueViolation, Log!Abort
  <1>2. /\ hpc[h] # "idle" /\ hpc'[h] # "idle" /\ hpc' \in [Handlers -> Log!Steps]
        /\ \A g \in Handlers : g # h => hpc'[g] = hpc[g]
    BY <1>0 DEF PTyped, Ingest, AbortIngest, Log!FindExisting, Log!AcquireLock, Log!Steps,
                Log!ReadPrevious, Log!InsertAndCommit, Log!UniqueViolation, Log!Abort
  <1>3. \A s, e : WaitsFor(s, e) => WaitsFor(s, e)'
    BY <1>1 DEF WaitsFor
  <1>4. Carried'
    BY <1>0, <1>1, <1>2, <1>3 DEF Carried
  <1>5. OneRequest'
    BY <1>0, <1>1 DEF OneRequest
  <1>6. CASE Log!InsertAndCommit(h)
    <2>1. /\ rows' = rows \cup {Log!NewRow(h)} /\ Log!NewRow(h).event = ev[h]
          /\ ev[h] \notin Log!Ingested /\ ev[h] \in Ids
      BY <1>0, <1>2, <1>6 DEF Log!InsertAndCommit, Log!NewRow, Carried
    <2>2. Log!Ingested' = Log!Ingested \cup {ev[h]}
      BY <1>6, IngestedGrows
    <2>3. \A p \in rows : p.event # ev[h]
      BY <2>1 DEF Log!Ingested
    <2>4. PTyped'
      BY <1>0, <1>1, <1>2, <2>1 DEF PTyped
    <2>5. \A p, q \in rows' : p.event = q.event => p = q
      BY <1>0, <2>1, <2>3 DEF Recorded
    <2>6. Recorded'
      BY <1>0, <1>1, <1>2, <2>2, <2>5 DEF Recorded
    <2> QED BY <1>4, <1>5, <2>4, <2>6 DEF PInv
  <1>7. CASE ~Log!InsertAndCommit(h)
    <2>1. /\ rows' = rows
          /\ hpc'[h] = "ok" => ev[h] \in Log!Ingested
      BY <1>0, <1>7 DEF PTyped, Ingest, AbortIngest, Log!FindExisting, Log!AcquireLock,
                  Log!ReadPrevious, Log!UniqueViolation, Log!Abort
    <2>2. Log!Ingested' = Log!Ingested
      BY <2>1, IngestedKept
    <2>3. PTyped'
      BY <1>0, <1>1, <1>2, <2>1 DEF PTyped
    <2>4. Recorded'
      BY <1>0, <1>1, <1>2, <2>1, <2>2 DEF Recorded
    <2> QED BY <1>4, <1>5, <2>3, <2>4 DEF PInv
  <1> QED BY <1>6, <1>7

\* An answer: it ends the waiting of the relay that gets it, if any.
LEMMA AnswerStep ==
    ASSUME PInv, NEW h \in Handlers, AnswerOk(h) \/ AnswerError(h) \/ AnswerNobody(h)
    PROVE  PInv'
  <1>0. PTyped /\ Carried /\ OneRequest /\ Recorded
    BY DEF PInv
  <1> DEFINE r == client[h]
  <1>1. /\ UNCHANGED <<rows, status, rec, posted, net>>
        /\ hpc[h] # "idle" /\ hpc' = [hpc EXCEPT ![h] = "idle"]
        /\ ev' = [ev EXCEPT ![h] = NoEvent] /\ client' = [client EXCEPT ![h] = NoRelay]
    BY DEF AnswerOk, AnswerError, AnswerNobody, Answer, Log!Respond, Box!Acked,
           Box!PublishFails, Box!rowVars, boxVars
  <1>2. Log!Ingested' = Log!Ingested
    BY <1>1, IngestedKept
  <1>3. /\ hpc'[h] = "idle" /\ client'[h] = NoRelay
        /\ \A g \in Handlers : g # h => hpc'[g] = hpc[g] /\ ev'[g] = ev[g] /\ client'[g] = client[g]
    BY <1>0, <1>1 DEF PTyped
  <1>4. /\ pc' \in [Relays -> Box!Phases]
        /\ \A s \in Relays : s # r => pc'[s] = pc[s]
    BY <1>0 DEF PTyped, AnswerOk, AnswerError, AnswerNobody, boxVars, Box!Acked,
                Box!PublishFails, Box!Phases
  <1>5. r \in Relays => pc'[r] \in {"acked", "failed"} /\ (pc'[r] = "acked" => hpc[h] = "ok")
    BY <1>0, NoRelayAssumption
    DEF PTyped, AnswerOk, AnswerError, AnswerNobody, Answer, Box!Acked, Box!PublishFails
  <1>6. r \in Relays => ev[h] = rec[r] /\ pc[r] = "posting"
    BY <1>0, <1>1 DEF Carried, WaitsFor
  <1> HIDE DEF r
  <1>7. PTyped'
    <2>1. /\ hpc' \in [Handlers -> Log!Steps] /\ ev' \in [Handlers -> Ids \cup {NoEvent}]
          /\ client' \in [Handlers -> Relays \cup {NoRelay}]
      BY <1>0, <1>1 DEF PTyped, Log!Steps
    <2> QED BY <1>0, <1>1, <1>4, <2>1 DEF PTyped
  <1>8. \A s, e : WaitsFor(s, e) /\ s # r => WaitsFor(s, e)'
    BY <1>1, <1>4 DEF WaitsFor
  <1>9. \A s : WaitsFor(NoRelay, s)'
    BY NoRelayAssumption DEF WaitsFor
  <1>10. /\ \A g \in Handlers : g # h /\ r \in Relays => client[g] # r
         /\ \A m \in net : r \in Relays => m.relay # r
    BY <1>0 DEF OneRequest, r
  <1>11. r \in Relays \cup {NoRelay}
    BY <1>0 DEF PTyped, r
  <1>12. \A m \in net : m.event \in posted /\ WaitsFor(m.relay, m.event)'
    BY <1>0, <1>8, <1>9, <1>10, <1>11 DEF Carried
  <1>13. \A g \in Handlers : g # h /\ hpc[g] # "idle" =>
            ev[g] \in Ids /\ ev[g] \in posted /\ WaitsFor(client[g], ev[g])
    BY <1>0 DEF Carried
  <1>14. ASSUME NEW g \in Handlers, hpc'[g] # "idle"
         PROVE  ev'[g] \in Ids /\ ev'[g] \in posted /\ WaitsFor(client[g], ev[g])
                /\ client'[g] = client[g] /\ ev'[g] = ev[g] /\ (client[g] = r => r = NoRelay)
    BY <1>3, <1>10, <1>11, <1>13, <1>14
  <1>15. \A g \in Handlers : hpc'[g] # "idle" => \A c, e : c = client[g] /\ e = ev[g] => WaitsFor(c, e)'
    BY <1>8, <1>9, <1>14
  <1>16. Carried'
    <2>1. \A s \in Relays : pc'[s] # "idle" => rec'[s] \in Ids
      BY <1>0, <1>1, <1>4, <1>6 DEF Carried
    <2>2. \A g \in Handlers : hpc'[g] = "idle" => client'[g] = NoRelay
      BY <1>0, <1>3 DEF Carried
    <2> QED BY <1>1, <1>12, <1>14, <1>15, <2>1, <2>2 DEF Carried
  <1>17. OneRequest'
    BY <1>0, <1>1, <1>3, NoRelayAssumption DEF OneRequest
  <1>18. \A s \in Relays : pc'[s] = "acked" => rec[s] \in Log!Ingested
    BY <1>0, <1>4, <1>5, <1>6 DEF Recorded
  <1>19. Recorded'
    BY <1>0, <1>1, <1>2, <1>3, <1>18 DEF Recorded
  <1> QED BY <1>7, <1>16, <1>17, <1>19 DEF PInv

\* The relay turns away: its request goes on, and nobody waits for it.
LEMMA AbandonStep ==
    ASSUME PInv, NEW r \in Relays, GiveUp(r) \/ RelayCrash(r)
    PROVE  PInv'
  <1>0. PTyped /\ Carried /\ OneRequest /\ Recorded
    BY DEF PInv
  <1>1. /\ UNCHANGED <<rows, status, posted, hpc, ev>>
        /\ client' = [h \in Handlers |-> IF client[h] = r THEN NoRelay ELSE client[h]]
        /\ net' = {[m EXCEPT !.relay = IF m.relay = r THEN NoRelay ELSE m.relay] : m \in net}
    BY DEF GiveUp, RelayCrash, Abandon, logVars, Box!PublishFails, Box!Crash, Box!rowVars
  <1>2. Log!Ingested' = Log!Ingested
    BY <1>1, IngestedKept
  <1>3. /\ pc' \in [Relays -> Box!Phases] /\ rec' \in [Relays -> Ids \cup {0}]
        /\ \A s \in Relays : s # r => pc'[s] = pc[s] /\ rec'[s] = rec[s]
        /\ pc'[r] \in {"failed", "idle"}
        /\ pc'[r] = "failed" => rec'[r] = rec[r] /\ pc[r] # "idle"
    BY <1>0 DEF PTyped, GiveUp, RelayCrash, Box!PublishFails, Box!Crash, Box!Release, Box!Phases
  <1>4. \A n \in net' : \E m \in net :
           /\ n \in Messages /\ n.event = m.event /\ n.relay # r
           /\ n.relay = NoRelay \/ n.relay = m.relay
    <2> SUFFICES ASSUME NEW m \in net,
                        NEW n, n = [m EXCEPT !.relay = IF m.relay = r THEN NoRelay ELSE m.relay]
                 PROVE  /\ n \in Messages /\ n.event = m.event /\ n.relay # r
                        /\ n.relay = NoRelay \/ n.relay = m.relay
      BY <1>1
    <2>1. m \in Messages
      BY <1>0 DEF PTyped
    <2> QED BY <2>1, NoRelayAssumption DEF Messages
  <1>5. \A h \in Handlers : client'[h] # r /\ (client'[h] = NoRelay \/ client'[h] = client[h])
    BY <1>1, NoRelayAssumption
  <1>6. PTyped'
    <2>1. client' \in [Handlers -> Relays \cup {NoRelay}]
      BY <1>0, <1>1 DEF PTyped
    <2>2. net' \subseteq Messages
      BY <1>4
    <2> QED BY <1>0, <1>1, <1>3, <2>1, <2>2 DEF PTyped
  <1>7. \A s, e : WaitsFor(s, e) /\ s # r => WaitsFor(s, e)'
    BY <1>3 DEF WaitsFor
  <1>8. \A e : WaitsFor(NoRelay, e)'
    BY NoRelayAssumption DEF WaitsFor
  <1>9. Carried'
    <2>1. \A s \in Relays : pc'[s] # "idle" => rec'[s] \in Ids
      BY <1>0, <1>3 DEF Carried
    <2>2. ASSUME NEW n \in net'
          PROVE  n.event \in posted /\ \A s, e : s = n.relay /\ e = n.event => WaitsFor(s, e)'
      <3>1. PICK m \in net : /\ n.event = m.event /\ n.relay # r
                             /\ n.relay = NoRelay \/ n.relay = m.relay
        BY <1>4
      <3>2. m.event \in posted /\ WaitsFor(m.relay, m.event)
        BY <1>0 DEF Carried
      <3> QED BY <1>7, <1>8, <3>1, <3>2
    <2>3. ASSUME NEW h \in Handlers, hpc'[h] # "idle"
          PROVE  /\ ev'[h] \in Ids /\ ev'[h] \in posted
                 /\ \A s, e : s = client'[h] /\ e = ev'[h] => WaitsFor(s, e)'
      <3>1. ev[h] \in Ids /\ ev[h] \in posted /\ WaitsFor(client[h], ev[h])
        BY <1>0, <1>1, <2>3 DEF Carried
      <3> QED BY <1>1, <1>5, <1>7, <1>8, <3>1
    <2>4. \A h \in Handlers : hpc'[h] = "idle" => client'[h] = NoRelay
      BY <1>0, <1>1, <1>5 DEF Carried
    <2> QED BY <1>1, <2>1, <2>2, <2>3, <2>4 DEF Carried
  <1>10. OneRequest'
    <2>1. \A g, h \in Handlers : g # h /\ client'[g] \in Relays => client'[h] # client'[g]
      BY <1>0, <1>5, NoRelayAssumption DEF OneRequest
    <2>2. \A h \in Handlers : \A n \in net' : client'[h] \in Relays => n.relay # client'[h]
      BY <1>0, <1>4, <1>5, NoRelayAssumption DEF OneRequest
    <2> QED BY <2>1, <2>2 DEF OneRequest
  <1>11. Recorded'
    BY <1>0, <1>1, <1>2, <1>3 DEF Recorded
  <1> QED BY <1>6, <1>9, <1>10, <1>11 DEF PInv

LEMMA PInvStep ==
    ASSUME PInv, [Next]_vars
    PROVE  PInv'
  <1>1. ASSUME NEW e \in 1..NumRecords, Services(e) \/ TimePasses(e) PROVE PInv'
    BY <1>1, BoxSteps DEF Services, TimePasses, Ids
  <1>2. ASSUME NEW r \in Relays, RelayLoop(r) PROVE PInv'
    BY <1>2, BoxSteps DEF RelayLoop, Ids
  <1>3. ASSUME NEW r \in Relays, Send(r) \/ GiveUp(r) \/ RelayCrash(r) PROVE PInv'
    BY <1>3, SendStep, AbandonStep
  <1>4. ASSUME NEW h \in Handlers,
               \/ Ingest(h) \/ AbortIngest(h)
               \/ AnswerOk(h) \/ AnswerError(h) \/ AnswerNobody(h)
        PROVE  PInv'
    BY <1>4, IngestStep, AnswerStep
  <1>5. ASSUME NEW h \in Handlers, NEW m \in net, Receive(h, m) PROVE PInv'
    BY <1>5, ReceiveStep
  <1>6. ASSUME NEW m \in net, Lose(m) PROVE PInv'
    BY <1>6, LoseStep
  <1>7. CASE UNCHANGED vars
    <2>1. /\ UNCHANGED <<rows, status, rec, pc, posted, hpc, ev, client, net>>
          /\ Log!Ingested' = Log!Ingested
      BY <1>7, IngestedKept DEF vars, boxVars, logVars, linkVars
    <2>2. PTyped' /\ OneRequest' /\ Recorded'
      BY <2>1 DEF PInv, PTyped, OneRequest, Recorded
    <2>3. Carried'
      BY <2>1 DEF PInv, Carried, WaitsFor
    <2> QED BY <2>2, <2>3 DEF PInv
  <1> QED BY <1>1, <1>2, <1>3, <1>4, <1>5, <1>6, <1>7 DEF Next

-----------------------------------------------------------------------------
\* Outbox's assumption about the audit service is met by the real one: HTTP
\* requests that are lost, delayed, answered late or executed twice, and ingest
\* transactions that race or die, show the relays nothing but what Outbox's
\* environment may do.  So what OutboxProofs proves of the outbox holds of the
\* whole path.
THEOREM ImplementsOutboxTheorem == Spec => ImplementsOutbox
  <1>1. Init => PInv /\ Box!Init
    BY PInvInit, InitRefines
  <1>2. PInv /\ [Next]_vars => PInv'
    BY PInvStep
  <1>3. PInv /\ [Next]_vars => [Box!Next]_Box!vars
    BY StepRefines
  <1> QED BY <1>1, <1>2, <1>3, PTL DEF Spec, ImplementsOutbox, Box!Spec

\* A record that a relay has marked published has one row in the audit log and
\* not two, however often it was sent and whichever of the requests won.
THEOREM PublishedExactlyOnceTheorem == Spec => []PublishedExactlyOnce
  <1>1. Init => PInv
    BY PInvInit
  <1>2. PInv /\ [Next]_vars => PInv'
    BY PInvStep
  <1>3. PInv => PublishedExactlyOnce
    <2> SUFFICES ASSUME PInv, NEW e \in 1..NumRecords, status[e] = "published"
                 PROVE  Cardinality({p \in rows : p.event = e}) = 1
      BY DEF PublishedExactlyOnce
    <2>1. e \in Log!Ingested
      BY DEF PInv, Recorded, Ids
    <2>2. PICK p \in rows : p.event = e
      BY <2>1 DEF Log!Ingested
    <2>3. {q \in rows : q.event = e} = {p}
      BY <2>2 DEF PInv, Recorded
    <2> QED BY <2>3, FS_Singleton
  <1> QED BY <1>1, <1>2, <1>3, PTL DEF Spec

==============================================================================
