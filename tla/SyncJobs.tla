------------------------------ MODULE SyncJobs ------------------------------
(***************************************************************************)
(* Inventory synchronisation: the API that queues sync jobs, the workers   *)
(* that claim them (sentinel_inventory/worker.py), the resource rows they  *)
(* write and the projection they send to the relationship service.         *)
(*                                                                         *)
(* A worker runs three transactions (claim, subscriptions, resources) with *)
(* Azure calls between them and HTTP calls after them.  PostgreSQL runs at *)
(* READ COMMITTED: a select sees what is committed, a flushed row stays    *)
(* locked until the end of the transaction.  Sync jobs are numbered by     *)
(* requested_at; the job with the smaller number may well commit later.    *)
(*                                                                         *)
(* A resource is its two mutable columns; each column holds the version of *)
(* what Azure stored there, so a smaller number is an older value.         *)
(* row, node, azure and the scans are functions on the resources that      *)
(* exist, so their DOMAIN says which these are.                            *)
(*                                                                         *)
(* A worker that gives up after ten seconds, or dies, abandons the request *)
(* it was waiting for; the relationship service goes on with it, and it    *)
(* may commit at any later moment.  Here a request commits in one step     *)
(* (and a rebuild lists the nodes before); how the statements of two       *)
(* requests mix is the subject of Projection.                              *)
(***************************************************************************)
EXTENDS Integers, FiniteSets

CONSTANTS
    NumJobs,       \* number of sync jobs ever requested (bound)
    Workers,       \* worker processes (20-workers.yaml; more during a rollout)
    Resources,     \* Azure resources of the tenant's one subscription
    Refs,          \* Refs[r][v]: resources that version v of r's properties names
    MaxChanges,    \* changes and deletions in Azure (bound)
    MaxFaults,     \* failing calls (bound)
    MaxCrashes,    \* worker crashes (bound)
    RlsModes       \* whether row level security applies to the workers' role

ASSUME NumJobsAssumption == NumJobs \in Nat
ASSUME MaxChangesAssumption == MaxChanges \in Nat
ASSUME MaxFaultsAssumption == MaxFaults \in Nat
ASSUME MaxCrashesAssumption == MaxCrashes \in Nat
ASSUME RlsAssumption == RlsModes \subseteq BOOLEAN
ASSUME RefsAssumption == Refs \in [Resources -> [0..MaxChanges -> SUBSET Resources]]

Jobs == 1..NumJobs
Columns == {"tags", "properties"}
Contents == [Columns -> 0..MaxChanges]
Statuses == {"none", "queued", "running", "completed", "failed"}
Phases == {"idle", "claiming", "listing", "querying", "upserting", "projecting",
           "done", "failing"}

VARIABLES
    rls,          \* row level security applies (a matter of the deployment)
    registered,   \* the subscription is in inventory.subscriptions
    status,       \* status[j] of inventory.sync_jobs; "none": no such row
    row,          \* committed rows of inventory.resources
    azure,        \* the resources as they are in Azure
    node,         \* relationships.resource_nodes: version of the properties
    edges,        \* active rows of relationships.relationships
    abandoned,    \* requests to the relationship service nobody waits for
    pc,           \* pc[w]: what worker w does next
    job,          \* job[w]: the job it claimed last
    todo,         \* todo[w]: resources its current loop has still to visit
    scan,         \* scan[w]: result of query_resources
    read,         \* read[w]: the row selected and not flushed yet, if any
    pend,         \* pend[w]: columns flushed in the open transaction
    changes, faults, crashes,   \* bounded counters
    shown,        \* history: every content a resource ever had in Azure
    asked,        \* history: azure when job j was requested
    exposed       \* history, exposed[w]: sources that requests abandoned before
                  \* w completed its job may still write

apiVars == <<rls, registered, status>>
graphVars == <<node, edges, abandoned>>
boundVars == <<changes, faults, crashes>>
historyVars == <<shown, asked, exposed>>
workerVars == <<pc, job, todo, scan, read, pend>>
vars == <<apiVars, row, azure, graphVars, workerVars, boundVars, historyVars>>

Nothing == [r \in {} |-> 0]

\* f with r added, or replaced, by v.
Put(f, r, v) == [s \in DOMAIN f \cup {r} |-> IF s = r THEN v ELSE f[s]]

\* f is a function on some of the resources, with values in S.
PartialOn(f, S) == DOMAIN f \subseteq Resources /\ \A r \in DOMAIN f : f[r] \in S

\* A select's result: insert or update, and the columns the update sets.
Reads == [insert : BOOLEAN, cols : SUBSET Columns]

TypeOK ==
    /\ rls \in RlsModes
    /\ registered \in BOOLEAN
    /\ status \in [Jobs -> Statuses]
    /\ PartialOn(row, Contents) /\ PartialOn(azure, Contents)
    /\ PartialOn(node, 0..MaxChanges)
    /\ edges \subseteq Resources \X Resources
    /\ \A q \in abandoned : /\ q.job \in 0..NumJobs /\ PartialOn(q.src, 0..MaxChanges)
                            /\ q.target \subseteq DOMAIN q.src
    /\ exposed \in [Workers -> SUBSET Resources]
    /\ pc \in [Workers -> Phases]
    /\ job \in [Workers -> 0..NumJobs]
    /\ todo \in [Workers -> SUBSET Resources]
    /\ \A w \in Workers : /\ PartialOn(scan[w], Contents)
                          /\ PartialOn(read[w], Reads)
                          /\ PartialOn(pend[w], SUBSET Columns)
    /\ changes \in 0..MaxChanges
    /\ faults \in 0..MaxFaults
    /\ crashes \in 0..MaxCrashes

Init ==
    /\ rls \in RlsModes
    /\ registered = FALSE
    /\ status = [j \in Jobs |-> "none"]
    /\ row = Nothing /\ node = Nothing /\ edges = {} /\ abandoned = {}
    /\ azure = [r \in Resources |-> [c \in Columns |-> 0]]
    /\ pc = [w \in Workers |-> "idle"]
    /\ job = [w \in Workers |-> 0]
    /\ todo = [w \in Workers |-> {}]
    /\ scan = [w \in Workers |-> Nothing]
    /\ read = [w \in Workers |-> Nothing]
    /\ pend = [w \in Workers |-> Nothing]
    /\ changes = 0 /\ faults = 0 /\ crashes = 0
    /\ shown = [r \in Resources |-> {[c \in Columns |-> 0]}]
    /\ asked = [j \in Jobs |-> Nothing]
    /\ exposed = [w \in Workers |-> {}]

-----------------------------------------------------------------------------
(* Azure and the API.                                                      *)

\* A deployment changes some columns of a resource.
AzureChange(r, cols) ==
    /\ r \in DOMAIN azure
    /\ changes < MaxChanges
    /\ changes' = changes + 1
    /\ LET new == [c \in Columns |-> azure[r][c] + (IF c \in cols THEN 1 ELSE 0)]
       IN  /\ azure' = [azure EXCEPT ![r] = new]
           /\ shown' = [shown EXCEPT ![r] = @ \cup {new}]
    /\ UNCHANGED <<apiVars, row, graphVars, workerVars, faults, crashes, asked, exposed>>

AzureDelete(r) ==
    /\ r \in DOMAIN azure
    /\ changes < MaxChanges
    /\ changes' = changes + 1
    /\ azure' = [s \in DOMAIN azure \ {r} |-> azure[s]]
    /\ UNCHANGED <<apiVars, row, graphVars, workerVars, faults, crashes, historyVars>>

\* POST subscriptions/discover
Discover ==
    /\ ~registered
    /\ registered' = TRUE
    /\ UNCHANGED <<rls, status, row, azure, graphVars, workerVars, boundVars, historyVars>>

\* POST sync-jobs; an unregistered subscription is answered 422.
Request(j) ==
    /\ registered
    /\ status[j] = "none"
    /\ status' = [status EXCEPT ![j] = "queued"]
    /\ asked' = [asked EXCEPT ![j] = azure]
    /\ UNCHANGED <<rls, registered, row, azure, graphVars, workerVars, boundVars,
                   shown, exposed>>

-----------------------------------------------------------------------------
(* The worker.                                                             *)

Queued == {j \in Jobs : status[j] = "queued"}

\* Jobs whose rows a claim transaction has selected for update.
Selected == {job[v] : v \in {u \in Workers : pc[u] = "claiming"}}

\* order by requested_at limit 1
First(S, j) == j \in S /\ \A k \in S : j <= k

\* Mutant: the select takes no lock.
SelectJobUnlocked(w) ==
    /\ pc[w] \in {"idle", "done"}
    /\ \E j \in Queued : First(Queued, j) /\ job' = [job EXCEPT ![w] = j]
    /\ pc' = [pc EXCEPT ![w] = "claiming"]
    /\ UNCHANGED <<apiVars, row, azure, graphVars, todo, scan, read, pend,
                   boundVars, historyVars>>

\* claim_job: select ... for update skip locked.
SelectJob(w) ==
    /\ pc[w] \in {"idle", "done"}
    /\ \E j \in Queued : /\ First(Queued \ Selected, j)
                         /\ job' = [job EXCEPT ![w] = j]
    /\ pc' = [pc EXCEPT ![w] = "claiming"]
    /\ UNCHANGED <<apiVars, row, azure, graphVars, todo, scan, read, pend,
                   boundVars, historyVars>>

\* The claim sets the job to running and commits.
Claim(w) ==
    /\ pc[w] = "claiming"
    /\ status' = [status EXCEPT ![job[w]] = "running"]
    /\ pc' = [pc EXCEPT ![w] = "listing"]
    /\ UNCHANGED <<rls, registered, row, azure, graphVars, job, todo, scan, read, pend,
                   boundVars, historyVars>>

\* Mutant: the provider keeps the scan of the previous job.
ListSubscriptionsCached(w) ==
    /\ pc[w] = "listing"
    /\ pc' = [pc EXCEPT ![w] = "querying"]
    /\ registered' = TRUE
    /\ todo' = [todo EXCEPT ![w] = Resources \ DOMAIN scan[w]]
    /\ UNCHANGED <<rls, status, row, azure, graphVars, job, scan, read, pend, boundVars, historyVars>>

\* list_subscriptions finds the subscription; upsert_subscription commits.
ListSubscriptions(w) ==
    /\ pc[w] = "listing"
    /\ pc' = [pc EXCEPT ![w] = "querying"]
    /\ registered' = TRUE
    /\ todo' = [todo EXCEPT ![w] = Resources]
    /\ scan' = [scan EXCEPT ![w] = Nothing]
    /\ UNCHANGED <<rls, status, row, azure, graphVars, job, read, pend, boundVars, historyVars>>

\* query_resources: one page of the result, in no particular order.
QueryPage(w, r) ==
    /\ pc[w] = "querying"
    /\ r \in todo[w]
    /\ todo' = [todo EXCEPT ![w] = @ \ {r}]
    /\ scan' = [scan EXCEPT ![w] = IF r \in DOMAIN azure THEN Put(@, r, azure[r]) ELSE @]
    /\ UNCHANGED <<apiVars, row, azure, graphVars, pc, job, read, pend, boundVars, historyVars>>

\* No skip token: the scan is complete and the upsert transaction begins.
QueryEnds(w) ==
    /\ pc[w] = "querying"
    /\ todo[w] = {}
    /\ pc' = [pc EXCEPT ![w] = "upserting"]
    /\ todo' = [todo EXCEPT ![w] = DOMAIN scan[w]]
    /\ UNCHANGED <<apiVars, row, azure, graphVars, job, scan, read, pend, boundVars, historyVars>>

\* Mutant: the comparison leaves the properties out.
ReadRowTagsOnly(w, r) ==
    /\ pc[w] = "upserting"
    /\ read[w] = Nothing
    /\ r \in todo[w]
    /\ read' = [read EXCEPT ![w] = Put(@, r,
          [insert |-> r \notin DOMAIN row,
           cols   |-> {c \in Columns : r \in DOMAIN row => c = "tags"}])]
    /\ UNCHANGED <<apiVars, row, azure, graphVars, pc, job, todo, scan, pend,
                   boundVars, historyVars>>

\* upsert_resource, first half: select the row and compare it with the scan.
\* Without app.tenant_id the policy of inventory.resources hides every row.
ReadRow(w, r) ==
    /\ pc[w] = "upserting"
    /\ read[w] = Nothing
    /\ r \in todo[w]
    /\ LET found == r \in DOMAIN row /\ ~rls
       IN  read' = [read EXCEPT ![w] = Put(@, r,
              [insert |-> ~found,
               cols   |-> {c \in Columns : found => row[r][c] # scan[w][r][c]}])]
    /\ UNCHANGED <<apiVars, row, azure, graphVars, pc, job, todo, scan, pend,
                   boundVars, historyVars>>

\* Another open transaction has written r.
LockedFor(w, r) == \E v \in Workers \ {w} : r \in DOMAIN pend[v]

\* upsert_resource, second half: the flush writes the columns that differed.
\* The resource_groups row of a resource group is inserted in the same
\* transaction as its resource row, so it exists exactly if that does.
Flush(w, r) ==
    /\ r \in DOMAIN read[w]
    /\ ~LockedFor(w, r)
    /\ ~rls
    /\ read[w][r].insert => r \notin DOMAIN row
    /\ pend' = [pend EXCEPT ![w] = Put(@, r, read[w][r].cols)]
    /\ read' = [read EXCEPT ![w] = Nothing]
    /\ todo' = [todo EXCEPT ![w] = @ \ {r}]
    /\ UNCHANGED <<apiVars, row, azure, graphVars, pc, job, scan, boundVars, historyVars>>

\* What the open transaction of w makes of the rows.
Written(w) ==
    [r \in DOMAIN row \cup DOMAIN pend[w] |->
        IF r \in DOMAIN pend[w]
        THEN [c \in Columns |-> IF c \in pend[w][r] THEN scan[w][r][c] ELSE row[r][c]]
        ELSE row[r]]

\* The sources that an abandoned request may still write.
Covers(q) == IF q.target = {} /\ q.src = Nothing THEN Resources ELSE DOMAIN q.src

\* Mutant: the job gets the status of a finished operation.
CompleteSucceeded(w) ==
    /\ pc[w] = "upserting"
    /\ todo[w] = {}
    /\ row' = Written(w)
    /\ status' = [status EXCEPT ![job[w]] = "succeeded"]
    /\ pc' = [pc EXCEPT ![w] = "projecting"]
    /\ todo' = [todo EXCEPT ![w] = DOMAIN scan[w]]
    /\ pend' = [pend EXCEPT ![w] = Nothing]
    /\ exposed' = [exposed EXCEPT ![w] = UNION {Covers(q) : q \in abandoned}]
    /\ UNCHANGED <<rls, registered, azure, graphVars, job, scan, read, boundVars,
                   shown, asked>>

\* The transaction sets the job to completed and commits.
Complete(w) ==
    /\ pc[w] = "upserting"
    /\ todo[w] = {}
    /\ row' = Written(w)
    /\ status' = [status EXCEPT ![job[w]] = "completed"]
    /\ pc' = [pc EXCEPT ![w] = "projecting"]
    /\ todo' = [todo EXCEPT ![w] = DOMAIN scan[w]]
    /\ pend' = [pend EXCEPT ![w] = Nothing]
    /\ exposed' = [exposed EXCEPT ![w] = UNION {Covers(q) : q \in abandoned}]
    /\ UNCHANGED <<rls, registered, azure, graphVars, job, scan, read, boundVars,
                   shown, asked>>

\* A request to the relationship service: the one resource it projects ({} for
\* a rebuild) and the sources it visits, with the properties it knows of them.
\* A rebuild knows them when it has listed the nodes.
ProjectRequest(w, r) ==
    [job |-> job[w], target |-> {r}, src |-> [x \in {r} |-> scan[w][r]["properties"]]]

RebuildRequest(w) == [job |-> job[w], target |-> {}, src |-> Nothing]
Listed(q) == [q EXCEPT !.src = node]

\* rebuild_edges for the sources in src: active are the references that hit a
\* node other than the source itself.
Rebuilt(src, nodes) ==
    {e \in edges : e[1] \notin DOMAIN src} \cup
    {e \in (DOMAIN src) \X nodes : e[2] \in Refs[e[1]][src[e[1]]] /\ e[1] # e[2]}

\* The relationship service commits q: upsert_node of the target, and the edges
\* that leave the sources.
Serve(q) ==
    /\ node' = [r \in DOMAIN node \cup q.target |->
                   IF r \in q.target THEN q.src[r] ELSE node[r]]
    /\ edges' = Rebuilt(q.src, DOMAIN node')

\* POST internal/resources: project_resource.
Project(w, r) ==
    /\ pc[w] = "projecting"
    /\ r \in todo[w]
    /\ Serve(ProjectRequest(w, r))
    /\ todo' = [todo EXCEPT ![w] = @ \ {r}]
    /\ UNCHANGED <<apiVars, row, azure, abandoned, pc, job, scan, read, pend,
                   boundVars, historyVars>>

\* Mutant: the rebuild after the projections is left out.
RebuildSkipped(w) ==
    /\ pc[w] = "projecting"
    /\ todo[w] = {}
    /\ pc' = [pc EXCEPT ![w] = "done"]
    /\ UNCHANGED <<apiVars, row, azure, graphVars, job, todo, scan, read, pend,
                   boundVars, historyVars>>

\* POST internal/rebuild: rebuild_all; run_once returns.
Rebuild(w) ==
    /\ pc[w] = "projecting"
    /\ todo[w] = {}
    /\ Serve(Listed(RebuildRequest(w)))
    /\ pc' = [pc EXCEPT ![w] = "done"]
    /\ UNCHANGED <<apiVars, row, azure, abandoned, job, todo, scan, read, pend,
                   boundVars, historyVars>>

-----------------------------------------------------------------------------
(* Errors.                                                                 *)

Working(w) == pc[w] \in {"listing", "querying", "upserting", "projecting"}

\* An exception: the open transaction rolls back and the handler begins.
Raise(w) ==
    /\ pc' = [pc EXCEPT ![w] = "failing"]
    /\ read' = [read EXCEPT ![w] = Nothing]
    /\ pend' = [pend EXCEPT ![w] = Nothing]
    /\ todo' = [todo EXCEPT ![w] = {}]

\* A call fails and leaves nothing behind: no access to the subscription, no
\* token, an Azure or database error, a projection that is answered 500.
Fault(w) ==
    /\ Working(w)
    /\ faults < MaxFaults
    /\ faults' = faults + 1
    /\ Raise(w)
    /\ UNCHANGED <<apiVars, row, azure, graphVars, job, scan, changes, crashes, historyVars>>

\* The requests that w may be waiting for.
InFlight(w) ==
    IF pc[w] # "projecting" THEN {}
    ELSE IF todo[w] = {} THEN {RebuildRequest(w)}
    ELSE {ProjectRequest(w, r) : r \in todo[w]}

\* The relationship service does not answer within ten seconds: the worker
\* gives up, the service does not.
GiveUp(w) ==
    /\ faults < MaxFaults
    /\ faults' = faults + 1
    /\ \E q \in InFlight(w) : abandoned' = abandoned \cup {q}
    /\ Raise(w)
    /\ UNCHANGED <<apiVars, row, azure, node, edges, job, scan, changes, crashes,
                   historyVars>>

\* Mutant: a resource that the database rejects is skipped.
FlushRejectedSkipped(w, r) ==
    /\ r \in DOMAIN read[w]
    /\ ~LockedFor(w, r)
    /\ rls \/ (read[w][r].insert /\ r \in DOMAIN row)
    /\ read' = [read EXCEPT ![w] = Nothing]
    /\ todo' = [todo EXCEPT ![w] = @ \ {r}]
    /\ UNCHANGED <<apiVars, row, azure, graphVars, pc, job, scan, pend, boundVars, historyVars>>

\* PostgreSQL rejects the flush: somebody else inserted the row
\* (uq_resource_arm_id), or the policy's WITH CHECK does not admit it.
FlushRejected(w, r) ==
    /\ r \in DOMAIN read[w]
    /\ ~LockedFor(w, r)
    /\ rls \/ (read[w][r].insert /\ r \in DOMAIN row)
    /\ Raise(w)
    /\ UNCHANGED <<apiVars, row, azure, graphVars, job, scan, boundVars, historyVars>>

Waits(w, v) == DOMAIN read[w] \cap DOMAIN pend[v] # {}

\* Two transactions wait for each other: PostgreSQL picks a victim.
DeadlockVictim(w) ==
    /\ \E v \in Workers \ {w} : Waits(w, v) /\ Waits(v, w)
    /\ Raise(w)
    /\ UNCHANGED <<apiVars, row, azure, graphVars, job, scan, boundVars, historyVars>>

\* Mutant: the exception is only logged.
MarkFailedLogged(w) ==
    /\ pc[w] = "failing"
    /\ pc' = [pc EXCEPT ![w] = "idle"]
    /\ UNCHANGED <<apiVars, row, azure, graphVars, job, todo, scan, read, pend,
                   boundVars, historyVars>>

\* except Exception: the job is marked failed, whatever it was.
MarkFailed(w) ==
    /\ pc[w] = "failing"
    /\ status' = [status EXCEPT ![job[w]] = "failed"]
    /\ pc' = [pc EXCEPT ![w] = "idle"]
    /\ UNCHANGED <<rls, registered, row, azure, graphVars, job, todo, scan, read, pend,
                   boundVars, historyVars>>

\* The process dies (or the handler itself raises) and is started again; the
\* request it was waiting for, if any, is abandoned.
Crash(w) ==
    /\ Working(w) \/ pc[w] = "failing"
    /\ crashes < MaxCrashes
    /\ crashes' = crashes + 1
    /\ pc' = [pc EXCEPT ![w] = "idle"]
    /\ read' = [read EXCEPT ![w] = Nothing]
    /\ pend' = [pend EXCEPT ![w] = Nothing]
    /\ todo' = [todo EXCEPT ![w] = {}]
    /\ \E S \in {{}} \cup {{q} : q \in InFlight(w)} : abandoned' = abandoned \cup S
    /\ UNCHANGED <<apiVars, row, azure, node, edges, job, scan, changes, faults,
                   historyVars>>

\* The process dies, or the database fails, before the claim is committed: an
\* exception there ends the process, and the job is still queued.
Unclaim(w) ==
    /\ pc[w] = "claiming"
    /\ crashes < MaxCrashes
    /\ crashes' = crashes + 1
    /\ pc' = [pc EXCEPT ![w] = "idle"]
    /\ job' = [job EXCEPT ![w] = 0]
    /\ UNCHANGED <<apiVars, row, azure, graphVars, todo, scan, read, pend,
                   changes, faults, historyVars>>

-----------------------------------------------------------------------------
(* The relationship service goes on with an abandoned request.             *)

\* rebuild_all lists the nodes.
LateList(q) ==
    /\ q.target = {} /\ q.src = Nothing
    /\ abandoned' = (abandoned \ {q}) \cup {Listed(q)}
    /\ UNCHANGED <<apiVars, row, azure, node, edges, workerVars, boundVars, historyVars>>

\* (A rebuild that has not listed anything commits nothing.)
LateCommit(q) ==
    /\ Serve(q)
    /\ abandoned' = abandoned \ {q}
    /\ UNCHANGED <<apiVars, row, azure, workerVars, boundVars, historyVars>>

\* It is rolled back: a database error, or the service dies.
LateFailure(q) ==
    /\ abandoned' = abandoned \ {q}
    /\ UNCHANGED <<apiVars, row, azure, node, edges, workerVars, boundVars, historyVars>>

-----------------------------------------------------------------------------
Environment ==
    \/ Discover
    \/ \E j \in Jobs : Request(j)
    \/ \E r \in Resources : AzureDelete(r)
    \/ \E r \in Resources, cols \in SUBSET Columns \ {{}} : AzureChange(r, cols)

Run(w) ==
    \/ SelectJob(w) \/ Claim(w) \/ ListSubscriptions(w) \/ QueryEnds(w) \/ Complete(w)
    \/ Rebuild(w) \/ DeadlockVictim(w) \/ MarkFailed(w)
    \/ \E r \in Resources : \/ QueryPage(w, r) \/ ReadRow(w, r)
                            \/ Flush(w, r) \/ FlushRejected(w, r) \/ Project(w, r)

Trouble(w) == Fault(w) \/ GiveUp(w) \/ Crash(w) \/ Unclaim(w)
Late(q) == LateList(q) \/ LateCommit(q) \/ LateFailure(q)

Next ==
    \/ Environment
    \/ \E w \in Workers : Run(w) \/ Trouble(w)
    \/ \E q \in abandoned : Late(q)

Spec == Init /\ [][Next]_vars

\* A worker process keeps running; requests, changes and faults need not
\* happen.
FairSpec == Spec /\ \A w \in Workers : WF_vars(Run(w))

-----------------------------------------------------------------------------
(* Properties.                                                             *)

\* The job a worker works on is its own, and its status says how far the
\* worker got: claim_job hands a job out once although many workers poll.
JobExclusive ==
    \A w \in Workers :
        /\ pc[w] \notin {"idle", "done"} => \A v \in Workers \ {w} : job[v] # job[w]
        /\ pc[w] = "claiming" => status[job[w]] = "queued"
        /\ pc[w] \in {"listing", "querying", "upserting"} => status[job[w]] = "running"
        /\ pc[w] \in {"projecting", "done"} => status[job[w]] = "completed"

\* Every row shows a resource as Azure showed it at some moment, all columns
\* of the same moment.
RowsWereShown == \A r \in DOMAIN row : row[r] \in shown[r]

\* Where row level security applies to the workers, the synchronisation of a
\* tenant never gets anywhere, however often it is tried: no row is written,
\* no node projected, and a job completes only if it found nothing in Azure.
RlsStopsSync ==
    rls => /\ row = Nothing /\ node = Nothing
           /\ \A w \in Workers : pc[w] \in {"projecting", "done"} => scan[w] = Nothing

\* a is nowhere older than b.
NotOlder(a, b) == \A c \in Columns : a[c] >= b[c]

\* A completed job brought the inventory up to date: a row is at least as new
\* as its resource was when the job was requested.
CompletedIsFresh ==
    \A j \in Jobs : status[j] = "completed" =>
        \A r \in DOMAIN asked[j] \cap DOMAIN azure :
            r \in DOMAIN row /\ NotOlder(row[r], asked[j][r])

\* The dependency graph that the inventory implies.
Implied == {e \in (DOMAIN row) \X (DOMAIN row) :
                e[2] \in Refs[e[1]][row[e[1]]["properties"]] /\ e[1] # e[2]}

\* When run_once has succeeded, every resource it scanned is a node, and the
\* graph shows it as the inventory does, whatever the order of the projections
\* was and whatever earlier requests are still to commit: only the sources of
\* requests abandoned before the job was completed are at their mercy.
GraphFollowsInventory ==
    \A w \in Workers : pc[w] = "done" =>
        /\ DOMAIN scan[w] \subseteq DOMAIN node
        /\ \A r \in DOMAIN scan[w] \ exposed[w] :
              /\ node[r] = row[r]["properties"]
              /\ \A x \in DOMAIN scan[w] : <<r, x>> \in edges <=> <<r, x>> \in Implied

\* A crash strands the one job its worker was at; every other job that the
\* API accepted ends, although workers lock each other's rows.
CrashStrandsOneJob ==
    <>[](Cardinality({j \in Jobs : status[j] \in {"queued", "running"}}) <= crashes)
=============================================================================
