# Sentinel Key Vault: TLA+ models and proofs

This directory holds a formal model of the Sentinel backend: TLA+ modules translated
from the Python services under `apps/` and `packages/python/sentinel_common`, TLC
configurations that check them on small instances, and TLAPS proofs of the most important
results for every size of instance. `PROJECT.json` lists the components, the runs, the
source lines each definition stands for, the mutants that show that each property can
fail, and the hazards the properties are aimed at.

## 1. The system and its inventory

Sentinel is a control plane for Azure Key Vault changes: six FastAPI services over one
PostgreSQL database (READ COMMITTED, one schema per service), two kinds of background
workers, and a web front end. Services do not share tables, except `platform.outbox`.

| Part | State | Operations | Correct means |
| --- | --- | --- | --- |
| Unit of work (`sentinel_common/db.py`) | open transaction | commit on success, rollback on any exception, always before the response | an error leaves nothing behind |
| Outbox (`sentinel_common/audit.py`) | `platform.outbox`: status, attempts, available_at | `enqueue_audit` inside the business transaction; `claim_outbox` | business state and audit event commit together; no row is claimed twice |
| Relay (`sentinel_common/outbox_worker.py`) | the claimed record object (a copy) | claim, POST, write back `published`, `pending` or `dead` | published means delivered; given up only after the attempt limit; a crash loses no record |
| Audit service (`sentinel_audit`) | `audit.audit_logs` with a hash chain per tenant | `ingest` (dedupe, advisory lock, link, insert), search | one row per event; one chain per tenant |
| Inventory API (`sentinel_inventory/main.py`) | subscriptions, `sync_jobs` | discover, create sync job, lists | one job per Idempotency-Key |
| Inventory worker (`sentinel_inventory/worker.py`) | job status, `resources`, scan in memory | claim, list subscriptions, query, upsert, complete, project, rebuild, mark failed | a job has one worker and ends; rows show what Azure showed; a completed job is fresh |
| Relationship service (`sentinel_relationship`) | `resource_nodes`, `relationships` | project a resource, rebuild all, bounded graph query | the graph follows the inventory; a query respects its bounds and says when it was cut off |
| Operations (`sentinel_operations`) | `operations` | create (idempotent), execute (always 409) | one operation per key |
| Change intelligence (`sentinel_intelligence`) | `assessments` | create a draft assessment | one event per assessment |
| Identity (`sentinel_identity`) | tenants, users, roles, OAuth connections, session cookies | login, callback (onboarding), profile, permissions, roles, token broker | one administrator per new tenant; a sign-in is all or nothing; the newest refresh token is kept; requests do not starve each other of connections |
| Migration 0003 (`database/migrations`) | scope keys of tenants, authorities of connections | upgrade, downgrade | an account finds its tenant again; personal accounts are apart |

How the parts meet:

* every command of a service adds an outbox record to its own transaction; the relays send
  these over HTTP (5 s timeout) to the audit service, with retries, so ingest must be
  idempotent;
* the inventory worker calls Azure (with a token from the identity service's broker) and
  afterwards the relationship service, over HTTP and outside of any transaction;
* all workers may run more than once: the manifests ask for one replica, a rolling update
  lets two overlap, and claims use `FOR UPDATE SKIP LOCKED`.

What is hard here: a lease that runs out under a working relay; a client timeout that leaves
a request running in the audit service; the start time of a transaction used as an order
while a lock decides the real one; a select whose result is used at a later flush; commits
and HTTP calls in a sequence that may break off anywhere; requests with the same key at the
same moment; two projections of one resource; a refresh token that rotates while its user
signs in; sessions opened inside sessions when the pool is exhausted; a migration that is
undone and done again; the bounds of a breadth-first search. `PROJECT.json` lists each as a hazard at
its source line.

## 2. Modules

| Module | Models | Extends or instantiates |
| --- | --- | --- |
| `Outbox` | outbox table and relays; the audit service is an environment | |
| `AuditLog` | concurrent ingest transactions and the hash chain | |
| `AuditPipeline` | relays and audit service joined by HTTP; implements `Outbox` | `Outbox`, `AuditLog` (INSTANCE) |
| `SyncJobs` | sync job API, workers, resource rows, projection | |
| `Commands` | idempotent commands of inventory, operations, intelligence | |
| `GraphTraversal` | the bounded graph query | |
| `Projection` | overlapping requests that write the dependency graph | |
| `Identity` | callback, bearer and session requests, token broker, connection pool | |
| `Accounts` | tenants and authorities of accounts over migration 0003 | |
| `...Proofs` | theorems about each module above | the module they are named after; `OutboxProofs` also `Commands` |
| `MC...` | instances for TLC | the module they are named after |

Definitions whose comment begins with "Mutant" are not part of any specification. Each is a
plausible mistake in the action that follows it, and shows that a property notices it.

### Outbox

Records are numbered by `created_at`. `status`, `attempts` and `due` are columns
(`available_at` is reduced to whether it has passed); `pc`, `rec` and `copy` are a relay's
place in its loop, the record it holds and the attempt number that object remembers.
`Enqueue`/`Commit`/`Rollback` are the services; `SelectForUpdate`, `CommitClaim`, `Post`,
`Ack`/`PublishFails`, `MarkPublished`/`MarkFailed` are the steps of the loop, one per point
at which another process can run; `Crash` may strike at each of them. A write-back writes
the object the relay holds whatever the row is by then, as the code does. `Covered` is
the set of records whose five-minute lease never runs out while a relay works on them.

### AuditLog

A request runs `Begin`, `FindExisting`, `AcquireLock`, `ReadPrevious`, `InsertAndCommit`,
and may be answered by `UniqueViolation` or lost by `Abort`. `ingested_at` is the start of
the transaction, as PostgreSQL's `now()` is. A hash is the sequence of events it covers
(SHA-256 without collisions).

### AuditPipeline

Outbox's environment variable `ingested` becomes the events that have a row; `Post` puts a
message on the network, a request slot receives it, and the answer reaches the relay only
if it still waits. A relay that times out or crashes leaves its request running.
`ImplementsOutbox` is `Outbox!Spec` under this mapping.

### SyncJobs

One tenant with one subscription. A resource is two columns, `tags` and `properties`, each
holding the version that Azure stored, so that older, newer and mixed rows can be told
apart; what a version of the properties refers to (`Refs`) is arbitrary and stands for the
extractors. The worker's steps are its selects, flushes, commits and calls: between
`SelectJob` and `Claim` another worker may select a job of its own, between
`ReadRow` and `Flush` another worker may commit the row, and flushed rows are locked until
commit. `FlushRejected` is a unique violation or the row level security policy,
`DeadlockVictim` PostgreSQL's deadlock detection, `MarkFailed` the handler that catches
everything, `Crash` the end of the process (`Unclaim` if the claim was not committed yet).
The scan reads page by page while Azure changes.

A call to the relationship service is one step, `Project` or `Rebuild`, unless the worker
stops waiting for it: `GiveUp` is its timeout of ten seconds, and a `Crash` may strike while
it waits too. The service goes on with such a request, which stays in `abandoned` with what
it was sent until it lists the nodes, commits or fails (`LateList`, `LateCommit`,
`LateFailure`), at any later moment, even after other jobs are done. `exposed` is history:
the sources that such requests may still write when a worker completes its job.

### Commands

A request is one HTTP call; `Clash` is the unique constraint on tenant and key. `Select`
sees committed rows, `Insert` waits for an uncommitted row with the same key and then either
goes on or fails (`Conflict`, an uncaught IntegrityError, answered 500). `Create` and
`Repeat` commit the entity and the outbox record; sync jobs audit a repeated request too,
operations do not, assessments have no key.

### GraphTraversal

`RelationshipService.graph` edge by edge: `QueryLevel` is the query of one depth, `Skip` and
`Visit` the loop over its rows in any order, `EndLevel` the rest of the body. Edges may
change between two levels (`EdgeChanges`).

### Projection

In `SyncJobs` a request to this service commits in one step, in time or late. Here
`project_resource` and `rebuild_relationships` run statement by statement, several at once,
because a worker that gave up after ten seconds, or a second worker, sends the next request
while the service still runs the first. `SelectNode` and `FlushNode` are `upsert_node`, `ListNodes` the select
of a rebuild, `ReadEdges` and `FindTarget` the statements of `rebuild_edges`. The session
flushes only when told to, so edges are written by `Commit`, and SQLAlchemy writes only the
columns that differ from what it read (`Written`): an edge that was deactivated and
activated again is left alone, whatever another request made of it meanwhile. `NodeConflict`,
`EdgeConflict` and `DeadlockVictim` are the answers 500 that overlapping requests can cause.
`solo`, `since`, `mixed` and `late` are history: who was alone with a source, and which nodes
came too late for its last visitor.

### Identity

One identity scope. `db` is the set of committed rows (tenant, users, roles, assignments,
OAuth connections, outbox events) and `pend[q]` the rows that request `q` has flushed.
`SelectTenant` to `KnownRole` are the statements of `onboard_oauth_user` and
`resolve_and_sync`: a select sees committed rows, a flush waits for a row that another
transaction holds, and `Conflict` is the IntegrityError of a row that was committed since
the select. `Finish` is the rest of the callback with its commit. Requests with a bearer
token (`ResolveBearer`) or a session cookie (`ResolveSession`) go on to `profile`,
`permissions` or `roles`, which open a second session while `get_session` holds the first
(`AuditProfile`, `ReadCatalogue`), answer from what they have (`ReadOwn`) or refuse
(`Forbid`); then the first session commits (`CommitSession`). The broker reads the
connection, waits for Microsoft with its transaction open and stores a rotated token over
whatever is stored by then (`SelectConnection`, `Refresh`, `StoreToken`). Microsoft numbers
its tokens in the model, so that older and newer can be told apart. Every session takes a
connection from the pool with its first statement (`PoolFree`); who gets none within thirty
seconds is answered 500 (`PoolTimeout`). `Abort` is any other failure. Initial states are the
three that `bootstrap_identity` can leave and one in which its administrator has signed in.

### Accounts

The rows of `identity.tenants` with their scope keys, the users of each, and the authority
at which each refresh token is redeemed. `SignIn` is `onboard_oauth_user` as one step (its
interleavings are in `Identity`), `Bootstrap` is `bootstrap_identity`, `Upgrade` and
`Downgrade` are migration 0003. `SignInOld` is the release before it, which is not in the
repository; what it did is what the migration undoes. `old` and `legacy` are history.

## 3. Runs

| Run | Checks | Shows |
| --- | --- | --- |
| `outbox` | PublishedWasIngested, DeadWasTriedEnough, AttemptIdentifiesHolder, EventuallySettled; LeaseExclusive, SettledIsFinal for the record whose lease holds | with two relays and a crash statuses are true and every record settles for good, even if its lease runs out under a relay; if the lease holds, one relay at a time and a final status |
| `audit_log` | ChainClosed, OneGenesis, ForkNeedsOvertaking, EveryRequestAnswered | the lock keeps each chain closed with one root; forks need an overtaken transaction |
| `audit_pipeline` | ImplementsOutbox, PublishedExactlyOnce, AtLeastOnce | the real service satisfies what Outbox assumes; delivery is exactly once in the log, and certain while attempts remain |
| `audit_pipeline_fork` | LinearChain, violated | one relay and one timeout fork the chain |
| `sync_jobs` | TypeOK, RowsWereShown, CompletedIsFresh, GraphFollowsInventory; RlsStopsSync where the policy applies to the worker | with one worker, no torn rows, fresh inventory, a graph faithful except for the sources that abandoned requests may still write; under the documented role, nothing at all |
| `sync_jobs_two` | JobExclusive, CrashStrandsOneJob | with two workers that select at the same moment, claims exclude each other and locks strand no job; two crashes strand the jobs they hit and no other |
| `sync_jobs_torn` | RowsWereShown, violated | two workers write a row Azure never showed |
| `commands` | SameAnswer, AuditMatchesState, EveryRequestAnswered | overlapping requests with one key name one entity |
| `graph_traversal` | ExactWhenComplete, Connected, TruncatedMeansFull, NodeBound | what a bounded search returns and claims |
| `projection` | TypeOK with referential integrity, StaleNeedsOverlap, RefusedNeedsOverlap, RequestsAnswered | the graph is wrong, and a request refused, only where requests for the same sources overlapped, and the next one alone repairs it |
| `identity` | TypeOK, OneAdministrator, SignInAtomic, OrphanNeedsFailure, OlderTokenNeedsOverlap, SignInsAnswered | who administers a tenant; a sign-in is all or nothing; a newer refresh token is lost only to a request that overlapped its own; nobody waits for ever, with the pool exhausted too |
| `accounts` | SignInFindsTenant, SharedNeedsOldRelease, AuthorityFollowsAccount | organisations keep their tenants over every migration; personal accounts share one only through the previous release; where tokens are redeemed |

The type invariants of `Outbox`, `AuditLog`, `Commands`, `GraphTraversal` and `Accounts` are
proved (section 4), as are `AttemptsBounded`, `OkMeansIngested` and `ErrorsLeaveNothing`, and
have no run.

### Bounds

Two relays, two records and two attempts reach every race of the outbox: one relay to be
overtaken, one to overtake, and a record that is given up while another is retried; one record
has a lease that holds and one has not, and the crash lets the limit be overrun. Three events
of one tenant are the least with which a chain can fork; a second tenant shows that locks and
chains do not mix, and two request slots are enough because only one holds the lock. The
pipeline's faults and crash together use up fewer than its three attempts, which `AtLeastOnce`
needs. Sync jobs: two jobs so that a job follows another's rows, two changes so that rows can
be old, newer and newest, two resources so that order and deadlock matter. A torn row needs
three jobs: one to create the row, two to race. `sync_jobs` has a fault and a crash: either may
abandon a request of the first job, which then commits, or does not, around anything the second
job does. `sync_jobs_two` has two crashes and no fault, because rejected flushes and deadlock
victims already fail its jobs. Commands: three requests with one key, so that one waits for a
row whose writer may still fail. Graphs: all graphs of three nodes, all depths up to three,
node bounds from below to above the number of nodes. Projection: two resources that refer to
each other, in two versions, are the least in which a projection can disturb another's edges;
of four requests two may race, a third joins either, and the last repairs. Identity: two users
who sign in first at the same moment, and the broker, a bearer token and a cookie on behalf of
one of them, who may be the bootstrap administrator; one failure at any statement. Two
connections are exhausted by two requests that each want a second, three leave one to go on;
the code's thirty differ from them only in how many requests it takes. Accounts: two upgrades
are the least after which a workspace was personal, was shared and is migrated again; three
personal accounts, so that two may come after one. TLC explores each instance completely.
`CHECK_DEADLOCK` is off because every instance may stop: all records settled, all requests
answered, the search done.

### Fairness

Relays and workers are processes that are restarted for ever: weak fairness of their steps.
Wall-clock time passes: weak fairness of `BecomeDue`. A request that a service accepted runs to
its end; in `Projection` and `Identity`, where requests are finite in number and each ends, it
is enough that the service as a whole goes on. PostgreSQL queues the waiters of an advisory
lock: strong fairness of `AcquireLock`. Nothing is assumed of clients, of Azure, of the
network's faults, of crashes, of requests that a worker abandoned or of the services that
enqueue events. In `Outbox` the audit service need never answer.

## 4. Proofs

All proofs are checked by TLAPS with the assumptions on the constants stated in the modules
and nothing else; where a theorem has a hypothesis of its own it is named below. Each module
has one inductive invariant, or a few that build on each other.

* `OutboxProofs` (any numbers of records, relays, attempts, crashes; any set
  `Covered`). `OutboxInv` adds to the checked properties what the relays know: a relay
  past its claim holds an existing record, a locked row stays eligible, an acknowledged
  event is ingested, a relay's copy of `attempts` is never ahead of the row. The last makes
  `DeadWasTriedEnough` inductive although the decision comes from a stale copy. For
  `Covered` records, `LeaseInForce` (the worker's copy is current and its row not due) and
  `SpareAttempt` (a claimable row has an attempt left, plus one per crash) give
  `LeaseExclusive`, `AttemptsBounded` and the action property `SettledIsFinal`.
* `AuditLogProofs` (any events, tenants and requests). `AuditInv` says that the lock is held
  exactly between lock and commit, that time stamps identify transactions, that a hash
  covers its row's predecessor and event, and that what a lock holder read is still the
  newest row when it inserts. `ForkNeedsOvertaking` then follows: a second successor of a
  row can be inserted only if the first one carries an older time stamp than its predecessor.
  That a lock holder who found no row is alone with an empty log gives `OneGenesis`.
* `AuditPipelineProofs` (any records, relays, slots, timeouts and crashes). `PInv` types the
  network and adds: a request, on the wire or in the service, carries an event that was posted,
  and whoever waits for it waits for that event (`Carried`); a relay waits for one request at a
  time (`OneRequest`); an event has one row at most, and whoever counts on it has it
  (`Recorded`). With it every step of the pipeline is a step of `Outbox` or a stutter under the
  mapping, so `ImplementsOutbox` holds and the invariants that `OutboxProofs` proves hold of
  relays that talk to the real service. `PublishedExactlyOnce` follows from `Recorded`.
* `AccountsProofs` (any accounts, tenants and sequence of migrations). The three properties are
  not inductive, because an upgrade computes keys and authorities from what a downgrade left.
  `OldSchema` says that under the previous schema the Entra tenant id is unique; `NewSchema`
  that under the current one a tenant has the key of an organisation or is the workspace of the
  one account that can be its user; `UsersFit` that users have their tenant's id and
  connections are those of users.
* `IdentityProofs` (any users, requests, pool and failures). `SInv` says for each request what
  it has written and what it has found at its step (`Local`), that only one request creates
  the tenant (`Lock`), and which committed rows come together (`Committed`). `OneAdministrator`
  needs the lock: nobody else counts the users of a new tenant before its first sign-in is
  committed or gone. For tokens, `TInv` says that two requests of a user that were under way
  together have met, and of two that have not, the one under way has no token yet or the newer.
* `SyncJobsProofs` (any workers, jobs, resources, contents, faults and crashes). `TInv`: types,
  what the open transaction of a worker holds (`Held`), and `Whole`: a resource without a row
  is inserted with all its columns, so that no row ever lacks one. `JInv` adds `Claimed` (a job
  that a worker holds is queued only while its claim is not committed) for `JobExclusive`;
  `RInv` adds `Hidden` (under row level security a worker flushes nothing) and `NoTargets` (and
  abandons no projection) for `RlsStopsSync`. `RowsWereShown`, `CompletedIsFresh` and
  `GraphFollowsInventory` are proved under the hypothesis `OneWorker`, which is what the
  manifest asks for (`deploy/kubernetes/20-workers.yaml`, one replica); without it
  `sync_jobs_torn` refutes the first. Their invariant `OInv` says that Azure only goes forward,
  that the columns a flush leaves alone are those in which row and scan agree, that a scan is
  complete and no older than any claimed request, and that what was projected is what was
  written. The last holds only of sources that are not `exposed`, which is part of
  `GraphFollowsInventory`: `Exposes` says that a request still abandoned covers exposed sources
  only, so a late commit leaves the others alone. Without the exception the property is false
  with one worker too: a crash during a projection, the next job done, then the old projection
  commits.
* `OutboxProofs`, second part: `Commands` (any requests and keys). `CommandsInv` relates a
  request's step to what it holds and states uniqueness of committed and pending rows
  together, which neither has alone; `SameAnswer`, `AuditMatchesState` and that errors leave
  nothing behind follow.
* `ProjectionProofs` (any resources, references, requests and failures). `GInv` says what a
  request works on and what it holds (`Local`: the node it flushed or found, the edges it
  will insert with committed nodes at their ends or the node it inserts itself), and what a
  request that was alone with a source knows of the node and the edges of that source, up to
  its commit; that the candidates it skipped had no node when it began; and that nobody else
  under way writes a source one is alone with (`Alone`). Referential integrity, the refusals of
  `RefusedNeedsOverlap` and the differences of `StaleNeedsOverlap` follow from it.
* `GraphTraversalProofs` (any finite graph, query and changes). `RoomForOne`: a search that is
  not cut off has room for one more node; as every row of a level has one end that was
  already visited, a row adds at most one. With types and depth this gives `NodeBound`.
  `CutOff` relates the flag to the bound at every step of the search, for `TruncatedMeansFull`.
  The other two properties compare the answer with `Ball`, a recursive function of the radius.
  What is true of radius 0 and of each next radius is true of all (`SetInduction`, from the
  library's theorem that less-than is well-founded), which gives the recursion of `Ball`, that
  balls grow with radius and graph, and that a ball no edge leaves is the last one. `OnePiece`
  (all nodes in hand were reached over edges in hand) gives `Connected`; `Exact` (visited
  nodes are a ball, the frontier its rim) gives `ExactWhenComplete`.

Only model-checked: every liveness property, because fairness and ENABLED are out of the
prover's reach: `EventuallySettled`, `AtLeastOnce`, `EveryRequestAnswered` (twice),
`CrashStrandsOneJob`, `SignInsAnswered` and `RequestsAnswered`. All other properties of the
passing runs are theorems.

## 5. Where code and documentation disagree

With a violated run: the forked hash chain (`audit_pipeline_fork`) and the torn row
(`sync_jobs_torn`). `PROJECT.json` quotes the documents. With a property that states what
does hold:

* `claim_job` looks at queued jobs only, and nothing resets a running one
  (`sentinel_inventory/repository.py:115`), so a crash strands the job of its worker, and
  only that (`CrashStrandsOneJob`); `docs/adrs/004-asynchronous-workflows.md:18` says "Work
  survives process restarts and scales independently.";
* the worker's transactions never set `app.tenant_id` (`worker.py:58`), so under forced row
  level security (`database/schema.sql:530`) no sync of a resource completes
  (`RlsStopsSync`); `docs/architecture/data-architecture.md:43` says "The application role
  cannot bypass RLS.";
* ADR 010 says "Two consumer accounts cannot share Sentinel roles or data" and "refresh
  tokens are redeemed through `/common`". The migration leaves accounts that shared a tenant
  together until each signs in again, and gives their connections the consumer tenant as
  authority, which the broker keeps (`SharedNeedsOldRelease`, `AuthorityFollowsAccount`);
* the broker stores a rotated token over a newer one of a sign-in that it overlapped
  (`OlderTokenNeedsOverlap`).

Plain from the code, without a run:

* a job is completed before its projections (`sentinel_inventory/worker.py:85`); a worker that
  dies in between leaves it completed without its graph, until a later job of the tenant
  projects again. A projection or rebuild that a worker gave up may commit after that later
  job and put older properties and edges back (`GraphFollowsInventory` names the sources at
  risk, `StaleNeedsOverlap` the requests);
* a record is `dead` after 20 failures and nothing reads it again (`outbox_worker.py:37`),
  `docs/architecture/overview.md:146` asks for "No acknowledged event loss";
* no code ever sets a resource to `missing` (`worker.py:61`),
  `docs/architecture/data-architecture.md:94` says a full scan does;
* assessments take no Idempotency-Key (`sentinel_intelligence/main.py:48`),
  `docs/api/api-contracts.md:16` requires it for commands that create work;
* an operation's assessment is not looked up (`sentinel_operations/main.py:71`),
  `docs/api/api-contracts.md:203` says an operation is created only from a completed one;
* a graph query with `max_nodes` 1 returns two nodes (`sentinel_relationship/service.py:61`):
  `NodeBound` states the bound that does hold;
* the event of a profile request commits in a session of its own before the user it is
  about (`sentinel_identity/main.py:272`), `docs/architecture/data-architecture.md:25` says
  "Business state and audit events commit atomically": `OrphanNeedsFailure` states what is
  left of it. Nothing limits a prepared tenant to one administrator either: two first
  sign-ins that both count no users both become one (`OneAdministrator` is about tenants
  that a sign-in created), and none does if a bearer token came first.

## 6. Not modelled

Web application, Terraform, manifests and gateway configuration (declarative or
presentation); token validation, cookie signing and encryption (cryptography); Key Vault,
logging and telemetry (pure input and output); the login blob, which is best effort and read
by nobody; a `bootstrap_identity` that runs beside requests; the lists and searches, which
are one statement each and change nothing; the worker's credential cache, which decides by
the clock; `RiskEngine` and the catalogue of operations, which no request uses to change state.
Tenants and users that are not active: no code makes one.
In the modelled parts: time stamps are distinct, several tenants share nothing but the
processes, and the contents of events, resources and scores are abstract.

## 7. Plan

Every safety property that a run checks is proved. What could follow: abstract specifications
of what the audit log and the commands promise to their callers, with step by step
refinements like that of `Outbox` by `AuditPipeline`; and the safety halves of the
liveness properties, namely that a relay, a request or a worker that waits always has
somebody to wait for.
