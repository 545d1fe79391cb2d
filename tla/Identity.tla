------------------------------ MODULE Identity ------------------------------
(***************************************************************************)
(* The requests of the identity service, as concurrent transactions that   *)
(* share a pool of database connections: the OAuth callback that onboards  *)
(* tenants and users (onboard_oauth_user), requests with a bearer token,   *)
(* which synchronise their user first (resolve_and_sync), requests with a  *)
(* session cookie (resolve_session), and the token broker that the sync    *)
(* workers call (delegated_azure_token).                                   *)
(*                                                                         *)
(* One identity scope: an organisation's Entra tenant, or a personal       *)
(* account with its single user.  Scopes share no rows.  A request has     *)
(* passed the checks of state, tokens and claims, which touch no state.    *)
(* No code suspends a tenant or disables a user, so the checks of that are *)
(* left out.                                                               *)
(*                                                                         *)
(* PostgreSQL runs at READ COMMITTED: selects see committed rows, a        *)
(* flushed row is locked and invisible until the transaction ends, and a   *)
(* flush of a row that another transaction holds waits for its end.  A     *)
(* session takes a connection with its first statement and holds it until  *)
(* the transaction ends.                                                   *)
(***************************************************************************)
EXTENDS Integers, FiniteSets

CONSTANTS
    Users,             \* the scope's users
    BootstrapAdmin,    \* the user of bootstrap_admin_object_id
    Requests,
    UserOf,            \* UserOf[q]: whom request q is about
    Kind,              \* Kind[q]: which of the four it is
    PoolSizes,         \* pool_size + max_overflow (30 in the code)
    MaxFaults          \* transactions that fail for other reasons (bound)

ASSUME BootstrapAssumption == BootstrapAdmin \in Users
ASSUME UserOfAssumption == UserOf \in [Requests -> Users]
ASSUME KindAssumption == Kind \in [Requests -> {"callback", "bearer", "session", "broker"}]
ASSUME PoolAssumption == PoolSizes \subseteq Nat \ {0}
ASSUME MaxFaultsAssumption == MaxFaults \in Nat

Admin == "TenantAdministrator"
Reader == "Reader"

\* Rows of the identity schema and of the outbox: table and key.
Tenant == <<"tenants">>
User(u) == <<"users", u>>
Role(name) == <<"roles", name>>
UserRole(u, name) == <<"user_roles", u, name>>
Connection(u) == <<"oauth_connections", u>>
Event(u, action) == <<"outbox", u, action>>

Rows ==
    {Tenant} \cup {User(u) : u \in Users} \cup {Connection(u) : u \in Users}
        \cup {Role(name) : name \in {Admin, Reader}}
        \cup {UserRole(u, name) : u \in Users, name \in {Admin, Reader}}
        \cup {Event(u, action) : u \in Users, action \in {"login", "profile.read"}}

VARIABLES
    start,     \* what there was before: "nothing"; the "tenant" or the tenant and its
               \* "admin" of bootstrap_identity; an admin who had "signed in"
    db,        \* committed rows
    step,      \* step[q]: how far request q is
    seen,      \* seen[q]: its last select found the row
    first,     \* first[q]: created or existing_count == 0
    pend,      \* pend[q]: rows it has flushed and not committed
    pool,      \* the size of the connection pool
    issued,    \* issued[u]: refresh tokens Microsoft has issued to u; they are
               \* numbered, so a smaller number is an older token
    stored,    \* stored[u]: the token in u's oauth_connections row
    token,     \* token[q]: the token that q has got from Microsoft
    met,       \* history, met[q]: callbacks and brokers of its user under way with q
    faults

tokenVars == <<issued, stored, token>>
requestVars == <<step, seen, first, pend>>
otherVars == <<start, pool, tokenVars, met>>
vars == <<start, db, requestVars, pool, tokenVars, met, faults>>

Starts == {"nothing", "tenant", "admin", "signed in"}
Final == {"ok", "rejected", "error"}

\* At these steps a request holds a connection.
Connected == {"tenantRead", "tenant", "counted", "userRead", "user", "roleRead",
              "role", "profile", "catalogue", "served", "connectionRead", "refreshed"}

Steps == {"new", "exchanged"} \cup Connected \cup Final

TypeOK ==
    /\ start \in Starts
    /\ db \subseteq Rows
    /\ step \in [Requests -> Steps]
    /\ seen \in [Requests -> BOOLEAN]
    /\ first \in [Requests -> BOOLEAN]
    /\ pend \in [Requests -> SUBSET Rows]
    /\ pool \in PoolSizes
    /\ issued \in [Users -> Nat] /\ stored \in [Users -> Nat]
    /\ token \in [Requests -> Nat]
    /\ met \in [Requests -> SUBSET Requests]
    /\ faults \in 0..MaxFaults

\* bootstrap_identity runs when the service starts, before any request.  It
\* leaves what it finds.
Init ==
    /\ start \in Starts
    /\ LET u == BootstrapAdmin
           signedIn == start = "signed in"
       IN  /\ db = (IF start = "nothing" THEN {} ELSE {Tenant, Role(Admin)}) \cup
                   (IF start = "admin" \/ signedIn THEN {User(u), UserRole(u, Admin)} ELSE {})
                   \cup (IF signedIn THEN {Connection(u), Event(u, "login")} ELSE {})
           /\ issued = [v \in Users |-> IF v = u /\ signedIn THEN 1 ELSE 0]
    /\ stored = issued
    /\ step = [q \in Requests |-> "new"]
    /\ seen = [q \in Requests |-> FALSE]
    /\ first = [q \in Requests |-> FALSE]
    /\ pend = [q \in Requests |-> {}]
    /\ pool \in PoolSizes
    /\ token = [q \in Requests |-> 0]
    /\ met = [q \in Requests |-> {}]
    /\ faults = 0

-----------------------------------------------------------------------------
(* Statements of a transaction.                                            *)

\* Connections that the pool can still give.
PoolFree == Cardinality({p \in Requests : step[p] \in Connected}) < pool

\* Request q begins.
Arrive(q) ==
    LET others == {p \in Requests : /\ UserOf[p] = UserOf[q] /\ Kind[p] \in {"callback", "broker"}
                                    /\ step[p] \notin Final \cup {"new"}}
    IN  /\ step[q] = "new"
        /\ met' = [p \in Requests |-> IF p = q THEN others
                     ELSE IF p \in others THEN met[p] \cup {q} ELSE met[p]]

\* Microsoft issues a refresh token to the user of q.
Issue(q) ==
    LET u == UserOf[q]
    IN  /\ issued' = [issued EXCEPT ![u] = @ + 1]
        /\ token' = [token EXCEPT ![q] = issued[u] + 1]

\* A select for one row.
Select(q, from, row, to) ==
    /\ step[q] = from
    /\ seen' = [seen EXCEPT ![q] = row \in db]
    /\ step' = [step EXCEPT ![q] = to]
    /\ UNCHANGED <<db, first, pend, otherVars, faults>>

\* Another open transaction has written the row.
Locked(q, row) == \E p \in Requests \ {q} : row \in pend[p]

\* The row can be inserted, or, if the select found it, updated.
Free(q, row) == ~Locked(q, row) /\ (seen[q] \/ row \notin db)

\* A flush of one row.
Flush(q, from, row, to) ==
    /\ step[q] = from
    /\ Free(q, row)
    /\ pend' = [pend EXCEPT ![q] = @ \cup {row}]
    /\ step' = [step EXCEPT ![q] = to]
    /\ UNCHANGED <<db, seen, otherVars, faults>>

\* A row that the select found is taken as it is.
Take(q, from, to) ==
    /\ step[q] = from
    /\ seen[q]
    /\ step' = [step EXCEPT ![q] = to]
    /\ UNCHANGED <<db, seen, first, pend, otherVars, faults>>

\* The transaction ends: with S committed, or rolled back if S is empty.
End(q, S, answer) ==
    /\ db' = db \cup S
    /\ pend' = [pend EXCEPT ![q] = {}]
    /\ seen' = [seen EXCEPT ![q] = FALSE]
    /\ first' = [first EXCEPT ![q] = FALSE]
    /\ step' = [step EXCEPT ![q] = answer]

-----------------------------------------------------------------------------
(* The callback.                                                           *)

RoleName(q) == IF first[q] THEN Admin ELSE Reader

\* exchange_code: Microsoft answers with tokens, before any statement.
Exchange(q) ==
    /\ Kind[q] = "callback"
    /\ Arrive(q)
    /\ Issue(q)
    /\ step' = [step EXCEPT ![q] = "exchanged"]
    /\ UNCHANGED <<start, db, seen, first, pend, pool, stored, faults>>

\* get_tenant_by_scope_key; the first statement of a callback.
SelectTenant(q) == PoolFree /\ Select(q, "exchanged", Tenant, "tenantRead")

\* get_or_create_tenant
CreateTenant(q) ==
    /\ Kind[q] = "callback"
    /\ ~seen[q]
    /\ Flush(q, "tenantRead", Tenant, "tenant")
    /\ first' = [first EXCEPT ![q] = TRUE]

KnownTenant(q) == Take(q, "tenantRead", "tenant")

\* Mutant: only who creates the tenant becomes its administrator.
CountUsersNot(q) ==
    /\ step[q] = "tenant"
    /\ step' = [step EXCEPT ![q] = "counted"]
    /\ UNCHANGED <<db, seen, first, pend, otherVars, faults>>

\* count_users; a bearer request does not count.
CountUsers(q) ==
    /\ step[q] = "tenant"
    /\ first' = [first EXCEPT ![q] =
          @ \/ (Kind[q] = "callback" /\ \A u \in Users : User(u) \notin db)]
    /\ step' = [step EXCEPT ![q] = "counted"]
    /\ UNCHANGED <<db, seen, pend, otherVars, faults>>

\* synchronize_user
SelectUser(q) == Select(q, "counted", User(UserOf[q]), "userRead")
FlushUser(q) == Flush(q, "userRead", User(UserOf[q]), "user") /\ UNCHANGED first

\* get_or_create_role
SelectRole(q) ==
    Kind[q] = "callback" /\ Select(q, "user", Role(RoleName(q)), "roleRead")
CreateRole(q) ==
    /\ ~seen[q]
    /\ Flush(q, "roleRead", Role(RoleName(q)), "role")
    /\ UNCHANGED first
KnownRole(q) == Take(q, "roleRead", "role")

\* What grant_permissions, assign_role, upsert_oauth_connection and
\* enqueue_audit write.  None of them waits for another callback: the
\* permissions of a role come with it, and the rows of a user are inserted
\* only by who holds the user's row.  The connection's row is locked at the
\* end of a transaction only, here and by the broker.
LoginRows(q) ==
    {UserRole(UserOf[q], RoleName(q)), Connection(UserOf[q]), Event(UserOf[q], "login")}

\* Mutant: the login is audited in a transaction of its own, later.
FinishUnaudited(q) ==
    /\ step[q] = "role"
    /\ End(q, pend[q] \cup (LoginRows(q) \ {Event(UserOf[q], "login")}), "ok")
    /\ stored' = [stored EXCEPT ![UserOf[q]] = token[q]]
    /\ UNCHANGED <<start, pool, issued, token, met, faults>>

\* The rest of the callback: those rows, the commit and the session cookie.
Finish(q) ==
    /\ step[q] = "role"
    /\ End(q, pend[q] \cup LoginRows(q), "ok")
    /\ stored' = [stored EXCEPT ![UserOf[q]] = token[q]]
    /\ UNCHANGED <<start, pool, issued, token, met, faults>>

-----------------------------------------------------------------------------
(* Requests with a bearer token or a session cookie.                       *)

\* resolve_and_sync; the rest of it is CountUsers (which does not count),
\* SelectUser and FlushUser.
ResolveBearer(q) ==
    /\ Kind[q] = "bearer"
    /\ PoolFree
    /\ Select(q, "new", Tenant, "tenantRead")

\* 403: the tenant of a bearer token has not been onboarded.
Reject(q) ==
    /\ Kind[q] = "bearer"
    /\ step[q] = "tenantRead" /\ ~seen[q]
    /\ End(q, {}, "rejected")
    /\ UNCHANGED <<otherVars, faults>>

\* resolve_session: a cookie was set by a callback, and nothing deletes its
\* user since.
ResolveSession(q) ==
    /\ Kind[q] = "session"
    /\ Connection(UserOf[q]) \in db
    /\ PoolFree
    /\ Select(q, "new", User(UserOf[q]), "user")

\* identity.roles.read is a permission of administrators.
MayReadRoles(q) == UserRole(UserOf[q], Admin) \in db

\* A request that the profile, permissions and roles handlers may have.
AtHandler(q) == Kind[q] \in {"bearer", "session"} /\ step[q] = "user"

\* q goes on to the step s, with nothing written.
Go(q, s) ==
    /\ step' = [step EXCEPT ![q] = s]
    /\ UNCHANGED <<db, seen, first, pend, otherVars, faults>>

\* profile opens a session of its own for its audit event, and permissions and
\* roles one for the catalogue, if the user may see that.  permissions tells
\* other users what they have themselves.
OpenProfile(q) == AtHandler(q) /\ Go(q, "profile")
OpenCatalogue(q) == AtHandler(q) /\ MayReadRoles(q) /\ Go(q, "catalogue")
ReadOwn(q) == AtHandler(q) /\ ~MayReadRoles(q) /\ Go(q, "served")

\* That session takes a second connection while get_session holds the first;
\* it commits, or just ends, before the handler returns.
AuditProfile(q) ==
    /\ step[q] = "profile"
    /\ PoolFree
    /\ db' = db \cup {Event(UserOf[q], "profile.read")}
    /\ step' = [step EXCEPT ![q] = "served"]
    /\ UNCHANGED <<seen, first, pend, otherVars, faults>>

ReadCatalogue(q) == step[q] = "catalogue" /\ PoolFree /\ Go(q, "served")

\* Mutant: a status that no request has.
ForbidUnknown(q) ==
    /\ AtHandler(q)
    /\ End(q, {}, "forbidden")
    /\ UNCHANGED <<otherVars, faults>>

\* roles answers 403 to who may not read roles; get_session rolls back.
Forbid(q) ==
    /\ AtHandler(q)
    /\ ~MayReadRoles(q)
    /\ End(q, {}, "rejected")
    /\ UNCHANGED <<otherVars, faults>>

\* Mutant: the session is closed without a commit.
CommitSessionNot(q) ==
    /\ step[q] = "served"
    /\ End(q, {}, "ok")
    /\ UNCHANGED <<otherVars, faults>>

\* get_session commits when the handler is done.
CommitSession(q) ==
    /\ step[q] = "served"
    /\ End(q, pend[q], "ok")
    /\ UNCHANGED <<otherVars, faults>>

-----------------------------------------------------------------------------
(* The token broker.                                                       *)

\* delegated_azure_token selects the connection of the user; 409 if there is
\* none.
SelectConnection(q) ==
    /\ Kind[q] = "broker"
    /\ PoolFree
    /\ Arrive(q)
    /\ step' = [step EXCEPT ![q] =
          IF Connection(UserOf[q]) \in db THEN "connectionRead" ELSE "rejected"]
    /\ UNCHANGED <<start, db, seen, first, pend, pool, tokenVars, faults>>

\* Microsoft refreshes the token and may rotate it; the connection waits.
Refresh(q) ==
    /\ step[q] = "connectionRead"
    /\ step' = [step EXCEPT ![q] = "refreshed"]
    /\ Issue(q) \/ UNCHANGED <<issued, token>>
    /\ UNCHANGED <<start, db, seen, first, pend, pool, stored, met, faults>>

\* 401, or 502 if there is no access token in the answer.
RefreshFails(q) ==
    /\ step[q] = "connectionRead"
    /\ End(q, {}, "rejected")
    /\ UNCHANGED <<otherVars, faults>>

\* Mutant: the rotated token is not stored.
StoreTokenNot(q) ==
    /\ step[q] = "refreshed"
    /\ End(q, {}, "ok")
    /\ UNCHANGED <<otherVars, faults>>

\* upsert_oauth_connection stores a rotated token, whatever is stored by now.
StoreToken(q) ==
    /\ step[q] = "refreshed"
    /\ End(q, {}, "ok")
    /\ stored' = [stored EXCEPT ![UserOf[q]] = IF token[q] = 0 THEN @ ELSE token[q]]
    /\ UNCHANGED <<start, pool, issued, token, met, faults>>

-----------------------------------------------------------------------------
(* Errors.                                                                 *)

\* The transaction rolls back: 500.
Fail(q) ==
    /\ End(q, {}, "error")
    /\ UNCHANGED otherVars

\* The row that q is about to insert, if it is at an insert.
Inserts(q) ==
    CASE step[q] = "tenantRead" /\ Kind[q] = "callback" -> {Tenant}
      [] step[q] = "userRead" -> {User(UserOf[q])}
      [] step[q] = "roleRead" -> {Role(RoleName(q))}
      [] OTHER -> {}

\* Somebody else has committed the row since q's select: IntegrityError.
Conflict(q) ==
    /\ ~seen[q]
    /\ \E row \in Inserts(q) : row \in db /\ ~Locked(q, row)
    /\ Fail(q)
    /\ UNCHANGED faults

\* q waits for a connection: its first one, or the handler's second.
WantsConnection(q) ==
    \/ step[q] \in {"exchanged", "profile", "catalogue"}
    \/ step[q] = "new" /\ Kind[q] \in {"bearer", "broker"}
    \/ step[q] = "new" /\ Kind[q] = "session" /\ Connection(UserOf[q]) \in db

\* Mutant: the pool lets a request wait for ever.
PoolTimeoutNever(q) ==
    WantsConnection(q) /\ ~PoolFree /\ UNCHANGED vars

\* The pool had no connection for 30 seconds: TimeoutError.
PoolTimeout(q) ==
    /\ WantsConnection(q)
    /\ ~PoolFree
    /\ Fail(q)
    /\ UNCHANGED faults

\* The database or the process fails.
Abort(q) ==
    /\ step[q] \in Connected
    /\ faults < MaxFaults /\ faults' = faults + 1
    /\ Fail(q)

Handle(q) ==
    \/ Exchange(q) \/ SelectTenant(q) \/ CreateTenant(q) \/ KnownTenant(q)
    \/ CountUsers(q) \/ SelectUser(q) \/ FlushUser(q)
    \/ SelectRole(q) \/ CreateRole(q) \/ KnownRole(q) \/ Finish(q)
    \/ ResolveBearer(q) \/ Reject(q) \/ ResolveSession(q)
    \/ OpenProfile(q) \/ OpenCatalogue(q) \/ ReadOwn(q) \/ AuditProfile(q) \/ ReadCatalogue(q)
    \/ Forbid(q) \/ CommitSession(q)
    \/ SelectConnection(q) \/ Refresh(q) \/ RefreshFails(q) \/ StoreToken(q)
    \/ Conflict(q) \/ PoolTimeout(q)

Next == \E q \in Requests : Handle(q) \/ Abort(q)

Spec == Init /\ [][Next]_vars

\* The service goes on as long as some request can.
FairSpec == Spec /\ WF_vars(\E q \in Requests : Handle(q))

-----------------------------------------------------------------------------
(* Properties.                                                             *)

Administrators == {u \in Users : UserRole(u, Admin) \in db}

\* However the first sign-ins interleave, a tenant that a callback created has
\* exactly one administrator, and a tenant that was prepared without users
\* gets one from its first sign-in, unless a user came before with a bearer
\* token.
OneAdministrator ==
    /\ start = "nothing" /\ Tenant \in db => Cardinality(Administrators) = 1
    /\ (\E u \in Users : Connection(u) \in db) =>
          \/ Administrators # {}
          \/ \E q \in Requests : Kind[q] = "bearer" /\ step[q] = "ok"

\* A sign-in is all or nothing: token, role, user, tenant and audit event.
SignInAtomic ==
    \A u \in Users :
        /\ Connection(u) \in db <=> Event(u, "login") \in db
        /\ Connection(u) \in db => \E name \in {Admin, Reader} :
              {Tenant, User(u), Role(name), UserRole(u, name)} \subseteq db

\* The refresh token that is stored is older than one a request was answered
\* for only if the two requests overlapped: a broker that waits for Microsoft
\* while its user signs in again overwrites the newer token.
OlderTokenNeedsOverlap ==
    \A q \in Requests :
        step[q] = "ok" /\ token[q] > stored[UserOf[q]] =>
            \E p \in met[q] : step[p] = "ok" /\ token[p] = stored[UserOf[q]]

\* Requests wait for each other's tenants, users and roles and for the pool's
\* connections, a profile for its second while it holds the first, and none
\* of them waits for ever.
SignInsAnswered ==
    <>[](\A q \in Requests : step[q] \in Final \cup {"new"})

\* The profile's event commits before the user it is about.  The audit trail
\* can know a user that does not exist only while that request is under way,
\* or because its transaction failed in between.
OrphanNeedsFailure ==
    \A u \in Users :
        Event(u, "profile.read") \in db /\ User(u) \notin db =>
            \E q \in Requests : UserOf[q] = u /\ Kind[q] = "bearer"
                                 /\ step[q] \in {"served", "error"}
=============================================================================
