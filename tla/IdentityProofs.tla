--------------------------- MODULE IdentityProofs ---------------------------
(***************************************************************************)
(* The safety properties of Identity, for any users, requests, pool sizes  *)
(* and number of failures.  SInv, about sign-ins, says how far each        *)
(* request is (Local), that the row of a new tenant is locked by its       *)
(* creator (Lock), and what is committed (Committed).  TInv, about refresh *)
(* tokens, says which requests have met.                                   *)
(***************************************************************************)
EXTENDS Identity, TLAPS, FiniteSetTheorems

\* Steps of a callback at which it has the tenant, has counted the users, or
\* has its user's row; at the latter a request may also be at a handler.
HasTenant == {"tenant", "counted", "userRead", "user", "roleRead", "role"}
HasCounted == HasTenant \ {"tenant"}
HasUser == {"user", "roleRead", "role", "profile", "catalogue", "served"}

\* Which requests come to which steps.
Path(q) ==
    /\ step[q] \in {"exchanged", "roleRead", "role"} => Kind[q] = "callback"
    /\ step[q] \in {"tenantRead", "tenant", "counted", "userRead"} =>
          Kind[q] \in {"callback", "bearer"}
    /\ step[q] = "user" => Kind[q] # "broker"
    /\ step[q] \in {"profile", "catalogue", "served"} => Kind[q] \in {"bearer", "session"}
    /\ step[q] \in {"connectionRead", "refreshed"} => Kind[q] = "broker"

\* What request q has written and what it has found.
Local(q) ==
    /\ Path(q)
    /\ pend[q] \subseteq {Tenant, User(UserOf[q]), Role(Admin), Role(Reader)}
    /\ pend[q] # {} => Kind[q] \in {"callback", "bearer"} /\ step[q] \in Connected
    /\ Tenant \in pend[q] => first[q]
    /\ first[q] => Kind[q] = "callback" /\ step[q] \in HasTenant
    /\ first[q] /\ start = "nothing" => Tenant \in pend[q]
    /\ seen[q] /\ step[q] = "tenantRead" => Tenant \in db
    /\ seen[q] /\ step[q] = "roleRead" => Role(RoleName(q)) \in db
    /\ Kind[q] = "callback" /\ step[q] \in HasTenant => Tenant \in db \cup pend[q]
    /\ Kind[q] = "callback" /\ step[q] \in HasCounted /\ ~first[q] =>
          \E u \in Users : User(u) \in db
    /\ step[q] \in HasUser => User(UserOf[q]) \in db \cup pend[q]
    /\ step[q] = "role" => Role(RoleName(q)) \in db \cup pend[q]

\* Only one request creates the tenant.
Lock ==
    \A q \in Requests : Tenant \in pend[q] =>
        Tenant \notin db /\ \A p \in Requests \ {q} : Tenant \notin pend[p]

\* A bearer request has been answered.
BearerServed == \E q \in Requests : Kind[q] = "bearer" /\ step[q] = "ok"

Committed ==
    /\ start = "nothing" =>
          /\ Tenant \notin db => Administrators = {}
          /\ Tenant \in db => (\E u \in Users : User(u) \in db)
                              /\ \E u \in Users : Administrators = {u}
    /\ (\E u \in Users : User(u) \in db) => Administrators # {} \/ BearerServed
    /\ SignInAtomic
    /\ OrphanNeedsFailure

SInv == TypeOK /\ (\A q \in Requests : Local(q)) /\ Lock /\ Committed

\* Requests that get tokens from Microsoft, and requests under way.
Talks(q) == Kind[q] \in {"callback", "broker"}
SameUser(p, q) == UserOf[p] = UserOf[q] /\ Talks(p) /\ Talks(q)
Busy(q) == step[q] \notin Final \cup {"new"}

\* Two requests of a user that were under way together have met.  Of two that
\* have not, the one that is under way has no token yet or the newer one.
Met(p, q) ==
    IF Busy(q) THEN p \in met[q]
    ELSE p \in met[q] \/ token[p] = 0 \/ token[p] > token[q]

TInv ==
    /\ \A q \in Requests :
          /\ token[q] <= issued[UserOf[q]]
          /\ ~Talks(q) \/ step[q] = "new" => token[q] = 0
          /\ Kind[q] = "callback" /\ Busy(q) => token[q] # 0
    /\ \A p, q \in Requests :
          p # q /\ SameUser(p, q) /\ Busy(p) /\ step[q] # "new" => Met(p, q)
    /\ OlderTokenNeedsOverlap

-----------------------------------------------------------------------------
(* Rows and types.                                                         *)

\* Rows of different tables, and of different users or roles, are different.
LEMMA RowsDiffer ==
    /\ Tenant[1] = "tenants"
    /\ \A u : User(u)[1] = "users"
    /\ \A u : Connection(u)[1] = "oauth_connections"
    /\ \A n : Role(n)[1] = "roles"
    /\ \A u, n : UserRole(u, n)[1] = "user_roles"
    /\ \A u, n : Event(u, n)[1] = "outbox"
    /\ \A u, v : User(u) = User(v) => u = v
    /\ \A u, v : Connection(u) = Connection(v) => u = v
    /\ \A m, n : Role(m) = Role(n) => m = n
    /\ \A u, v, m, n : UserRole(u, m) = UserRole(v, n) => u = v /\ m = n
    /\ \A u, v, m, n : Event(u, m) = Event(v, n) => u = v /\ m = n
    /\ Admin # Reader
  BY DEF Tenant, User, Connection, Role, UserRole, Event, Admin, Reader

\* The rows that a request writes.
LEMMA RowsWritten ==
    ASSUME TypeOK, NEW q \in Requests
    PROVE  /\ UserOf[q] \in Users
           /\ RoleName(q) \in {Admin, Reader}
           /\ Tenant \in Rows /\ User(UserOf[q]) \in Rows /\ Role(RoleName(q)) \in Rows
           /\ LoginRows(q) \subseteq Rows
           /\ Event(UserOf[q], "profile.read") \in Rows
  <1>1. UserOf[q] \in Users /\ RoleName(q) \in {Admin, Reader}
    BY UserOfAssumption DEF RoleName
  <1>2. /\ Connection(UserOf[q]) \in Rows /\ Event(UserOf[q], "login") \in Rows
        /\ Event(UserOf[q], "profile.read") \in Rows
        /\ UserRole(UserOf[q], RoleName(q)) \in Rows
    BY <1>1 DEF Rows
  <1>3. Tenant \in Rows /\ User(UserOf[q]) \in Rows /\ Role(RoleName(q)) \in Rows
    BY <1>1 DEF Rows
  <1> QED BY <1>1, <1>2, <1>3 DEF LoginRows

\* How the statements of a transaction change the local state of q.
LEMMA SelectTyped ==
    ASSUME TypeOK, NEW q \in Requests, NEW row, NEW from, NEW to \in Steps,
           Select(q, from, row, to)
    PROVE  TypeOK'
  BY DEF TypeOK, Select, otherVars, tokenVars

LEMMA FlushTyped ==
    ASSUME TypeOK, NEW q \in Requests, NEW row \in Rows, NEW from, NEW to \in Steps,
           Flush(q, from, row, to), first' \in [Requests -> BOOLEAN]
    PROVE  TypeOK'
  BY DEF TypeOK, Flush, otherVars, tokenVars

LEMMA TakeTyped ==
    ASSUME TypeOK, NEW q \in Requests, NEW from, NEW to \in Steps,
           Take(q, from, to) \/ Go(q, to)
    PROVE  TypeOK'
  BY DEF TypeOK, Take, Go, otherVars, tokenVars

LEMMA EndTyped ==
    ASSUME TypeOK, NEW q \in Requests, NEW S \in SUBSET Rows, NEW answer \in Final,
           End(q, S, answer), start' = start, pool' = pool, issued' = issued,
           token' = token, met' = met,
           stored' \in [Users -> Nat], faults' \in 0..MaxFaults
    PROVE  TypeOK'
  <1>1. answer \in Steps
    BY DEF Steps
  <1> QED BY <1>1 DEF TypeOK, End

LEMMA ArriveTyped ==
    ASSUME TypeOK, NEW q \in Requests, Arrive(q)
    PROVE  met' \in [Requests -> SUBSET Requests]
  BY DEF TypeOK, Arrive

LEMMA IssueTyped ==
    ASSUME TypeOK, NEW q \in Requests, Issue(q)
    PROVE  issued' \in [Users -> Nat] /\ token' \in [Requests -> Nat]
  <1>1. UserOf[q] \in Users
    BY UserOfAssumption
  <1>2. issued[UserOf[q]] + 1 \in Nat
    BY <1>1 DEF TypeOK
  <1>3. /\ issued' = [issued EXCEPT ![UserOf[q]] = issued[UserOf[q]] + 1]
        /\ token' = [token EXCEPT ![q] = issued[UserOf[q]] + 1]
    BY <1>1 DEF Issue, TypeOK
  <1> QED BY <1>1, <1>2, <1>3 DEF TypeOK

\* Every step keeps the types.
LEMMA Typed ==
    ASSUME TypeOK, NEW q \in Requests, Handle(q) \/ Abort(q)
    PROVE  TypeOK'
  <1> USE RowsWritten
  <1>1. CASE Exchange(q)
    <2>1. "exchanged" \in Steps
      BY DEF Steps
    <2> QED BY <1>1, <2>1, ArriveTyped, IssueTyped DEF Exchange, TypeOK
  <1>2. CASE SelectTenant(q)
    BY <1>2, SelectTyped DEF SelectTenant, Steps, Connected
  <1>3. CASE CreateTenant(q)
    <2>1. first' \in [Requests -> BOOLEAN]
      BY <1>3 DEF CreateTenant, TypeOK
    <2> QED BY <1>3, <2>1, FlushTyped DEF CreateTenant, Steps, Connected
  <1>4. CASE KnownTenant(q)
    BY <1>4, TakeTyped DEF KnownTenant, Steps, Connected
  <1>5. CASE CountUsers(q)
    <2>1. "counted" \in Steps
      BY DEF Steps, Connected
    <2> QED BY <1>5, <2>1 DEF CountUsers, TypeOK, otherVars, tokenVars
  <1>6. CASE SelectUser(q)
    BY <1>6, SelectTyped DEF SelectUser, Steps, Connected
  <1>7. CASE FlushUser(q)
    <2>1. first' \in [Requests -> BOOLEAN]
      BY <1>7 DEF FlushUser, TypeOK
    <2> QED BY <1>7, <2>1, FlushTyped DEF FlushUser, Steps, Connected
  <1>8. CASE SelectRole(q)
    BY <1>8, SelectTyped DEF SelectRole, Steps, Connected
  <1>9. CASE CreateRole(q)
    <2>1. first' \in [Requests -> BOOLEAN]
      BY <1>9 DEF CreateRole, TypeOK
    <2> QED BY <1>9, <2>1, FlushTyped DEF CreateRole, Steps, Connected
  <1>10. CASE KnownRole(q)
    BY <1>10, TakeTyped DEF KnownRole, Steps, Connected
  <1>11. CASE Finish(q)
    <2>1. stored' \in [Users -> Nat] /\ faults' \in 0..MaxFaults
      BY <1>11 DEF Finish, TypeOK
    <2>2. pend[q] \cup LoginRows(q) \in SUBSET Rows /\ "ok" \in Final
      BY DEF TypeOK, Final
    <2> QED BY <1>11, <2>1, <2>2, EndTyped DEF Finish
  <1>12. CASE ResolveBearer(q)
    BY <1>12, SelectTyped DEF ResolveBearer, Steps, Connected
  <1>13. CASE Reject(q) \/ Forbid(q) \/ RefreshFails(q) \/ Conflict(q) \/ PoolTimeout(q) \/ Abort(q)
    <2>1. stored' \in [Users -> Nat] /\ faults' \in 0..MaxFaults
      BY <1>13, MaxFaultsAssumption DEF Reject, Forbid, RefreshFails, Conflict, PoolTimeout,
            Abort, Fail, TypeOK, otherVars, tokenVars
    <2>2. {} \in SUBSET Rows /\ "rejected" \in Final /\ "error" \in Final
      BY DEF Final
    <2> QED BY <1>13, <2>1, <2>2, EndTyped DEF Reject, Forbid, RefreshFails, Conflict,
              PoolTimeout, Abort, Fail, otherVars, tokenVars
  <1>14. CASE ResolveSession(q)
    BY <1>14, SelectTyped DEF ResolveSession, Steps, Connected
  <1>15. CASE OpenProfile(q) \/ OpenCatalogue(q) \/ ReadOwn(q) \/ ReadCatalogue(q)
    BY <1>15, TakeTyped
    DEF OpenProfile, OpenCatalogue, ReadOwn, ReadCatalogue, Steps, Connected
  <1>16. CASE AuditProfile(q)
    <2>1. "served" \in Steps
      BY DEF Steps, Connected
    <2> QED BY <1>16, <2>1 DEF AuditProfile, TypeOK, otherVars, tokenVars
  <1>17. CASE CommitSession(q)
    <2>1. pend[q] \in SUBSET Rows /\ "ok" \in Final
      BY DEF TypeOK, Final
    <2>2. stored' \in [Users -> Nat] /\ faults' \in 0..MaxFaults
      BY <1>17 DEF CommitSession, TypeOK, otherVars, tokenVars
    <2> QED BY <1>17, <2>1, <2>2, EndTyped DEF CommitSession, otherVars, tokenVars
  <1>18. CASE SelectConnection(q)
    <2>1. "connectionRead" \in Steps /\ "rejected" \in Steps
      BY DEF Steps, Connected, Final
    <2> QED BY <1>18, <2>1, ArriveTyped DEF SelectConnection, TypeOK, tokenVars
  <1>19. CASE Refresh(q)
    <2>1. "refreshed" \in Steps
      BY DEF Steps, Connected
    <2>2. issued' \in [Users -> Nat] /\ token' \in [Requests -> Nat]
      BY <1>19, IssueTyped DEF Refresh, TypeOK
    <2> QED BY <1>19, <2>1, <2>2 DEF Refresh, TypeOK
  <1>20. CASE StoreToken(q)
    <2>1. {} \in SUBSET Rows /\ "ok" \in Final
      BY DEF Final
    <2>2. stored' \in [Users -> Nat] /\ faults' \in 0..MaxFaults
      BY <1>20 DEF StoreToken, TypeOK
    <2> QED BY <1>20, <2>1, <2>2, EndTyped DEF StoreToken
  <1> QED BY <1>1, <1>2, <1>3, <1>4, <1>5, <1>6, <1>7, <1>8, <1>9, <1>10, <1>11, <1>12,
             <1>13, <1>14, <1>15, <1>16, <1>17, <1>18, <1>19, <1>20 DEF Handle

-----------------------------------------------------------------------------
(* Sign-ins.                                                               *)

\* A step of q leaves the other requests alone.
OthersAlone(q) ==
    \A p \in Requests \ {q} : /\ step'[p] = step[p] /\ seen'[p] = seen[p]
                              /\ first'[p] = first[p] /\ pend'[p] = pend[p]

\* What a request has found stays true while others commit.
LEMMA OthersKeep ==
    ASSUME NEW p, Local(p), step'[p] = step[p], seen'[p] = seen[p],
           first'[p] = first[p], pend'[p] = pend[p], db \subseteq db', start' = start
    PROVE  Local(p)'
  <1>1. Path(p)'
    BY DEF Local, Path
  <1>2. RoleName(p)' = RoleName(p)
    BY DEF RoleName
  <1> QED BY <1>1, <1>2 DEF Local

\* A step that commits nothing.
LEMMA QuietStep ==
    ASSUME SInv, TypeOK', NEW q \in Requests, db' = db, start' = start, OthersAlone(q),
           Local(q)', step[q] \notin {"ok", "error"}, step[q] = "served" => step'[q] = "error",
           Tenant \in pend'[q] =>
              \/ Tenant \in pend[q]
              \/ Tenant \notin db /\ \A p \in Requests \ {q} : Tenant \notin pend[p]
    PROVE  SInv'
  <1>1. \A p \in Requests : Local(p)'
    BY OthersKeep DEF SInv, OthersAlone
  <1>2. Lock'
    BY DEF SInv, Lock, OthersAlone
  <1>3. Administrators' = Administrators
    BY DEF Administrators
  <1>4. BearerServed => BearerServed'
    BY DEF BearerServed, OthersAlone
  <1>5. SignInAtomic'
    BY DEF SInv, Committed, SignInAtomic
  <1>6. OrphanNeedsFailure'
    <2> SUFFICES ASSUME NEW u \in Users, Event(u, "profile.read") \in db, User(u) \notin db
                 PROVE  \E r \in Requests : UserOf[r] = u /\ Kind[r] = "bearer"
                                             /\ step'[r] \in {"served", "error"}
      BY DEF OrphanNeedsFailure
    <2>1. PICK r \in Requests : UserOf[r] = u /\ Kind[r] = "bearer"
                                 /\ step[r] \in {"served", "error"}
      BY DEF SInv, Committed, OrphanNeedsFailure
    <2>2. step'[r] \in {"served", "error"}
      BY <2>1 DEF OthersAlone
    <2> QED BY <2>1, <2>2
  <1>7. Committed'
    BY <1>3, <1>4, <1>5, <1>6 DEF SInv, Committed
  <1> QED BY <1>1, <1>2, <1>7 DEF SInv

\* The local state of q after each statement, and that nothing else changes.
LEMMA SelectLocal ==
    ASSUME TypeOK, NEW q \in Requests, NEW from, NEW row, NEW to, Select(q, from, row, to)
    PROVE  /\ step[q] = from /\ step'[q] = to /\ seen'[q] = (row \in db)
           /\ first' = first /\ pend' = pend /\ db' = db /\ start' = start /\ OthersAlone(q)
  BY DEF TypeOK, Select, OthersAlone, otherVars

LEMMA FlushLocal ==
    ASSUME TypeOK, NEW q \in Requests, NEW from, NEW row, NEW to, Flush(q, from, row, to)
    PROVE  /\ step[q] = from /\ step'[q] = to /\ Free(q, row)
           /\ pend'[q] = pend[q] \cup {row}
           /\ db' = db /\ start' = start /\ seen' = seen
           /\ \A p \in Requests \ {q} : step'[p] = step[p] /\ pend'[p] = pend[p]
  BY DEF TypeOK, Flush, otherVars

LEMMA TakeLocal ==
    ASSUME TypeOK, NEW q \in Requests, NEW from, NEW to, Take(q, from, to)
    PROVE  /\ step[q] = from /\ step'[q] = to /\ seen[q]
           /\ first' = first /\ pend' = pend /\ seen' = seen
           /\ db' = db /\ start' = start /\ OthersAlone(q)
  BY DEF TypeOK, Take, OthersAlone, otherVars

LEMMA GoLocal ==
    ASSUME TypeOK, NEW q \in Requests, NEW to, Go(q, to)
    PROVE  /\ step'[q] = to
           /\ first' = first /\ pend' = pend /\ seen' = seen
           /\ db' = db /\ start' = start /\ OthersAlone(q)
  BY DEF TypeOK, Go, OthersAlone, otherVars

LEMMA EndLocal ==
    ASSUME TypeOK, NEW q \in Requests, NEW S, NEW answer, End(q, S, answer)
    PROVE  /\ step'[q] = answer /\ pend'[q] = {} /\ seen'[q] = FALSE /\ first'[q] = FALSE
           /\ db' = db \cup S /\ OthersAlone(q)
  BY DEF TypeOK, End, OthersAlone

\* A request that has ended has nothing pending.
LEMMA EndedLocal ==
    ASSUME NEW q, step'[q] \in Final, pend'[q] = {}, seen'[q] = FALSE, first'[q] = FALSE
    PROVE  Local(q)'
  <1>1. Path(q)'
    BY DEF Path, Final
  <1> QED BY <1>1 DEF Local, Final, HasTenant, HasCounted, HasUser

\* A transaction that ends without a commit.
LEMMA RolledBack ==
    ASSUME SInv, TypeOK', NEW q \in Requests, NEW answer \in Final, End(q, {}, answer),
           start' = start, step[q] \notin {"ok", "error"}, step[q] = "served" => answer = "error"
    PROVE  SInv'
  <1>1. /\ step'[q] = answer /\ pend'[q] = {} /\ seen'[q] = FALSE /\ first'[q] = FALSE
        /\ db' = db \cup {} /\ OthersAlone(q)
    <2>1. TypeOK
      BY DEF SInv
    <2> QED BY <2>1, EndLocal
  <1>2. db' = db
    BY <1>1
  <1> QED BY <1>1, <1>2, EndedLocal, QuietStep

\* The steps of a callback up to its commit.
LEMMA CallbackQuiet ==
    ASSUME SInv, TypeOK', NEW q \in Requests,
           \/ Exchange(q) \/ SelectTenant(q) \/ CreateTenant(q) \/ KnownTenant(q)
           \/ CountUsers(q) \/ SelectUser(q) \/ FlushUser(q)
           \/ SelectRole(q) \/ CreateRole(q) \/ KnownRole(q)
    PROVE  SInv'
  <1>1. TypeOK /\ Local(q)
    BY DEF SInv
  <1>2. q \in DOMAIN step /\ q \in DOMAIN first /\ first[q] \in BOOLEAN /\ seen[q] \in BOOLEAN
    BY <1>1 DEF TypeOK
  <1>3. CASE Exchange(q)
    <2>1. /\ step[q] = "new" /\ step'[q] = "exchanged" /\ Kind[q] = "callback"
          /\ seen' = seen /\ first' = first /\ pend' = pend /\ db' = db /\ start' = start
          /\ OthersAlone(q)
      BY <1>1, <1>2, <1>3 DEF Exchange, Arrive, OthersAlone, TypeOK
    <2>2. Local(q)'
      BY <1>1, <2>1 DEF Local, Path, HasTenant, HasCounted, HasUser, Connected
    <2> QED BY <2>1, <2>2, QuietStep
  <1>4. CASE SelectTenant(q)
    <2>1. /\ step[q] = "exchanged" /\ step'[q] = "tenantRead" /\ seen'[q] = (Tenant \in db)
          /\ first' = first /\ pend' = pend /\ db' = db /\ start' = start /\ OthersAlone(q)
      BY <1>1, <1>4, SelectLocal DEF SelectTenant
    <2>2. Local(q)'
      BY <1>1, <2>1 DEF Local, Path, HasTenant, HasCounted, HasUser, Connected
    <2> QED BY <2>1, <2>2, QuietStep
  <1>5. CASE CreateTenant(q)
    <2>1. /\ step[q] = "tenantRead" /\ step'[q] = "tenant" /\ Free(q, Tenant)
          /\ pend'[q] = pend[q] \cup {Tenant}
          /\ db' = db /\ start' = start /\ seen' = seen
          /\ \A p \in Requests \ {q} : step'[p] = step[p] /\ pend'[p] = pend[p]
      BY <1>1, <1>5, FlushLocal DEF CreateTenant
    <2>2. /\ Kind[q] = "callback" /\ ~seen[q] /\ first'[q] = TRUE
          /\ \A p \in Requests \ {q} : first'[p] = first[p]
      BY <1>1, <1>5 DEF CreateTenant, TypeOK
    <2>3. OthersAlone(q)
      BY <2>1, <2>2 DEF OthersAlone
    <2>4. Local(q)'
      BY <1>1, <2>1, <2>2, RowsDiffer DEF Local, Path, HasTenant, HasCounted, HasUser, Connected
    <2>5. Tenant \notin db /\ \A p \in Requests \ {q} : Tenant \notin pend[p]
      BY <2>1, <2>2 DEF Free, Locked
    <2> QED BY <2>1, <2>3, <2>4, <2>5, QuietStep
  <1>6. CASE KnownTenant(q)
    <2>1. /\ step[q] = "tenantRead" /\ step'[q] = "tenant" /\ seen[q]
          /\ first' = first /\ pend' = pend /\ seen' = seen
          /\ db' = db /\ start' = start /\ OthersAlone(q)
      BY <1>1, <1>6, TakeLocal DEF KnownTenant
    <2>2. Local(q)'
      BY <1>1, <2>1 DEF Local, Path, HasTenant, HasCounted, HasUser, Connected
    <2> QED BY <2>1, <2>2, QuietStep
  <1>7. CASE CountUsers(q)
    <2> DEFINE empty == \A u \in Users : User(u) \notin db
    <2>1. /\ step[q] = "tenant" /\ step'[q] = "counted"
          /\ first'[q] = (first[q] \/ (Kind[q] = "callback" /\ empty))
          /\ seen' = seen /\ pend' = pend /\ db' = db /\ start' = start /\ OthersAlone(q)
      BY <1>1, <1>2, <1>7 DEF CountUsers, OthersAlone, TypeOK, otherVars
    <2>2. start = "nothing" /\ empty => Tenant \notin db
      BY DEF SInv, Committed
    <2>3. Local(q)'
      BY <1>1, <1>2, <2>1, <2>2 DEF Local, Path, HasTenant, HasCounted, HasUser, Connected
    <2> QED BY <2>1, <2>3, QuietStep
  <1>8. CASE SelectUser(q)
    <2>1. /\ step[q] = "counted" /\ step'[q] = "userRead"
          /\ first' = first /\ pend' = pend /\ db' = db /\ start' = start /\ OthersAlone(q)
      BY <1>1, <1>8, SelectLocal DEF SelectUser
    <2>2. Local(q)'
      BY <1>1, <2>1 DEF Local, Path, HasTenant, HasCounted, HasUser, Connected
    <2> QED BY <2>1, <2>2, QuietStep
  <1>9. CASE FlushUser(q)
    <2>1. /\ step[q] = "userRead" /\ step'[q] = "user"
          /\ pend'[q] = pend[q] \cup {User(UserOf[q])}
          /\ db' = db /\ start' = start /\ seen' = seen /\ first' = first
          /\ \A p \in Requests \ {q} : step'[p] = step[p] /\ pend'[p] = pend[p]
      BY <1>1, <1>9, FlushLocal DEF FlushUser
    <2>2. OthersAlone(q)
      BY <2>1 DEF OthersAlone
    <2>3. Tenant \in pend'[q] => Tenant \in pend[q]
      BY <2>1, RowsDiffer
    <2>4. Local(q)'
      BY <1>1, <2>1, <2>3 DEF Local, Path, HasTenant, HasCounted, HasUser, Connected
    <2> QED BY <2>1, <2>2, <2>3, <2>4, QuietStep
  <1>10. CASE SelectRole(q)
    <2>1. /\ step[q] = "user" /\ step'[q] = "roleRead"
          /\ seen'[q] = (Role(RoleName(q)) \in db) /\ Kind[q] = "callback"
          /\ first' = first /\ pend' = pend /\ db' = db /\ start' = start /\ OthersAlone(q)
      BY <1>1, <1>10, SelectLocal DEF SelectRole
    <2>2. RoleName(q)' = RoleName(q)
      BY <2>1 DEF RoleName
    <2>3. Local(q)'
      BY <1>1, <2>1, <2>2 DEF Local, Path, HasTenant, HasCounted, HasUser, Connected
    <2> QED BY <2>1, <2>3, QuietStep
  <1>11. CASE CreateRole(q)
    <2>1. /\ step[q] = "roleRead" /\ step'[q] = "role"
          /\ pend'[q] = pend[q] \cup {Role(RoleName(q))}
          /\ db' = db /\ start' = start /\ seen' = seen /\ first' = first
          /\ \A p \in Requests \ {q} : step'[p] = step[p] /\ pend'[p] = pend[p]
      BY <1>1, <1>11, FlushLocal DEF CreateRole
    <2>2. OthersAlone(q)
      BY <2>1 DEF OthersAlone
    <2>3. Tenant \in pend'[q] => Tenant \in pend[q]
      BY <2>1, RowsDiffer
    <2>4. RoleName(q)' = RoleName(q) /\ RoleName(q) \in {Admin, Reader}
      BY <2>1 DEF RoleName
    <2>5. Local(q)'
      BY <1>1, <2>1, <2>3, <2>4 DEF Local, Path, HasTenant, HasCounted, HasUser, Connected
    <2> QED BY <2>1, <2>2, <2>3, <2>5, QuietStep
  <1>12. CASE KnownRole(q)
    <2>1. /\ step[q] = "roleRead" /\ step'[q] = "role" /\ seen[q]
          /\ first' = first /\ pend' = pend /\ seen' = seen
          /\ db' = db /\ start' = start /\ OthersAlone(q)
      BY <1>1, <1>12, TakeLocal DEF KnownRole
    <2>2. RoleName(q)' = RoleName(q)
      BY <2>1 DEF RoleName
    <2>3. Local(q)'
      BY <1>1, <2>1, <2>2 DEF Local, Path, HasTenant, HasCounted, HasUser, Connected
    <2> QED BY <2>1, <2>3, QuietStep
  <1> QED BY <1>3, <1>4, <1>5, <1>6, <1>7, <1>8, <1>9, <1>10, <1>11, <1>12

\* The steps of the other requests that commit nothing, and failures.
LEMMA OtherQuiet ==
    ASSUME SInv, TypeOK', NEW q \in Requests,
           \/ ResolveBearer(q) \/ Reject(q) \/ ResolveSession(q) \/ OpenProfile(q)
           \/ OpenCatalogue(q) \/ ReadOwn(q) \/ ReadCatalogue(q) \/ Forbid(q)
           \/ SelectConnection(q) \/ Refresh(q) \/ RefreshFails(q) \/ StoreToken(q)
           \/ Conflict(q) \/ PoolTimeout(q) \/ Abort(q)
    PROVE  SInv'
  <1>1. TypeOK /\ Local(q)
    BY DEF SInv
  <1>2. CASE ResolveBearer(q)
    <2>1. /\ step[q] = "new" /\ step'[q] = "tenantRead" /\ seen'[q] = (Tenant \in db)
          /\ Kind[q] = "bearer"
          /\ first' = first /\ pend' = pend /\ db' = db /\ start' = start /\ OthersAlone(q)
      BY <1>1, <1>2, SelectLocal DEF ResolveBearer
    <2>2. Local(q)'
      BY <1>1, <2>1 DEF Local, Path, HasTenant, HasCounted, HasUser, Connected
    <2> QED BY <2>1, <2>2, QuietStep
  <1>3. CASE ResolveSession(q)
    <2>1. /\ step[q] = "new" /\ step'[q] = "user"
          /\ Kind[q] = "session" /\ Connection(UserOf[q]) \in db
          /\ first' = first /\ pend' = pend /\ db' = db /\ start' = start /\ OthersAlone(q)
      BY <1>1, <1>3, SelectLocal DEF ResolveSession
    <2>2. UserOf[q] \in Users
      BY UserOfAssumption
    <2>3. User(UserOf[q]) \in db
      BY <2>1, <2>2 DEF SInv, Committed, SignInAtomic
    <2>4. Local(q)'
      BY <1>1, <2>1, <2>3 DEF Local, Path, HasTenant, HasCounted, HasUser, Connected
    <2> QED BY <2>1, <2>4, QuietStep
  <1>4. CASE OpenProfile(q) \/ OpenCatalogue(q) \/ ReadOwn(q)
    <2>1. PICK to \in {"profile", "catalogue", "served"} : AtHandler(q) /\ Go(q, to)
      BY <1>4 DEF OpenProfile, OpenCatalogue, ReadOwn
    <2>2. /\ step[q] = "user" /\ Kind[q] \in {"bearer", "session"} /\ step'[q] = to
          /\ first' = first /\ pend' = pend /\ seen' = seen
          /\ db' = db /\ start' = start /\ OthersAlone(q)
      BY <1>1, <2>1, GoLocal DEF AtHandler
    <2>3. Local(q)'
      BY <1>1, <2>2 DEF Local, Path, HasTenant, HasCounted, HasUser, Connected
    <2> QED BY <2>2, <2>3, QuietStep
  <1>5. CASE ReadCatalogue(q)
    <2>1. /\ step[q] = "catalogue" /\ step'[q] = "served"
          /\ first' = first /\ pend' = pend /\ seen' = seen
          /\ db' = db /\ start' = start /\ OthersAlone(q)
      BY <1>1, <1>5, GoLocal DEF ReadCatalogue
    <2>2. Local(q)'
      BY <1>1, <2>1 DEF Local, Path, HasTenant, HasCounted, HasUser, Connected
    <2> QED BY <2>1, <2>2, QuietStep
  <1>6. CASE SelectConnection(q)
    <2>1. /\ step[q] = "new" /\ step'[q] \in {"connectionRead", "rejected"} /\ Kind[q] = "broker"
          /\ first' = first /\ pend' = pend /\ seen' = seen
          /\ db' = db /\ start' = start /\ OthersAlone(q)
      BY <1>1, <1>6 DEF SelectConnection, Arrive, OthersAlone, TypeOK
    <2>2. Local(q)'
      BY <1>1, <2>1 DEF Local, Path, HasTenant, HasCounted, HasUser, Connected
    <2> QED BY <2>1, <2>2, QuietStep
  <1>7. CASE Refresh(q)
    <2>1. /\ step[q] = "connectionRead" /\ step'[q] = "refreshed"
          /\ first' = first /\ pend' = pend /\ seen' = seen
          /\ db' = db /\ start' = start /\ OthersAlone(q)
      BY <1>1, <1>7 DEF Refresh, OthersAlone, TypeOK
    <2>2. Local(q)'
      BY <1>1, <2>1 DEF Local, Path, HasTenant, HasCounted, HasUser, Connected
    <2> QED BY <2>1, <2>2, QuietStep
  <1>8. CASE Reject(q) \/ Forbid(q) \/ RefreshFails(q)
    <2>1. /\ End(q, {}, "rejected") /\ start' = start
          /\ step[q] \in {"tenantRead", "user", "connectionRead"}
      BY <1>8 DEF Reject, Forbid, RefreshFails, AtHandler, otherVars
    <2>2. "rejected" \in Final
      BY DEF Final
    <2> QED BY <2>1, <2>2, RolledBack
  <1>9. CASE StoreToken(q)
    <2>1. End(q, {}, "ok") /\ start' = start /\ step[q] = "refreshed"
      BY <1>9 DEF StoreToken
    <2>2. "ok" \in Final
      BY DEF Final
    <2> QED BY <2>1, <2>2, RolledBack
  <1>10. CASE Conflict(q) \/ PoolTimeout(q) \/ Abort(q)
    <2>1. End(q, {}, "error") /\ start' = start
      BY <1>10 DEF Conflict, PoolTimeout, Abort, Fail, otherVars
    <2>2. step[q] \notin {"ok", "error"}
      BY <1>10 DEF Conflict, Inserts, PoolTimeout, WantsConnection, Abort, Connected
    <2>3. "error" \in Final
      BY DEF Final
    <2> QED BY <2>1, <2>2, <2>3, RolledBack
  <1> QED BY <1>2, <1>3, <1>4, <1>5, <1>6, <1>7, <1>8, <1>9, <1>10

\* profile commits its audit event.
LEMMA AuditProfileKeeps ==
    ASSUME SInv, TypeOK', NEW q \in Requests, AuditProfile(q)
    PROVE  SInv'
  <1> DEFINE event == Event(UserOf[q], "profile.read")
  <1>1. TypeOK /\ Local(q)
    BY DEF SInv
  <1>2. /\ step[q] = "profile" /\ step'[q] = "served" /\ db' = db \cup {event}
        /\ first' = first /\ pend' = pend /\ seen' = seen
        /\ start' = start /\ OthersAlone(q)
    BY <1>1 DEF AuditProfile, OthersAlone, TypeOK, otherVars
  <1>3. /\ Tenant \in db' <=> Tenant \in db
        /\ \A u \in Users : /\ User(u) \in db' <=> User(u) \in db
                            /\ Connection(u) \in db' <=> Connection(u) \in db
                            /\ Event(u, "login") \in db' <=> Event(u, "login") \in db
                            /\ UserRole(u, Admin) \in db' <=> UserRole(u, Admin) \in db
    BY <1>2, RowsDiffer
  <1>4. Local(q)'
    BY <1>1, <1>2, <1>3 DEF Local, Path, HasTenant, HasCounted, HasUser, Connected
  <1>5. \A p \in Requests : Local(p)'
    BY <1>2, <1>4, OthersKeep DEF SInv, OthersAlone
  <1>6. Lock'
    BY <1>2, <1>3 DEF SInv, Lock
  <1>7. Administrators' = Administrators
    BY <1>3 DEF Administrators
  <1>8. BearerServed => BearerServed'
    BY <1>2 DEF BearerServed, OthersAlone
  <1>9. SignInAtomic'
    BY <1>2, <1>3 DEF SInv, Committed, SignInAtomic
  <1>10. OrphanNeedsFailure'
    <2> SUFFICES ASSUME NEW u \in Users, Event(u, "profile.read") \in db', User(u) \notin db'
                 PROVE  \E r \in Requests : UserOf[r] = u /\ Kind[r] = "bearer"
                                             /\ step'[r] \in {"served", "error"}
      BY DEF OrphanNeedsFailure
    <2>1. CASE u = UserOf[q]
      <3>1. Kind[q] = "bearer"
        BY <1>1, <1>2, <1>3, <2>1 DEF Local, Path, HasUser
      <3> QED BY <1>2, <2>1, <3>1
    <2>2. CASE u # UserOf[q]
      <3>1. Event(u, "profile.read") \in db /\ User(u) \notin db
        BY <1>2, <1>3, <2>2, RowsDiffer
      <3>2. PICK r \in Requests : UserOf[r] = u /\ Kind[r] = "bearer"
                                   /\ step[r] \in {"served", "error"}
        BY <3>1 DEF SInv, Committed, OrphanNeedsFailure
      <3> QED BY <1>2, <3>2 DEF OthersAlone
    <2> QED BY <2>1, <2>2
  <1>11. Committed'
    BY <1>2, <1>3, <1>7, <1>8, <1>9, <1>10 DEF SInv, Committed
  <1> QED BY <1>5, <1>6, <1>11 DEF SInv

\* get_session commits the user that a bearer request has synchronised.
LEMMA CommitSessionKeeps ==
    ASSUME SInv, TypeOK', NEW q \in Requests, CommitSession(q)
    PROVE  SInv'
  <1>1. TypeOK /\ Local(q)
    BY DEF SInv
  <1>2. /\ step[q] = "served" /\ step'[q] = "ok" /\ db' = db \cup pend[q]
        /\ pend'[q] = {} /\ seen'[q] = FALSE /\ first'[q] = FALSE
        /\ start' = start /\ OthersAlone(q)
    BY <1>1, EndLocal DEF CommitSession, otherVars
  <1>3. Kind[q] \in {"bearer", "session"} /\ (Kind[q] = "session" => pend[q] = {})
    BY <1>1, <1>2 DEF Local, Path
  <1>4. Tenant \notin pend[q]
    BY <1>1, <1>3 DEF Local
  <1>5. /\ Tenant \in db' <=> Tenant \in db
        /\ \A u \in Users : /\ Connection(u) \in db' <=> Connection(u) \in db
                            /\ \A a : Event(u, a) \in db' <=> Event(u, a) \in db
                            /\ UserRole(u, Admin) \in db' <=> UserRole(u, Admin) \in db
    BY <1>1, <1>2, <1>4, RowsDiffer DEF Local
  <1>6. Local(q)'
    <2>1. step'[q] \in Final
      BY <1>2 DEF Final
    <2> QED BY <1>2, <2>1, EndedLocal
  <1>7. \A p \in Requests : Local(p)'
    BY <1>2, <1>6, OthersKeep DEF SInv, OthersAlone
  <1>8. Lock'
    BY <1>2, <1>5 DEF SInv, Lock, OthersAlone
  <1>9. Administrators' = Administrators
    BY <1>5 DEF Administrators
  <1>10. BearerServed' \/ (db' = db /\ (BearerServed => BearerServed'))
    <2>1. CASE Kind[q] = "bearer"
      BY <1>2, <2>1 DEF BearerServed
    <2>2. CASE Kind[q] = "session"
      <3>1. db' = db
        BY <1>2, <1>3, <2>2
      <3>2. BearerServed => BearerServed'
        BY <2>2, <1>2 DEF BearerServed, OthersAlone
      <3> QED BY <3>1, <3>2
    <2> QED BY <1>3, <2>1, <2>2
  <1>11. SignInAtomic'
    BY <1>2, <1>5 DEF SInv, Committed, SignInAtomic
  <1>12. OrphanNeedsFailure'
    <2> SUFFICES ASSUME NEW u \in Users, Event(u, "profile.read") \in db', User(u) \notin db'
                 PROVE  \E r \in Requests : UserOf[r] = u /\ Kind[r] = "bearer"
                                             /\ step'[r] \in {"served", "error"}
      BY DEF OrphanNeedsFailure
    <2>1. u # UserOf[q]
      BY <1>1, <1>2 DEF Local, HasUser
    <2>2. Event(u, "profile.read") \in db /\ User(u) \notin db
      BY <1>2, <1>5
    <2>3. PICK r \in Requests : UserOf[r] = u /\ Kind[r] = "bearer"
                                 /\ step[r] \in {"served", "error"}
      BY <2>2 DEF SInv, Committed, OrphanNeedsFailure
    <2> QED BY <1>2, <2>1, <2>3 DEF OthersAlone
  <1>13. Committed'
    BY <1>2, <1>5, <1>9, <1>10, <1>11, <1>12 DEF SInv, Committed
  <1> QED BY <1>7, <1>8, <1>13 DEF SInv

\* A callback commits.
LEMMA FinishKeeps ==
    ASSUME SInv, TypeOK', NEW q \in Requests, Finish(q)
    PROVE  SInv'
  <1> DEFINE u == UserOf[q]
  <1>1. TypeOK /\ Local(q) /\ u \in Users
    BY UserOfAssumption DEF SInv
  <1>2. /\ step[q] = "role" /\ step'[q] = "ok"
        /\ db' = db \cup (pend[q] \cup LoginRows(q))
        /\ pend'[q] = {} /\ seen'[q] = FALSE /\ first'[q] = FALSE
        /\ start' = start /\ OthersAlone(q)
    BY <1>1, EndLocal DEF Finish
  <1>3. /\ Kind[q] = "callback" /\ RoleName(q) \in {Admin, Reader}
        /\ first[q] <=> RoleName(q) = Admin
    BY <1>1, <1>2, RowsDiffer DEF Local, Path, RoleName
  <1>4. /\ {Tenant, User(u), Role(RoleName(q)), UserRole(u, RoleName(q)),
            Connection(u), Event(u, "login")} \subseteq db'
        /\ db \subseteq db'
    BY <1>1, <1>2, <1>3 DEF Local, HasTenant, HasUser, LoginRows
  <1>5. \A v \in Users :
           /\ Connection(v) \in db' <=> v = u \/ Connection(v) \in db
           /\ Event(v, "login") \in db' <=> v = u \/ Event(v, "login") \in db
           /\ Event(v, "profile.read") \in db' <=> Event(v, "profile.read") \in db
           /\ UserRole(v, Admin) \in db' <=> (v = u /\ first[q]) \/ UserRole(v, Admin) \in db
    <2>1. \A row : row \in db' <=> row \in db \/ row \in pend[q] \/ row \in LoginRows(q)
      BY <1>2
    <2>2. \A row \in pend[q] : row[1] \in {"tenants", "users", "roles"}
      BY <1>1, RowsDiffer DEF Local
    <2>3. \A v : /\ Connection(v) \notin pend[q] /\ UserRole(v, Admin) \notin pend[q]
                 /\ \A a : Event(v, a) \notin pend[q]
      BY <2>2, RowsDiffer
    <2>4. \A v : /\ Connection(v) \in LoginRows(q) <=> v = u
                 /\ Event(v, "login") \in LoginRows(q) <=> v = u
                 /\ Event(v, "profile.read") \notin LoginRows(q)
                 /\ UserRole(v, Admin) \in LoginRows(q) <=> v = u /\ first[q]
      BY <1>3, RowsDiffer DEF LoginRows
    <2> QED BY <2>1, <2>3, <2>4
  <1>6. Tenant \in db' /\ (first[q] /\ start = "nothing" => Tenant \notin db)
    BY <1>1, <1>4 DEF Local, SInv, Lock
  <1>7. Local(q)'
    <2>1. step'[q] \in Final
      BY <1>2 DEF Final
    <2> QED BY <1>2, <2>1, EndedLocal
  <1>8. \A p \in Requests : Local(p)'
    BY <1>2, <1>4, <1>7, OthersKeep DEF SInv, OthersAlone
  <1>9. Lock'
    <2> SUFFICES ASSUME NEW p \in Requests, Tenant \in pend'[p]
                 PROVE  Tenant \notin db' /\ \A r \in Requests \ {p} : Tenant \notin pend'[r]
      BY DEF Lock
    <2>1. p # q /\ Tenant \in pend[p]
      BY <1>2 DEF OthersAlone
    <2>2. Tenant \notin db /\ \A r \in Requests \ {p} : Tenant \notin pend[r]
      BY <2>1 DEF SInv, Lock
    <2>3. Tenant \in db \cup pend[q]
      BY <1>1, <1>2, <1>3 DEF Local, HasTenant
    <2> QED BY <2>1, <2>2, <2>3
  <1>10. Administrators' = IF first[q] THEN Administrators \cup {u} ELSE Administrators
    BY <1>1, <1>5 DEF Administrators
  <1>11. BearerServed => BearerServed'
    BY <1>2, <1>3 DEF BearerServed, OthersAlone
  <1>12. SignInAtomic'
    <2> SUFFICES ASSUME NEW v \in Users
                 PROVE  /\ Connection(v) \in db' <=> Event(v, "login") \in db'
                        /\ Connection(v) \in db' => \E name \in {Admin, Reader} :
                              {Tenant, User(v), Role(name), UserRole(v, name)} \subseteq db'
      BY DEF SignInAtomic
    <2>1. CASE v = u
      BY <1>3, <1>4, <2>1
    <2>2. CASE v # u
      BY <1>4, <1>5, <2>2 DEF SInv, Committed, SignInAtomic
    <2> QED BY <2>1, <2>2
  <1>13. OrphanNeedsFailure'
    BY <1>2, <1>4, <1>5 DEF SInv, Committed, OrphanNeedsFailure, OthersAlone
  <1>14. start = "nothing" => \E v \in Users : Administrators' = {v}
    <2> SUFFICES ASSUME start = "nothing" PROVE \E v \in Users : Administrators' = {v}
      OBVIOUS
    <2>1. CASE first[q]
      BY <1>1, <1>6, <1>10, <2>1 DEF SInv, Committed
    <2>2. CASE ~first[q]
      <3>1. Tenant \in db
        BY <1>1, <1>2, <1>3, <2>2 DEF Local, HasTenant
      <3> QED BY <1>10, <2>2, <3>1 DEF SInv, Committed
    <2> QED BY <2>1, <2>2
  <1>15. Administrators' # {} \/ BearerServed'
    <2>1. CASE first[q]
      BY <1>10, <2>1
    <2>2. CASE ~first[q]
      <3>1. \E v \in Users : User(v) \in db
        BY <1>1, <1>2, <1>3, <2>2 DEF Local, HasTenant, HasCounted
      <3> QED BY <1>10, <1>11, <2>2, <3>1 DEF SInv, Committed
    <2> QED BY <2>1, <2>2
  <1>16. Committed'
    BY <1>1, <1>2, <1>4, <1>6, <1>12, <1>13, <1>14, <1>15 DEF Committed
  <1> QED BY <1>8, <1>9, <1>16 DEF SInv

LEMMA SInvInit ==
    ASSUME Init
    PROVE  SInv
  <1> DEFINE u == BootstrapAdmin
  <1>1. u \in Users
    BY BootstrapAssumption
  <1>2. /\ db = (IF start = "nothing" THEN {} ELSE {Tenant, Role(Admin)}) \cup
                (IF start = "admin" \/ start = "signed in"
                 THEN {User(u), UserRole(u, Admin)} ELSE {})
                \cup (IF start = "signed in" THEN {Connection(u), Event(u, "login")} ELSE {})
        /\ issued = [v \in Users |-> IF v = u /\ start = "signed in" THEN 1 ELSE 0]
    BY DEF Init
  <1>3. db \subseteq Rows
    <2>1. {Tenant, Role(Admin), User(u), UserRole(u, Admin), Connection(u), Event(u, "login")}
             \subseteq Rows
      BY <1>1 DEF Rows
    <2> QED BY <1>2, <2>1
  <1>4. TypeOK
    <2>1. step \in [Requests -> Steps]
      BY DEF Init, Steps
    <2>2. faults = 0
      BY DEF Init
    <2>3. faults \in 0..MaxFaults
      BY <2>2, MaxFaultsAssumption
    <2>4. issued \in [Users -> Nat]
      BY <1>2
    <2>5. /\ stored = issued /\ start \in Starts /\ pool \in PoolSizes
          /\ seen \in [Requests -> BOOLEAN] /\ first \in [Requests -> BOOLEAN]
          /\ pend \in [Requests -> SUBSET Rows] /\ met \in [Requests -> SUBSET Requests]
          /\ token \in [Requests -> Nat]
      BY DEF Init
    <2> QED BY <1>3, <2>1, <2>3, <2>4, <2>5 DEF TypeOK
  <1>5. ASSUME NEW q \in Requests PROVE Local(q)
    <2>1. step[q] = "new" /\ pend[q] = {} /\ seen[q] = FALSE /\ first[q] = FALSE
      BY DEF Init
    <2> QED BY <2>1 DEF Local, Path, HasTenant, HasCounted, HasUser
  <1>6. Lock
    BY DEF Init, Lock
  <1>7. \A v \in Users :
           /\ User(v) \in db => UserRole(u, Admin) \in db
           /\ Connection(v) \in db <=> v = u /\ start = "signed in"
           /\ Event(v, "login") \in db <=> v = u /\ start = "signed in"
           /\ Event(v, "profile.read") \notin db
    <2>1. CASE start = "signed in"
      <3>1. db = {Tenant, Role(Admin), User(u), UserRole(u, Admin), Connection(u),
                  Event(u, "login")}
        BY <1>2, <2>1
      <3>2. \A v : /\ Connection(v) \in db <=> v = u
                   /\ Event(v, "login") \in db <=> v = u
                   /\ Event(v, "profile.read") \notin db
        BY <3>1, RowsDiffer
      <3>3. UserRole(u, Admin) \in db
        BY <3>1
      <3> QED BY <2>1, <3>2, <3>3
    <2>2. CASE start = "admin"
      <3>1. db = {Tenant, Role(Admin), User(u), UserRole(u, Admin)}
        BY <1>2, <2>2
      <3> QED BY <2>2, <3>1, RowsDiffer
    <2>3. CASE start \notin {"signed in", "admin"}
      <3>1. db \subseteq {Tenant, Role(Admin)}
        BY <1>2, <2>3
      <3>2. \A v : /\ User(v) \notin db /\ Connection(v) \notin db
                   /\ \A a : Event(v, a) \notin db
        BY <3>1, RowsDiffer
      <3> QED BY <2>3, <3>2
    <2> QED BY <2>1, <2>2, <2>3
  <1>8. SignInAtomic
    BY <1>2, <1>7 DEF SignInAtomic
  <1>9. OrphanNeedsFailure
    BY <1>7 DEF OrphanNeedsFailure
  <1>10. start = "nothing" => Tenant \notin db /\ Administrators = {}
    BY <1>2 DEF Administrators
  <1>11. (\E v \in Users : User(v) \in db) => Administrators # {}
    BY <1>1, <1>7 DEF Administrators
  <1> QED BY <1>4, <1>5, <1>6, <1>8, <1>9, <1>10, <1>11 DEF SInv, Committed

LEMMA SInvStep ==
    ASSUME SInv, [Next]_vars
    PROVE  SInv'
  <1>1. CASE Next
    <2>1. PICK q \in Requests : Handle(q) \/ Abort(q)
      BY <1>1 DEF Next
    <2>2. TypeOK'
      BY <2>1, Typed DEF SInv
    <2> QED BY <2>1, <2>2, CallbackQuiet, OtherQuiet, AuditProfileKeeps, CommitSessionKeeps,
               FinishKeeps DEF Handle
  <1>2. CASE UNCHANGED vars
    <2>1. /\ UNCHANGED <<start, db, step, seen, first, pend, pool, issued, stored>>
          /\ UNCHANGED <<token, met, faults>>
      BY <1>2 DEF vars, requestVars, tokenVars
    <2>2. TypeOK'
      BY <2>1 DEF SInv, TypeOK
    <2>3. \A q \in Requests : Local(q)'
      BY <2>1, OthersKeep DEF SInv
    <2>4. Lock' /\ Committed'
      BY <2>1 DEF SInv, Lock, Committed, Administrators, BearerServed, SignInAtomic,
                  OrphanNeedsFailure
    <2> QED BY <2>2, <2>3, <2>4 DEF SInv
  <1> QED BY <1>1, <1>2

THEOREM SInvInductive == Spec => []SInv
  BY SInvInit, SInvStep, PTL DEF Spec

\* The types of all variables, for any number of requests.
THEOREM TypeCorrect == Spec => []TypeOK
  <1>1. SInv => TypeOK
    BY DEF SInv
  <1> QED BY <1>1, SInvInductive, PTL

\* onboard_oauth_user and the commit of get_session: whatever requests run at
\* the same time and fail, the rows of a sign-in are all there or none is.
THEOREM SignInAtomicTheorem == Spec => []SignInAtomic
  <1>1. SInv => SignInAtomic
    BY DEF SInv, Committed
  <1> QED BY <1>1, SInvInductive, PTL

\* get_or_create_tenant and count_users: concurrent first sign-ins leave one
\* administrator, because the tenant's row is locked by who creates it.
THEOREM OneAdministratorTheorem == Spec => []OneAdministrator
  <1>1. SInv => OneAdministrator
    <2> SUFFICES ASSUME SInv PROVE OneAdministrator
      OBVIOUS
    <2>1. start = "nothing" /\ Tenant \in db => Cardinality(Administrators) = 1
      <3> SUFFICES ASSUME start = "nothing", Tenant \in db
                   PROVE  Cardinality(Administrators) = 1
        OBVIOUS
      <3>1. PICK u \in Users : Administrators = {u}
        BY DEF SInv, Committed
      <3> QED BY <3>1, FS_Singleton
    <2>2. (\E u \in Users : Connection(u) \in db) => Administrators # {} \/ BearerServed
      BY DEF SInv, Committed, SignInAtomic
    <2> QED BY <2>1, <2>2 DEF OneAdministrator, BearerServed
  <1> QED BY <1>1, SInvInductive, PTL

\* profile commits its event before get_session commits the user: the trail
\* knows a user without a row only while a bearer request is being answered or
\* after it has failed.
THEOREM OrphanNeedsFailureTheorem == Spec => []OrphanNeedsFailure
  <1>1. SInv => OrphanNeedsFailure
    BY DEF SInv, Committed
  <1> QED BY <1>1, SInvInductive, PTL

-----------------------------------------------------------------------------
(* Refresh tokens.                                                         *)

\* The other requests stay where they are.
StepAlone(q) == \A p \in Requests \ {q} : step'[p] = step[p]

\* A request goes on or ends, and no token changes hands.
LEMMA TokensQuiet ==
    ASSUME TypeOK, TypeOK', TInv, NEW q \in Requests, UNCHANGED <<tokenVars, met>>, StepAlone(q),
           step'[q] # "new", step[q] \notin Final, step'[q] = "ok" => token[q] = 0,
           step[q] = "new" /\ Talks(q) => step'[q] \in Final
    PROVE  TInv'
  <1>1. issued' = issued /\ stored' = stored /\ token' = token /\ met' = met
    BY DEF tokenVars
  <1>2. /\ \A p \in Requests \ {q} : Busy(p)' <=> Busy(p)
        /\ Talks(q) /\ Busy(q)' => Busy(q)
        /\ \A p : Talks(p)' <=> Talks(p)
    BY DEF StepAlone, Busy, Talks, Final
  <1>3. ASSUME NEW p \in Requests
        PROVE  /\ token'[p] <= issued'[UserOf[p]]
               /\ ~Talks(p) \/ step'[p] = "new" => token'[p] = 0
               /\ Kind[p] = "callback" /\ Busy(p)' => token'[p] # 0
    BY <1>1, <1>2 DEF TInv, StepAlone, Talks
  <1>4. ASSUME NEW p \in Requests, NEW r \in Requests,
               p # r, SameUser(p, r), Busy(p)', step'[r] # "new"
        PROVE  Met(p, r)'
    <2>1. Busy(p)
      BY <1>2, <1>4 DEF SameUser
    <2>2. CASE step[r] # "new"
      <3>1. Met(p, r)
        BY <1>4, <2>1, <2>2 DEF TInv
      <3> QED BY <1>1, <1>2, <1>4, <3>1 DEF Met, SameUser
    <2>3. CASE step[r] = "new"
      <3>1. r = q /\ token[r] = 0 /\ ~Busy(r)'
        BY <1>2, <1>4, <2>3 DEF StepAlone, TInv, SameUser, Busy
      <3>2. token[p] \in Nat
        BY DEF TypeOK
      <3> QED BY <1>1, <3>1, <3>2 DEF Met
    <2> QED BY <2>2, <2>3
  <1>5. OlderTokenNeedsOverlap'
    <2> SUFFICES ASSUME NEW r \in Requests, step'[r] = "ok", token[r] > stored[UserOf[r]]
                 PROVE  \E p \in met[r] : step'[p] = "ok" /\ token[p] = stored[UserOf[r]]
      BY <1>1 DEF OlderTokenNeedsOverlap
    <2>1. r # q
      <3>1. stored[UserOf[r]] \in Nat
        BY UserOfAssumption DEF TypeOK
      <3> QED BY <3>1
    <2>2. PICK p \in met[r] : step[p] = "ok" /\ token[p] = stored[UserOf[r]]
      BY <2>1 DEF TInv, OlderTokenNeedsOverlap, StepAlone
    <2>3. p \in Requests /\ p # q
      BY <2>2 DEF TypeOK, Final
    <2> QED BY <2>2, <2>3 DEF StepAlone
  <1> QED BY <1>3, <1>4, <1>5, <1>2 DEF TInv, SameUser

\* A request stores the token that it has got.
LEMMA TokenStored ==
    ASSUME TypeOK, TypeOK', TInv, NEW q \in Requests, issued' = issued, token' = token,
           met' = met, StepAlone(q), Talks(q), Busy(q), step'[q] = "ok", token[q] # 0,
           stored' = [stored EXCEPT ![UserOf[q]] = token[q]]
    PROVE  TInv'
  <1>1. /\ \A p \in Requests \ {q} : Busy(p)' <=> Busy(p)
        /\ ~Busy(q)' /\ step[q] # "new"
        /\ \A p : Talks(p)' <=> Talks(p)
    BY DEF StepAlone, Busy, Talks, Final
  <1>2. ASSUME NEW p \in Requests
        PROVE  /\ token'[p] <= issued'[UserOf[p]]
               /\ ~Talks(p) \/ step'[p] = "new" => token'[p] = 0
               /\ Kind[p] = "callback" /\ Busy(p)' => token'[p] # 0
    BY <1>1 DEF TInv, StepAlone, Talks
  <1>3. ASSUME NEW p \in Requests, NEW r \in Requests,
               p # r, SameUser(p, r), Busy(p)', step'[r] # "new"
        PROVE  Met(p, r)'
    <2>1. Busy(p) /\ step[r] # "new"
      BY <1>1, <1>3 DEF StepAlone
    <2>2. Met(p, r)
      BY <1>3, <2>1 DEF TInv
    <2> QED BY <1>1, <1>3, <2>2 DEF Met
  <1>4. OlderTokenNeedsOverlap'
    <2> SUFFICES ASSUME NEW r \in Requests, step'[r] = "ok", token[r] > stored'[UserOf[r]]
                 PROVE  \E p \in met[r] : step'[p] = "ok" /\ token[p] = stored'[UserOf[r]]
      BY DEF OlderTokenNeedsOverlap
    <2>1. UserOf[r] \in Users /\ token[r] \in Nat /\ token[q] \in Nat
      BY UserOfAssumption DEF TypeOK
    <2>2. CASE UserOf[r] = UserOf[q]
      <3>1. stored'[UserOf[r]] = token[q]
        BY <2>1, <2>2 DEF TypeOK
      <3>2. r # q /\ step[r] = "ok"
        BY <2>1, <3>1 DEF StepAlone
      <3>3. Talks(r)
        BY <2>1, <3>1 DEF TInv
      <3>4. Met(q, r) /\ ~Busy(r)
        BY <2>2, <3>2, <3>3 DEF TInv, SameUser, Busy, Final
      <3>5. q \in met[r]
        BY <2>1, <3>1, <3>4 DEF Met
      <3> QED BY <3>1, <3>5
    <2>3. CASE UserOf[r] # UserOf[q]
      <3>1. stored'[UserOf[r]] = stored[UserOf[r]] /\ r # q
        BY <2>1, <2>3 DEF TypeOK
      <3>2. PICK p \in met[r] : step[p] = "ok" /\ token[p] = stored[UserOf[r]]
        BY <3>1 DEF TInv, OlderTokenNeedsOverlap, StepAlone
      <3>3. p \in Requests /\ p # q
        BY <3>2 DEF TypeOK, Busy, Final
      <3> QED BY <3>1, <3>2, <3>3 DEF StepAlone
    <2> QED BY <2>2, <2>3
  <1> QED BY <1>1, <1>2, <1>3, <1>4 DEF TInv, SameUser

\* The token that Microsoft issues is newer than all of the user's.
LEMMA Issued ==
    ASSUME TypeOK, TInv, NEW q \in Requests, Issue(q)
    PROVE  /\ \A p \in Requests : token'[p] <= issued'[UserOf[p]]
           /\ \A p \in Requests \ {q} : token'[p] = token[p]
           /\ token'[q] # 0
           /\ \A p \in Requests \ {q} : UserOf[p] = UserOf[q] => token'[q] > token[p]
  <1>1. \A p \in Requests : UserOf[p] \in Users /\ token[p] \in Nat /\ issued[UserOf[p]] \in Nat
    BY UserOfAssumption DEF TypeOK
  <1>2. /\ issued' = [issued EXCEPT ![UserOf[q]] = issued[UserOf[q]] + 1]
        /\ token' = [token EXCEPT ![q] = issued[UserOf[q]] + 1]
    BY <1>1 DEF Issue, TypeOK
  <1>3. /\ token'[q] = issued[UserOf[q]] + 1
        /\ \A p \in Requests \ {q} : token'[p] = token[p]
        /\ issued'[UserOf[q]] = issued[UserOf[q]] + 1
        /\ \A p \in Requests : UserOf[p] # UserOf[q] => issued'[UserOf[p]] = issued[UserOf[p]]
    BY <1>1, <1>2 DEF TypeOK
  <1>4. \A p \in Requests : token[p] <= issued[UserOf[p]]
    BY DEF TInv
  <1> QED BY <1>1, <1>3, <1>4

\* A request that arrives meets those that are under way.
LEMMA Arrived ==
    ASSUME TypeOK, NEW q \in Requests, Arrive(q), Talks(q)
    PROVE  /\ step[q] = "new"
           /\ \A p \in Requests \ {q} : SameUser(p, q) /\ Busy(p) => p \in met'[q] /\ q \in met'[p]
           /\ \A p \in Requests \ {q} : met[p] \subseteq met'[p]
  BY DEF TypeOK, Arrive, SameUser, Talks, Busy

\* A callback or a broker begins.
LEMMA TokensArrive ==
    ASSUME TypeOK, TypeOK', TInv, NEW q \in Requests, Arrive(q), Talks(q), StepAlone(q),
           step'[q] \notin {"new", "ok"}, stored' = stored,
           Issue(q) \/ (issued' = issued /\ token' = token /\ Kind[q] = "broker")
    PROVE  TInv'
  <1>1. /\ step[q] = "new" /\ token[q] = 0
        /\ \A p \in Requests \ {q} : SameUser(p, q) /\ Busy(p) => p \in met'[q] /\ q \in met'[p]
        /\ \A p \in Requests \ {q} : met[p] \subseteq met'[p]
    BY Arrived DEF TInv
  <1>2. /\ \A p \in Requests : token'[p] <= issued'[UserOf[p]]
        /\ \A p \in Requests \ {q} : token'[p] = token[p]
        /\ \A p \in Requests \ {q} : UserOf[p] = UserOf[q] =>
              token'[q] = 0 \/ token'[q] > token[p]
        /\ Kind[q] = "callback" => token'[q] # 0
    <2>1. CASE Issue(q)
      BY <2>1, Issued
    <2>2. CASE issued' = issued /\ token' = token /\ Kind[q] = "broker"
      BY <1>1, <2>2 DEF TInv
    <2> QED BY <2>1, <2>2
  <1>3. \A p \in Requests \ {q} : Busy(p)' <=> Busy(p)
    BY DEF StepAlone, Busy
  <1>4. ASSUME NEW p \in Requests
        PROVE  /\ ~Talks(p) \/ step'[p] = "new" => token'[p] = 0
               /\ Kind[p] = "callback" /\ Busy(p)' => token'[p] # 0
    BY <1>2, <1>3 DEF TInv, StepAlone
  <1>5. ASSUME NEW p \in Requests, NEW r \in Requests,
               p # r, SameUser(p, r), Busy(p)', step'[r] # "new"
        PROVE  Met(p, r)'
    <2>1. \A x \in Requests : token[x] \in Nat /\ token'[x] \in Nat
      BY DEF TypeOK
    <2>2. CASE p = q
      <3>1. SameUser(r, q) /\ r # q
        BY <1>5, <2>2 DEF SameUser
      <3>2. CASE Busy(r)
        BY <1>1, <1>3, <2>2, <3>1, <3>2 DEF Met
      <3>3. CASE ~Busy(r)
        BY <1>2, <1>3, <2>2, <3>1, <3>3 DEF Met, SameUser
      <3> QED BY <3>2, <3>3
    <2>3. CASE r = q
      BY <1>1, <1>3, <1>5, <2>3 DEF Met
    <2>4. CASE p # q /\ r # q
      <3>1. Met(p, r)
        BY <1>3, <1>5, <2>4 DEF TInv, StepAlone
      <3> QED BY <1>1, <1>2, <1>3, <2>4, <3>1 DEF Met
    <2> QED BY <2>2, <2>3, <2>4
  <1>6. OlderTokenNeedsOverlap'
    <2> SUFFICES ASSUME NEW r \in Requests, step'[r] = "ok", token'[r] > stored[UserOf[r]]
                 PROVE  \E p \in met'[r] : step'[p] = "ok" /\ token'[p] = stored[UserOf[r]]
      BY DEF OlderTokenNeedsOverlap
    <2>1. r # q /\ step[r] = "ok" /\ token'[r] = token[r]
      BY <1>2 DEF StepAlone
    <2>2. PICK p \in met[r] : step[p] = "ok" /\ token[p] = stored[UserOf[r]]
      BY <2>1 DEF TInv, OlderTokenNeedsOverlap
    <2>3. p \in Requests /\ p # q
      BY <1>1, <2>2 DEF TypeOK
    <2> QED BY <1>1, <1>2, <2>1, <2>2, <2>3 DEF StepAlone
  <1> QED BY <1>2, <1>4, <1>5, <1>6 DEF TInv, SameUser, Talks

\* A broker gets its answer from Microsoft.
LEMMA TokensRefresh ==
    ASSUME TypeOK, TypeOK', TInv, NEW q \in Requests, Talks(q), StepAlone(q), Busy(q), Busy(q)',
           met' = met, stored' = stored,
           Issue(q) \/ (issued' = issued /\ token' = token)
    PROVE  TInv'
  <1>1. /\ \A p \in Requests : token'[p] <= issued'[UserOf[p]]
        /\ \A p \in Requests \ {q} : token'[p] = token[p]
        /\ \/ token'[q] = token[q]
           \/ /\ token'[q] # 0
              /\ \A p \in Requests \ {q} : UserOf[p] = UserOf[q] => token'[q] > token[p]
    BY Issued DEF TInv
  <1>2. /\ \A p \in Requests : Busy(p)' <=> Busy(p)
        /\ step[q] # "new" /\ step'[q] \notin {"new", "ok"}
    BY DEF StepAlone, Busy, Final
  <1>3. ASSUME NEW p \in Requests
        PROVE  /\ ~Talks(p) \/ step'[p] = "new" => token'[p] = 0
               /\ Kind[p] = "callback" /\ Busy(p)' => token'[p] # 0
    BY <1>1, <1>2 DEF TInv, StepAlone
  <1>4. ASSUME NEW p \in Requests, NEW r \in Requests,
               p # r, SameUser(p, r), Busy(p)', step'[r] # "new"
        PROVE  Met(p, r)'
    <2>1. \A x \in Requests : token[x] \in Nat /\ token'[x] \in Nat
      BY DEF TypeOK
    <2>2. Met(p, r)
      BY <1>2, <1>4 DEF TInv, StepAlone
    <2>3. CASE p = q
      BY <1>1, <1>2, <1>4, <2>2, <2>3 DEF Met, SameUser
    <2>4. CASE p # q
      BY <1>1, <1>2, <1>4, <2>2, <2>4 DEF Met
    <2> QED BY <2>3, <2>4
  <1>5. OlderTokenNeedsOverlap'
    <2> SUFFICES ASSUME NEW r \in Requests, step'[r] = "ok", token'[r] > stored[UserOf[r]]
                 PROVE  \E p \in met[r] : step'[p] = "ok" /\ token'[p] = stored[UserOf[r]]
      BY DEF OlderTokenNeedsOverlap
    <2>1. r # q /\ step[r] = "ok" /\ token'[r] = token[r]
      BY <1>1, <1>2 DEF StepAlone
    <2>2. PICK p \in met[r] : step[p] = "ok" /\ token[p] = stored[UserOf[r]]
      BY <2>1 DEF TInv, OlderTokenNeedsOverlap
    <2>3. p \in Requests /\ p # q
      BY <2>2 DEF TypeOK, Busy, Final
    <2> QED BY <1>1, <2>2, <2>3 DEF StepAlone
  <1> QED BY <1>1, <1>3, <1>4, <1>5 DEF TInv, SameUser, Talks

LEMMA TInvStep ==
    ASSUME SInv, SInv', TInv, NEW q \in Requests, Handle(q) \/ Abort(q)
    PROVE  TInv'
  <1>1. TypeOK /\ TypeOK' /\ Path(q)
    BY DEF SInv, Local
  <1>2. StepAlone(q)
    BY <1>1 DEF StepAlone, TypeOK, Handle, Abort, Fail, End, Select, Flush, Take, Go, Exchange,
        SelectTenant, CreateTenant, KnownTenant, CountUsers, SelectUser, FlushUser, SelectRole,
        CreateRole, KnownRole, Finish, ResolveBearer, Reject, ResolveSession, OpenProfile,
        OpenCatalogue, ReadOwn, AuditProfile, ReadCatalogue, Forbid, CommitSession,
        SelectConnection, Refresh, RefreshFails, StoreToken, Conflict, PoolTimeout
  <1>3. CASE Exchange(q)
    <2>1. /\ Kind[q] = "callback" /\ step'[q] = "exchanged" /\ stored' = stored
          /\ Arrive(q) /\ Issue(q)
      BY <1>1, <1>3 DEF Exchange, TypeOK
    <2> QED BY <1>1, <1>2, <2>1, TokensArrive DEF Talks
  <1>4. CASE SelectConnection(q)
    <2>1. /\ Kind[q] = "broker" /\ step'[q] \in {"connectionRead", "rejected"}
          /\ Arrive(q) /\ issued' = issued /\ stored' = stored /\ token' = token
      BY <1>1, <1>4 DEF SelectConnection, TypeOK, tokenVars
    <2> QED BY <1>1, <1>2, <2>1, TokensArrive DEF Talks
  <1>5. CASE Refresh(q)
    <2>1. /\ step[q] = "connectionRead" /\ step'[q] = "refreshed"
          /\ met' = met /\ stored' = stored
          /\ Issue(q) \/ (issued' = issued /\ token' = token)
      BY <1>1, <1>5 DEF Refresh, TypeOK
    <2>2. Talks(q) /\ Busy(q) /\ Busy(q)'
      BY <1>1, <2>1 DEF Path, Talks, Busy, Final
    <2> QED BY <1>1, <1>2, <2>1, <2>2, TokensRefresh
  <1>6. CASE Finish(q)
    <2>1. /\ step[q] = "role" /\ step'[q] = "ok" /\ issued' = issued /\ token' = token
          /\ met' = met /\ stored' = [stored EXCEPT ![UserOf[q]] = token[q]]
      BY <1>1, <1>6, EndLocal DEF Finish
    <2>2. Talks(q) /\ Busy(q) /\ token[q] # 0
      BY <1>1, <2>1 DEF Path, Talks, Busy, Final, TInv
    <2> QED BY <1>1, <1>2, <2>1, <2>2, TokenStored
  <1>7. CASE StoreToken(q)
    <2>1. /\ step[q] = "refreshed" /\ step'[q] = "ok" /\ issued' = issued /\ token' = token
          /\ met' = met
          /\ stored' = [stored EXCEPT ![UserOf[q]] = IF token[q] = 0 THEN @ ELSE token[q]]
      BY <1>1, <1>7, EndLocal DEF StoreToken
    <2>2. Talks(q) /\ Busy(q)
      BY <1>1, <2>1 DEF Path, Talks, Busy, Final
    <2>3. CASE token[q] # 0
      <3>1. stored' = [stored EXCEPT ![UserOf[q]] = token[q]]
        BY <2>1, <2>3
      <3> QED BY <1>1, <1>2, <2>1, <2>2, <2>3, <3>1, TokenStored
    <2>4. CASE token[q] = 0
      <3>1. stored' = stored
        BY <1>1, <2>1, <2>4 DEF TypeOK
      <3> QED BY <1>1, <1>2, <2>1, <2>2, <2>4, <3>1, TokensQuiet DEF tokenVars, Busy
    <2> QED BY <2>3, <2>4
  <1>8. CASE CommitSession(q)
    <2>1. step[q] = "served" /\ step'[q] = "ok" /\ UNCHANGED <<tokenVars, met>>
      BY <1>1, <1>8, EndLocal DEF CommitSession, otherVars
    <2>2. ~Talks(q) /\ token[q] = 0
      BY <1>1, <2>1 DEF Path, Talks, TInv
    <2> QED BY <1>1, <1>2, <2>1, <2>2, TokensQuiet DEF Final
  <1>9. CASE \/ SelectTenant(q) \/ CreateTenant(q) \/ KnownTenant(q) \/ CountUsers(q)
             \/ SelectUser(q) \/ FlushUser(q) \/ SelectRole(q) \/ CreateRole(q) \/ KnownRole(q)
             \/ OpenProfile(q) \/ OpenCatalogue(q) \/ ReadOwn(q) \/ AuditProfile(q)
             \/ ReadCatalogue(q)
    <2>1. UNCHANGED <<tokenVars, met>>
      BY <1>9 DEF SelectTenant, CreateTenant, KnownTenant, CountUsers, SelectUser, FlushUser,
          SelectRole, CreateRole, KnownRole, OpenProfile, OpenCatalogue, ReadOwn, AuditProfile,
          ReadCatalogue, Select, Flush, Take, Go, otherVars
    <2>2. step[q] \in {"exchanged", "tenantRead", "tenant", "counted", "userRead", "user",
                       "roleRead", "profile", "catalogue"}
      BY <1>9 DEF SelectTenant, CreateTenant, KnownTenant, CountUsers, SelectUser, FlushUser,
          SelectRole, CreateRole, KnownRole, OpenProfile, OpenCatalogue, ReadOwn, AuditProfile,
          ReadCatalogue, AtHandler, Select, Flush, Take
    <2>3. step'[q] \in Connected
      BY <1>1, <1>9 DEF TypeOK, SelectTenant, CreateTenant, KnownTenant, CountUsers, SelectUser,
          FlushUser, SelectRole, CreateRole, KnownRole, OpenProfile, OpenCatalogue, ReadOwn,
          AuditProfile, ReadCatalogue, Select, Flush, Take, Go, Connected
    <2> QED BY <1>1, <1>2, <2>1, <2>2, <2>3, TokensQuiet DEF Final, Connected
  <1>10. CASE ResolveBearer(q) \/ ResolveSession(q)
    <2>1. /\ UNCHANGED <<tokenVars, met>> /\ Kind[q] \in {"bearer", "session"}
          /\ step[q] = "new" /\ step'[q] \in {"tenantRead", "user"}
      BY <1>1, <1>10 DEF ResolveBearer, ResolveSession, Select, otherVars, TypeOK
    <2> QED BY <1>1, <1>2, <2>1, TokensQuiet DEF Final, Talks
  <1>11. CASE \/ Reject(q) \/ Forbid(q) \/ RefreshFails(q)
              \/ Conflict(q) \/ PoolTimeout(q) \/ Abort(q)
    <2>1. UNCHANGED <<tokenVars, met>>
      BY <1>11 DEF Reject, Forbid, RefreshFails, Conflict, PoolTimeout, Abort, Fail, otherVars
    <2>2. step'[q] \in {"rejected", "error"}
      BY <1>1, <1>11, EndLocal
      DEF Reject, Forbid, RefreshFails, Conflict, PoolTimeout, Abort, Fail
    <2>3. step[q] \notin Final
      BY <1>11 DEF Reject, Forbid, AtHandler, RefreshFails, Conflict, Inserts, PoolTimeout,
          WantsConnection, Abort, Connected, Final
    <2> QED BY <1>1, <1>2, <2>1, <2>2, <2>3, TokensQuiet DEF Final
  <1> QED BY <1>3, <1>4, <1>5, <1>6, <1>7, <1>8, <1>9, <1>10, <1>11 DEF Handle

\* delegated_azure_token and the callback write whatever token they hold, so
\* an older token replaces a newer one only if the two requests overlapped.
THEOREM OlderTokenNeedsOverlapTheorem == Spec => []OlderTokenNeedsOverlap
  <1>1. Init => TInv
    <2> SUFFICES ASSUME Init PROVE TInv
      OBVIOUS
    <2>1. \A q \in Requests : step[q] = "new" /\ token[q] = 0
      BY DEF Init
    <2>2. issued \in [Users -> Nat]
      BY SInvInit DEF SInv, TypeOK
    <2>3. \A q \in Requests : issued[UserOf[q]] \in Nat
      BY <2>2, UserOfAssumption
    <2> QED BY <2>1, <2>3 DEF TInv, Busy, OlderTokenNeedsOverlap
  <1>2. SInv /\ SInv' /\ TInv /\ [Next]_vars => TInv'
    <2> SUFFICES ASSUME SInv, SInv', TInv, [Next]_vars PROVE TInv'
      OBVIOUS
    <2>1. CASE Next
      BY <2>1, TInvStep DEF Next
    <2>2. CASE UNCHANGED vars
      BY <2>2 DEF vars, requestVars, tokenVars, TInv, Met, Busy, Talks, SameUser,
                  OlderTokenNeedsOverlap
    <2> QED BY <2>1, <2>2
  <1>3. TInv => OlderTokenNeedsOverlap
    BY DEF TInv
  <1> QED BY <1>1, <1>2, <1>3, SInvInductive, PTL DEF Spec

=============================================================================
