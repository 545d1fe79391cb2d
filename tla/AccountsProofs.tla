--------------------------- MODULE AccountsProofs ---------------------------
(***************************************************************************)
(* The three safety properties of Accounts, for any number of accounts,    *)
(* Entra tenants and migrations back and forth.  None is inductive by      *)
(* itself: the inductive invariant IInv adds what the rows of one tenant   *)
(* have in common, and that the previous release finds one tenant at most. *)
(***************************************************************************)
EXTENDS Accounts, TLAPS

Keys ==
    {Null} \cup {TenantKey(tid) : tid \in EntraTenants}
           \cup {PersonalKey(tid, a) : tid \in EntraTenants, a \in Accounts}
Types == {NoType, "organization", "personal"}
TenantRows == [tid : EntraTenants, key : Keys, type : Types]

Authorities == {Null, Common} \cup {TenantAuthority(tid) : tid \in EntraTenants}
Connections == UNION {[S -> Authorities] : S \in SUBSET Accounts}

Typed ==
    /\ revision \in {"0002", "0003"}
    /\ tenants \in Seq(TenantRows)
    /\ users \in Seq(SUBSET Accounts) /\ Len(users) = Len(tenants)
    /\ old \in Seq(SUBSET Accounts) /\ Len(old) = Len(tenants)
    /\ authority \in Seq(Connections) /\ Len(authority) = Len(tenants)
    /\ upgrades \in Nat
    /\ legacy \subseteq (DOMAIN tenants) \X Accounts

\* A tenant's users have its Entra tenant id, and its connections are those of
\* users.
UsersFit ==
    \A t \in DOMAIN tenants :
        /\ \A a \in users[t] : TidOf[a] = tenants[t].tid
        /\ DOMAIN authority[t] \subseteq users[t]

\* Under the previous schema entra_tenant_id is unique and the columns that
\* the migration adds are missing.
OldSchema ==
    revision = "0002" =>
        /\ \A s, t \in DOMAIN tenants : tenants[s].tid = tenants[t].tid => s = t
        /\ \A t \in DOMAIN tenants : tenants[t].type = NoType

\* Under the current schema a tenant has the key of an organisation, or is the
\* personal workspace of the one account that can be its user.
PersonalWorkspace(t, a) ==
    /\ tenants[t].type = "personal"
    /\ tenants[t].key = PersonalKey(tenants[t].tid, a)
    /\ users[t] \subseteq {a}

NewSchema ==
    revision = "0003" =>
        \A t \in DOMAIN tenants :
            \/ /\ tenants[t].type = "organization"
               /\ tenants[t].key = TenantKey(tenants[t].tid)
            \/ \E a \in Accounts : PersonalWorkspace(t, a)

IInv ==
    /\ Typed /\ UsersFit /\ OldSchema /\ NewSchema
    /\ SignInFindsTenant /\ SharedNeedsOldRelease /\ AuthorityFollowsAccount

-----------------------------------------------------------------------------
(* Sequences and keys.                                                     *)

\* A row is added at the end of a table.
LEMMA Appended ==
    ASSUME NEW S, NEW s \in Seq(S), NEW e \in S
    PROVE  /\ Append(s, e) \in Seq(S)
           /\ Len(Append(s, e)) = Len(s) + 1
           /\ DOMAIN Append(s, e) = DOMAIN s \cup {Len(s) + 1}
           /\ Len(s) + 1 \notin DOMAIN s
           /\ \A i \in DOMAIN s : Append(s, e)[i] = s[i]
           /\ Append(s, e)[Len(s) + 1] = e
  OBVIOUS

\* One row of a table is replaced.
LEMMA Replaced ==
    ASSUME NEW S, NEW s \in Seq(S), NEW i \in DOMAIN s, NEW e \in S
    PROVE  /\ [s EXCEPT ![i] = e] \in Seq(S)
           /\ Len([s EXCEPT ![i] = e]) = Len(s)
  OBVIOUS

\* The keys of two organisations, of two personal accounts, and of the one and
\* the other are different.
LEMMA KeysDiffer ==
    ASSUME NEW s, NEW t, NEW a, NEW b
    PROVE  /\ TenantKey(s) = TenantKey(t) => s = t
           /\ PersonalKey(s, a) = PersonalKey(t, b) => s = t /\ a = b
           /\ TenantKey(s) # PersonalKey(t, b)
  BY DEF TenantKey, PersonalKey

\* The tables have one row for each tenant.
LEMMA Tables ==
    ASSUME Typed
    PROVE  /\ DOMAIN users = DOMAIN tenants /\ DOMAIN old = DOMAIN tenants
           /\ DOMAIN authority = DOMAIN tenants
           /\ \A t \in DOMAIN tenants :
                 /\ tenants[t] \in TenantRows
                 /\ users[t] \subseteq Accounts /\ old[t] \subseteq Accounts
                 /\ authority[t] \in [DOMAIN authority[t] -> Authorities]
                 /\ DOMAIN authority[t] \subseteq Accounts
  <1>1. /\ tenants \in [1..Len(tenants) -> TenantRows]
        /\ users \in [1..Len(tenants) -> SUBSET Accounts]
        /\ old \in [1..Len(tenants) -> SUBSET Accounts]
        /\ authority \in [1..Len(tenants) -> Connections]
    BY DEF Typed
  <1>2. ASSUME NEW f \in Connections
        PROVE  DOMAIN f \subseteq Accounts /\ f \in [DOMAIN f -> Authorities]
    BY DEF Connections
  <1> QED BY <1>1, <1>2

\* What Join leaves behind.
LEMMA Joined ==
    ASSUME Typed, NEW t \in DOMAIN tenants, NEW a \in Accounts,
           NEW auth \in Authorities, Join(t, a, auth)
    PROVE  /\ users' \in Seq(SUBSET Accounts) /\ Len(users') = Len(tenants)
           /\ authority' \in Seq(Connections) /\ Len(authority') = Len(tenants)
           /\ users'[t] = users[t] \cup {a}
           /\ DOMAIN authority'[t] = DOMAIN authority[t] \cup {a}
           /\ authority'[t][a] = auth
           /\ \A b \in DOMAIN authority[t] : b # a => authority'[t][b] = authority[t][b]
           /\ \A s \in DOMAIN tenants : s # t =>
                 users'[s] = users[s] /\ authority'[s] = authority[s]
  <1> DEFINE conn == [b \in DOMAIN authority[t] \cup {a} |->
                         IF b = a THEN auth ELSE authority[t][b]]
  <1>1. users' = [users EXCEPT ![t] = users[t] \cup {a}]
    BY Tables DEF Join
  <1>2. authority' = [authority EXCEPT ![t] = conn]
    BY Tables DEF Join
  <1>3. users[t] \cup {a} \in SUBSET Accounts
    BY Tables
  <1>4. conn \in Connections
    <2>1. conn \in [DOMAIN authority[t] \cup {a} -> Authorities]
      BY Tables
    <2>2. DOMAIN authority[t] \cup {a} \in SUBSET Accounts
      BY Tables
    <2> HIDE DEF conn
    <2> QED BY <2>1, <2>2 DEF Connections
  <1>5. users \in Seq(SUBSET Accounts) /\ authority \in Seq(Connections)
        /\ t \in DOMAIN users /\ t \in DOMAIN authority
        /\ Len(users) = Len(tenants) /\ Len(authority) = Len(tenants)
    BY Tables DEF Typed
  <1>6. /\ users' \in Seq(SUBSET Accounts) /\ Len(users') = Len(tenants)
    BY <1>1, <1>3, <1>5, Replaced
  <1>7. /\ authority' \in Seq(Connections) /\ Len(authority') = Len(tenants)
    <2> HIDE DEF conn
    <2> QED BY <1>2, <1>4, <1>5, Replaced
  <1>8. authority'[t] = conn
    BY <1>2, <1>5
  <1>9. \A s \in DOMAIN tenants : s # t =>
            users'[s] = users[s] /\ authority'[s] = authority[s]
    BY <1>1, <1>2, Tables
  <1>10. users'[t] = users[t] \cup {a}
    BY <1>1, <1>5
  <1> QED BY <1>6, <1>7, <1>8, <1>9, <1>10

\* A row is added to each table.
LEMMA Added ==
    ASSUME Typed, NEW row \in TenantRows, NEW U \in SUBSET Accounts,
           NEW conn \in Connections, NEW O \in SUBSET Accounts,
           tenants' = Append(tenants, row), users' = Append(users, U),
           authority' = Append(authority, conn), old' = Append(old, O),
           revision' = revision, upgrades' = upgrades, legacy' = legacy
    PROVE  LET n == Len(tenants) + 1 IN
           /\ Typed'
           /\ DOMAIN tenants' = DOMAIN tenants \cup {n} /\ n \notin DOMAIN tenants
           /\ tenants'[n] = row /\ users'[n] = U /\ authority'[n] = conn /\ old'[n] = O
           /\ \A t \in DOMAIN tenants :
                 /\ tenants'[t] = tenants[t] /\ users'[t] = users[t]
                 /\ authority'[t] = authority[t] /\ old'[t] = old[t]
           /\ \A a : <<n, a>> \notin legacy
  <1> DEFINE n == Len(tenants) + 1
  <1>1. /\ tenants' \in Seq(TenantRows) /\ Len(tenants') = n
        /\ DOMAIN tenants' = DOMAIN tenants \cup {n} /\ n \notin DOMAIN tenants
        /\ tenants'[n] = row /\ \A t \in DOMAIN tenants : tenants'[t] = tenants[t]
    BY Appended DEF Typed
  <1>2. /\ users' \in Seq(SUBSET Accounts) /\ Len(users') = n
        /\ users'[n] = U /\ \A t \in DOMAIN users : users'[t] = users[t]
    BY Appended DEF Typed
  <1>3. /\ old' \in Seq(SUBSET Accounts) /\ Len(old') = n
        /\ old'[n] = O /\ \A t \in DOMAIN old : old'[t] = old[t]
    BY Appended DEF Typed
  <1>4. /\ authority' \in Seq(Connections) /\ Len(authority') = n
        /\ authority'[n] = conn /\ \A t \in DOMAIN authority : authority'[t] = authority[t]
    BY Appended DEF Typed
  <1>5. legacy \subseteq (DOMAIN tenants) \X Accounts
    BY DEF Typed
  <1>6. Typed'
    BY <1>1, <1>2, <1>3, <1>4, <1>5 DEF Typed
  <1>7. \A a : <<n, a>> \notin legacy
    BY <1>1, <1>5
  <1> QED BY <1>1, <1>2, <1>3, <1>4, <1>6, <1>7, Tables

-----------------------------------------------------------------------------
(* The steps.                                                              *)

\* The authority of an account is one of the authorities.
LEMMA AuthoritiesExist ==
    ASSUME NEW a \in Accounts
    PROVE  /\ Null \in Authorities /\ refresh_authority(a) \in Authorities
           /\ TidOf[a] \in EntraTenants
           /\ identity_scope_key(a) \in Keys
  BY TidOfAssumption
  DEF Authorities, refresh_authority, identity_scope_key, Keys

\* A sign-in to a tenant that has the account's key.
LEMMA SignInJoins ==
    ASSUME IInv, revision = "0003", NEW a \in Accounts,
           NEW t \in TenantByScopeKey(identity_scope_key(a)),
           Join(t, a, refresh_authority(a)), legacy' = legacy \ {<<t, a>>},
           tenants' = tenants, old' = old, revision' = revision, upgrades' = upgrades
    PROVE  IInv'
  <1> USE DEF IInv
  <1>1. t \in DOMAIN tenants /\ tenants[t].key = identity_scope_key(a)
    BY DEF TenantByScopeKey
  <1>2. refresh_authority(a) \in Authorities
    BY AuthoritiesExist
  <1>3. /\ users' \in Seq(SUBSET Accounts) /\ Len(users') = Len(tenants)
        /\ authority' \in Seq(Connections) /\ Len(authority') = Len(tenants)
        /\ users'[t] = users[t] \cup {a}
        /\ DOMAIN authority'[t] = DOMAIN authority[t] \cup {a}
        /\ authority'[t][a] = refresh_authority(a)
        /\ \A b \in DOMAIN authority[t] : b # a => authority'[t][b] = authority[t][b]
        /\ \A s \in DOMAIN tenants : s # t =>
              users'[s] = users[s] /\ authority'[s] = authority[s]
    BY <1>1, <1>2, Joined
  <1>4. Typed'
    BY <1>3 DEF Typed
  <1>5. /\ TidOf[a] = tenants[t].tid
        /\ is_personal_account(a) => PersonalWorkspace(t, a)
        /\ ~is_personal_account(a) => tenants[t].type = "organization"
    <2>1. CASE \E b \in Accounts : PersonalWorkspace(t, b)
      BY <1>1, <2>1, KeysDiffer DEF PersonalWorkspace, identity_scope_key
    <2>2. CASE /\ tenants[t].type = "organization"
               /\ tenants[t].key = TenantKey(tenants[t].tid)
      BY <1>1, <2>2, KeysDiffer DEF identity_scope_key
    <2> QED BY <1>1, <2>1, <2>2 DEF NewSchema
  <1>6. UsersFit'
    BY <1>3, <1>5 DEF UsersFit
  <1>7. OldSchema'
    BY DEF OldSchema
  <1>8. NewSchema'
    <2> SUFFICES ASSUME NEW s \in DOMAIN tenants
                 PROVE  \/ /\ tenants[s].type = "organization"
                           /\ tenants[s].key = TenantKey(tenants[s].tid)
                        \/ \E b \in Accounts : PersonalWorkspace(s, b)'
      BY DEF NewSchema
    <2>1. CASE s = t
      BY <1>3, <1>5, <2>1 DEF NewSchema, PersonalWorkspace
    <2>2. CASE s # t
      BY <1>3, <2>2 DEF NewSchema, PersonalWorkspace
    <2> QED BY <2>1, <2>2
  <1>9. SignInFindsTenant'
    BY <1>1, <1>3 DEF SignInFindsTenant
  <1>10. SharedNeedsOldRelease'
    <2>1. \A b \in users[t] : is_personal_account(b) <=> is_personal_account(a)
      BY <1>1, <1>5 DEF UsersFit, is_personal_account
    <2> QED BY <1>1, <1>3, <1>5, <2>1 DEF SharedNeedsOldRelease, PersonalWorkspace
  <1>11. AuthorityFollowsAccount'
    <2> SUFFICES ASSUME NEW s \in DOMAIN tenants, NEW b \in DOMAIN authority'[s]
                 PROVE  authority'[s][b] = IF is_personal_account(b) /\ <<s, b>> \notin legacy'
                                           THEN Common ELSE TenantAuthority(TidOf[b])
      BY DEF AuthorityFollowsAccount
    <2>1. CASE s = t /\ b = a
      <3>1. <<s, b>> \notin legacy'
        BY <2>1
      <3> QED BY <1>1, <1>3, <2>1, <3>1 DEF refresh_authority
    <2>2. CASE ~(s = t /\ b = a)
      <3>1. <<s, b>> \in legacy' <=> <<s, b>> \in legacy
        BY <2>2
      <3>2. b \in DOMAIN authority[s] /\ authority'[s][b] = authority[s][b]
        BY <1>1, <1>3, <2>2
      <3> QED BY <3>1, <3>2 DEF AuthorityFollowsAccount
    <2> QED BY <2>1, <2>2
  <1> QED BY <1>4, <1>6, <1>7, <1>8, <1>9, <1>10, <1>11

\* Tenant n is added to the tables.
NewTenant(n, row, U, conn, O) ==
    /\ DOMAIN tenants' = DOMAIN tenants \cup {n} /\ n \notin DOMAIN tenants
    /\ tenants'[n] = row /\ users'[n] = U /\ authority'[n] = conn /\ old'[n] = O
    /\ \A t \in DOMAIN tenants :
          /\ tenants'[t] = tenants[t] /\ users'[t] = users[t]
          /\ authority'[t] = authority[t] /\ old'[t] = old[t]
    /\ \A a \in Accounts : <<n, a>> \notin legacy

\* A sign-in, or bootstrap_identity, that founds a tenant.
LEMMA NewFounds ==
    ASSUME IInv, Typed', revision = "0003", revision' = revision, legacy' = legacy,
           NEW a \in Accounts, NEW conn, NEW type, NEW n,
           type = IF is_personal_account(a) THEN "personal" ELSE "organization",
           NewTenant(n, [tid |-> TidOf[a], key |-> identity_scope_key(a), type |-> type],
                     {a}, conn, {}),
           DOMAIN conn \subseteq {a}, \A b \in DOMAIN conn : conn[b] = refresh_authority(a)
    PROVE  IInv'
  <1> USE DEF IInv, NewTenant
  <1>1. UsersFit'
    <2> SUFFICES ASSUME NEW s \in DOMAIN tenants'
                 PROVE  /\ \A b \in users'[s] : TidOf[b] = tenants'[s].tid
                        /\ DOMAIN authority'[s] \subseteq users'[s]
      BY DEF UsersFit
    <2>1. CASE s = n
      BY <2>1
    <2>2. CASE s \in DOMAIN tenants
      BY <2>2 DEF UsersFit
    <2> QED BY <2>1, <2>2
  <1>2. OldSchema'
    BY DEF OldSchema
  <1>3. NewSchema'
    <2> SUFFICES ASSUME NEW s \in DOMAIN tenants'
                 PROVE  \/ /\ tenants'[s].type = "organization"
                           /\ tenants'[s].key = TenantKey(tenants'[s].tid)
                        \/ \E b \in Accounts : PersonalWorkspace(s, b)'
      BY DEF NewSchema
    <2>1. CASE s = n
      BY <2>1 DEF PersonalWorkspace, identity_scope_key
    <2>2. CASE s \in DOMAIN tenants
      BY <2>2 DEF NewSchema, PersonalWorkspace
    <2> QED BY <2>1, <2>2
  <1>4. SignInFindsTenant'
    <2> SUFFICES ASSUME NEW s \in DOMAIN tenants', NEW b \in users'[s]
                 PROVE  \/ tenants'[s].key = identity_scope_key(b)
                        \/ is_personal_account(b) /\ <<s, b>> \in legacy
      BY DEF SignInFindsTenant
    <2>1. CASE s = n
      BY <2>1
    <2>2. CASE s \in DOMAIN tenants
      BY <2>2 DEF SignInFindsTenant
    <2> QED BY <2>1, <2>2
  <1>5. SharedNeedsOldRelease'
    BY DEF SharedNeedsOldRelease
  <1>6. AuthorityFollowsAccount'
    <2> SUFFICES ASSUME NEW s \in DOMAIN tenants', NEW b \in DOMAIN authority'[s]
                 PROVE  authority'[s][b] = IF is_personal_account(b) /\ <<s, b>> \notin legacy
                                           THEN Common ELSE TenantAuthority(TidOf[b])
      BY DEF AuthorityFollowsAccount
    <2>1. CASE s = n
      BY <2>1 DEF refresh_authority
    <2>2. CASE s \in DOMAIN tenants
      BY <2>2 DEF AuthorityFollowsAccount
    <2> QED BY <2>1, <2>2
  <1> QED BY <1>1, <1>2, <1>3, <1>4, <1>5, <1>6

LEMMA SignInKeeps ==
    ASSUME IInv, NEW a \in Accounts, SignIn(a)
    PROVE  IInv'
  <1> DEFINE key == identity_scope_key(a)
             type == IF is_personal_account(a) THEN "personal" ELSE "organization"
             row == [tid |-> TidOf[a], key |-> key, type |-> type]
             conn == [b \in {a} |-> refresh_authority(a)]
  <1>1. CASE \E t \in TenantByScopeKey(key) :
                 /\ Join(t, a, refresh_authority(a))
                 /\ legacy' = legacy \ {<<t, a>>}
                 /\ UNCHANGED <<tenants, old>>
    BY <1>1, SignInJoins DEF SignIn
  <1>2. CASE /\ Found(row, a, refresh_authority(a))
             /\ old' = Append(old, {})
             /\ UNCHANGED legacy
    <2>1. row \in TenantRows
      BY AuthoritiesExist DEF TenantRows, Types
    <2>2. conn \in Connections /\ DOMAIN conn = {a} /\ conn[a] = refresh_authority(a)
      <3>1. conn \in [{a} -> Authorities] /\ {a} \in SUBSET Accounts
        BY AuthoritiesExist
      <3> QED BY <3>1 DEF Connections
    <2>3. revision = "0003" /\ revision' = revision /\ upgrades' = upgrades
      BY DEF SignIn
    <2>4. /\ tenants' = Append(tenants, row) /\ users' = Append(users, {a})
          /\ authority' = Append(authority, conn)
      BY <1>2 DEF Found
    <2>5. old' = Append(old, {}) /\ legacy' = legacy
      BY <1>2
    <2>6. Typed' /\ NewTenant(Len(tenants) + 1, row, {a}, conn, {})
      <3> HIDE DEF row, conn
      <3>1. Typed /\ {a} \in SUBSET Accounts /\ {} \in SUBSET Accounts /\ conn \in Connections
        BY <2>2 DEF IInv
      <3> QED BY <2>1, <2>3, <2>4, <2>5, <3>1, Added DEF NewTenant
    <2> HIDE DEF conn
    <2> QED BY <2>2, <2>3, <2>5, <2>6, NewFounds
  <1> QED BY <1>1, <1>2 DEF SignIn

LEMMA BootstrapKeeps ==
    ASSUME IInv, Bootstrap
    PROVE  IInv'
  <1> DEFINE a == BootstrapAdmin
             key == identity_scope_key(a)
             row == [tid |-> TidOf[a], key |-> key, type |-> "organization"]
             conn == [b \in {} |-> Null]
  <1>1. a \in Accounts /\ ~is_personal_account(a)
    BY BootstrapAssumption DEF is_personal_account
  <1>2. revision = "0003" /\ revision' = revision /\ upgrades' = upgrades /\ legacy' = legacy
    BY DEF Bootstrap
  <1>3. CASE \E t \in TenantByScopeKey(key) :
                 /\ users' = [users EXCEPT ![t] = @ \cup {a}]
                 /\ UNCHANGED <<tenants, authority, old>>
    <2>1. PICK t \in TenantByScopeKey(key) : users' = [users EXCEPT ![t] = @ \cup {a}]
      BY <1>3
    <2>2. tenants' = tenants /\ authority' = authority /\ old' = old
      BY <1>3
    <2>3. t \in DOMAIN tenants /\ tenants[t].key = TenantKey(TidOf[a])
      BY <1>1 DEF TenantByScopeKey, identity_scope_key
    <2>4. tenants[t].type = "organization" /\ TidOf[a] = tenants[t].tid
      BY <1>2, <2>3, KeysDiffer DEF IInv, NewSchema, PersonalWorkspace
    <2>5. /\ Typed'
          /\ users'[t] = users[t] \cup {a}
          /\ \A s \in DOMAIN tenants : s # t => users'[s] = users[s]
      <3>1. users' = [users EXCEPT ![t] = users[t] \cup {a}] /\ t \in DOMAIN users
        BY <2>1, <2>3, Tables DEF IInv
      <3>2. users[t] \cup {a} \in SUBSET Accounts
        BY <1>1, <2>3, Tables DEF IInv
      <3>3. users' \in Seq(SUBSET Accounts) /\ Len(users') = Len(users)
        BY <3>1, <3>2, Replaced DEF IInv, Typed
      <3>4. \A s \in DOMAIN tenants : s # t => users'[s] = users[s]
        BY <3>1, Tables DEF IInv
      <3> QED BY <1>2, <2>2, <3>1, <3>3, <3>4 DEF IInv, Typed
    <2>6. UsersFit'
      BY <2>2, <2>4, <2>5 DEF IInv, UsersFit
    <2>7. OldSchema'
      BY <1>2 DEF OldSchema
    <2>8. NewSchema'
      BY <1>2, <2>2, <2>4, <2>5 DEF IInv, NewSchema, PersonalWorkspace
    <2>9. SignInFindsTenant'
      BY <1>1, <1>2, <2>2, <2>3, <2>5 DEF IInv, SignInFindsTenant, identity_scope_key
    <2>10. SharedNeedsOldRelease'
      BY <1>1, <2>2, <2>5 DEF IInv, SharedNeedsOldRelease
    <2>11. AuthorityFollowsAccount'
      BY <1>2, <2>2 DEF IInv, AuthorityFollowsAccount
    <2> QED BY <2>5, <2>6, <2>7, <2>8, <2>9, <2>10, <2>11 DEF IInv
  <1>4. CASE /\ tenants' = Append(tenants, row) /\ users' = Append(users, {a})
             /\ authority' = Append(authority, conn) /\ old' = Append(old, {})
    <2>1. row \in TenantRows
      BY <1>1, AuthoritiesExist DEF TenantRows, Types
    <2>2. conn \in Connections /\ DOMAIN conn = {}
      BY DEF Connections
    <2>3. Typed' /\ NewTenant(Len(tenants) + 1, row, {a}, conn, {})
      <3> HIDE DEF row, conn
      <3> QED BY <1>1, <1>2, <1>4, <2>1, <2>2, Added DEF IInv, NewTenant
    <2> HIDE DEF conn
    <2> QED BY <1>1, <1>2, <2>2, <2>3, NewFounds
  <1> QED BY <1>3, <1>4 DEF Bootstrap

\* A sign-in of the previous release to the tenant with the account's id.
LEMMA OldJoins ==
    ASSUME IInv, revision = "0002", NEW a \in Accounts,
           NEW t \in DOMAIN tenants, tenants[t].tid = TidOf[a], Join(t, a, Null),
           old' = [old EXCEPT ![t] = IF a \in users[t] THEN @ ELSE @ \cup {a}],
           tenants' = tenants, revision' = revision, upgrades' = upgrades, legacy' = legacy
    PROVE  IInv'
  <1> USE DEF IInv
  <1> DEFINE joined == IF a \in users[t] THEN old[t] ELSE old[t] \cup {a}
  <1>1. Null \in Authorities
    BY AuthoritiesExist
  <1>2. /\ users' \in Seq(SUBSET Accounts) /\ Len(users') = Len(tenants)
        /\ authority' \in Seq(Connections) /\ Len(authority') = Len(tenants)
        /\ users'[t] = users[t] \cup {a}
        /\ DOMAIN authority'[t] = DOMAIN authority[t] \cup {a}
        /\ \A s \in DOMAIN tenants : s # t =>
              users'[s] = users[s] /\ authority'[s] = authority[s]
    BY <1>1, Joined
  <1>3. t \in DOMAIN old /\ joined \in SUBSET Accounts
    BY Tables
  <1>4. old' = [old EXCEPT ![t] = joined]
    BY <1>3
  <1>5. /\ old' \in Seq(SUBSET Accounts) /\ Len(old') = Len(tenants)
        /\ old'[t] = joined
        /\ \A s \in DOMAIN tenants : s # t => old'[s] = old[s]
    <2>1. \A s \in DOMAIN tenants : s # t => old'[s] = old[s]
      BY <1>3, <1>4, Tables
    <2> HIDE DEF joined
    <2> QED BY <1>3, <1>4, <2>1, Replaced DEF Typed
  <1>6. Typed'
    BY <1>2, <1>5 DEF Typed
  <1>7. UsersFit'
    BY <1>2 DEF UsersFit
  <1>8. OldSchema' /\ NewSchema' /\ SignInFindsTenant' /\ AuthorityFollowsAccount'
    BY DEF OldSchema, NewSchema, SignInFindsTenant, AuthorityFollowsAccount
  <1>9. SharedNeedsOldRelease'
    <2> SUFFICES ASSUME NEW s \in DOMAIN tenants, NEW b \in users'[s], NEW c \in users'[s],
                        is_personal_account(b), is_personal_account(c), b # c
                 PROVE  (b \in old'[s] \/ c \in old'[s]) /\ tenants[s].type # "personal"
      BY DEF SharedNeedsOldRelease
    <2>1. tenants[s].type # "personal"
      BY DEF OldSchema, NoType
    <2>2. CASE s = t
      BY <1>2, <1>5, <2>1, <2>2 DEF SharedNeedsOldRelease
    <2>3. CASE s # t
      BY <1>2, <1>5, <2>1, <2>3 DEF SharedNeedsOldRelease
    <2> QED BY <2>2, <2>3
  <1> QED BY <1>6, <1>7, <1>8, <1>9

\* A sign-in of the previous release that founds a tenant.
LEMMA OldFounds ==
    ASSUME IInv, Typed', revision = "0002", revision' = revision, legacy' = legacy,
           NEW a \in Accounts, NEW conn, NEW n, DOMAIN conn = {a},
           \A t \in DOMAIN tenants : tenants[t].tid # TidOf[a],
           NewTenant(n, [tid |-> TidOf[a], key |-> Null, type |-> NoType], {a}, conn, {a})
    PROVE  IInv'
  <1> USE DEF IInv, NewTenant
  <1>1. UsersFit'
    BY DEF UsersFit
  <1>2. OldSchema'
    BY DEF OldSchema
  <1>3. NewSchema' /\ SignInFindsTenant' /\ AuthorityFollowsAccount'
    BY DEF NewSchema, SignInFindsTenant, AuthorityFollowsAccount
  <1>4. SharedNeedsOldRelease'
    BY DEF SharedNeedsOldRelease
  <1> QED BY <1>1, <1>2, <1>3, <1>4

LEMMA SignInOldKeeps ==
    ASSUME IInv, NEW a \in Accounts, SignInOld(a)
    PROVE  IInv'
  <1> DEFINE found == {t \in DOMAIN tenants : tenants[t].tid = TidOf[a]}
             row == [tid |-> TidOf[a], key |-> Null, type |-> NoType]
             conn == [b \in {a} |-> Null]
  <1>1. revision = "0002" /\ revision' = revision /\ upgrades' = upgrades /\ legacy' = legacy
    BY DEF SignInOld
  <1>2. CASE \E t \in found :
                 /\ Join(t, a, Null)
                 /\ old' = [old EXCEPT ![t] = IF a \in users[t] THEN @ ELSE @ \cup {a}]
                 /\ UNCHANGED tenants
    BY <1>1, <1>2, OldJoins
  <1>3. CASE /\ found = {}
             /\ Found(row, a, Null)
             /\ old' = Append(old, {a})
    <2>1. row \in TenantRows
      BY AuthoritiesExist DEF TenantRows, Types, Keys
    <2>2. conn \in Connections /\ DOMAIN conn = {a}
      <3>1. conn \in [{a} -> Authorities] /\ {a} \in SUBSET Accounts
        BY AuthoritiesExist
      <3> QED BY <3>1 DEF Connections
    <2>3. /\ tenants' = Append(tenants, row) /\ users' = Append(users, {a})
          /\ authority' = Append(authority, conn) /\ old' = Append(old, {a})
      BY <1>3 DEF Found
    <2>4. Typed' /\ NewTenant(Len(tenants) + 1, row, {a}, conn, {a})
      <3> HIDE DEF row, conn
      <3>1. Typed /\ {a} \in SUBSET Accounts /\ conn \in Connections
        BY <2>2 DEF IInv
      <3> QED BY <1>1, <2>1, <2>3, <3>1, Added DEF NewTenant
    <2>5. \A t \in DOMAIN tenants : tenants[t].tid # TidOf[a]
      BY <1>3
    <2> HIDE DEF conn
    <2> QED BY <1>1, <2>2, <2>4, <2>5, OldFounds
  <1> QED BY <1>2, <1>3 DEF SignInOld

\* An upgrade or downgrade that rewrites the rows keeps the tables in step.
LEMMA TablesRewritten ==
    ASSUME Typed,
           tenants' \in [DOMAIN tenants -> TenantRows],
           authority' \in [DOMAIN tenants -> Connections]
    PROVE  /\ tenants' \in Seq(TenantRows) /\ Len(tenants') = Len(tenants)
           /\ authority' \in Seq(Connections) /\ Len(authority') = Len(tenants)
  <1>1. /\ tenants \in Seq(TenantRows) /\ authority \in Seq(Connections)
        /\ Len(authority) = Len(tenants)
    BY DEF Typed
  <1>2. DOMAIN authority = DOMAIN tenants
    BY <1>1
  <1>3. tenants' \in Seq(TenantRows) /\ Len(tenants') = Len(tenants)
    BY <1>1
  <1>4. authority' \in Seq(Connections) /\ Len(authority') = Len(authority)
    BY <1>1, <1>2
  <1> QED BY <1>1, <1>3, <1>4

LEMMA UpgradeKeeps ==
    ASSUME IInv, Upgrade
    PROVE  IInv'
  <1> USE DEF IInv
  <1>1. /\ revision' = "0003" /\ users' = users /\ old' = old
        /\ upgrades' = upgrades + 1
        /\ tenants' = [t \in DOMAIN tenants |-> MigratedRow(tenants[t])]
        /\ authority' = [t \in DOMAIN tenants |->
              [a \in DOMAIN authority[t] |-> TenantAuthority(tenants[t].tid)]]
        /\ legacy' = UNION {{t} \X users[t] : t \in DOMAIN tenants}
    BY DEF Upgrade
  <1>2. \A t \in DOMAIN tenants :
           /\ tenants'[t] \in TenantRows
           /\ tenants'[t].tid = tenants[t].tid
           /\ tenants'[t].type = "organization"
           /\ tenants'[t].key = TenantKey(tenants[t].tid)
    <2> SUFFICES ASSUME NEW row \in TenantRows
                 PROVE  /\ MigratedRow(row) \in TenantRows
                        /\ MigratedRow(row).tid = row.tid
                        /\ MigratedRow(row).type = "organization"
                        /\ MigratedRow(row).key = TenantKey(row.tid)
      BY <1>1, Tables
    <2>1. TenantKey(row.tid) \in Keys /\ "organization" \in Types
      BY DEF TenantRows, Keys, Types
    <2>2. MigratedRow(row) \in TenantRows
      BY <2>1 DEF TenantRows, MigratedRow
    <2> QED BY <2>1, <2>2 DEF TenantRows, MigratedRow
  <1>3. /\ DOMAIN tenants' = DOMAIN tenants /\ DOMAIN authority' = DOMAIN tenants
        /\ tenants' \in [DOMAIN tenants -> TenantRows]
    BY <1>1, <1>2
  <1>4. \A t \in DOMAIN tenants :
           /\ DOMAIN authority'[t] = DOMAIN authority[t]
           /\ \A a \in DOMAIN authority[t] : authority'[t][a] = TenantAuthority(tenants[t].tid)
           /\ authority'[t] \in Connections
    <2> SUFFICES ASSUME NEW t \in DOMAIN tenants
                 PROVE  [a \in DOMAIN authority[t] |-> TenantAuthority(tenants[t].tid)]
                            \in Connections
      BY <1>1
    <2>1. TenantAuthority(tenants[t].tid) \in Authorities /\ DOMAIN authority[t] \in SUBSET Accounts
      BY Tables DEF TenantRows, Authorities
    <2>2. [a \in DOMAIN authority[t] |-> TenantAuthority(tenants[t].tid)]
             \in [DOMAIN authority[t] -> Authorities]
      BY <2>1
    <2> QED BY <2>1, <2>2 DEF Connections
  <1>5. authority' \in [DOMAIN tenants -> Connections]
    BY <1>1, <1>4
  <1>6. \A t \in DOMAIN tenants : \A a \in users[t] : <<t, a>> \in legacy'
    BY <1>1
  <1>7. legacy' \subseteq (DOMAIN tenants') \X Accounts
    BY <1>1, <1>3, Tables
  <1>8. Typed'
    <2>1. /\ tenants' \in Seq(TenantRows) /\ Len(tenants') = Len(tenants)
          /\ authority' \in Seq(Connections) /\ Len(authority') = Len(tenants)
      BY <1>3, <1>5, TablesRewritten
    <2>3. revision' = "0003" /\ upgrades' \in Nat /\ users' = users /\ old' = old
      BY <1>1 DEF Typed
    <2> QED BY <1>7, <2>1, <2>3 DEF Typed
  <1>9. UsersFit'
    BY <1>1, <1>2, <1>3, <1>4 DEF UsersFit
  <1>10. OldSchema' /\ NewSchema'
    BY <1>1, <1>2, <1>3 DEF OldSchema, NewSchema
  <1>11. SignInFindsTenant'
    <2> SUFFICES ASSUME NEW t \in DOMAIN tenants, NEW a \in users[t]
                 PROVE  \/ tenants'[t].key = identity_scope_key(a)
                        \/ is_personal_account(a) /\ <<t, a>> \in legacy'
      BY <1>1, <1>3 DEF SignInFindsTenant, identity_scope_key, is_personal_account
    <2>1. TidOf[a] = tenants[t].tid /\ <<t, a>> \in legacy'
      BY <1>6 DEF UsersFit
    <2>2. tenants'[t].key = TenantKey(tenants[t].tid)
      BY <1>2
    <2> QED BY <2>1, <2>2 DEF identity_scope_key
  <1>12. SharedNeedsOldRelease'
    BY <1>1, <1>2, <1>3 DEF SharedNeedsOldRelease
  <1>13. AuthorityFollowsAccount'
    BY <1>1, <1>3, <1>4, <1>6 DEF AuthorityFollowsAccount, UsersFit
  <1> QED BY <1>8, <1>9, <1>10, <1>11, <1>12, <1>13

LEMMA DowngradeKeeps ==
    ASSUME IInv, Downgrade
    PROVE  IInv'
  <1> USE DEF IInv
  <1>1. /\ \A s, t \in DOMAIN tenants : tenants[s].tid = tenants[t].tid => s = t
        /\ revision' = "0002" /\ users' = users /\ old' = old
        /\ upgrades' = upgrades /\ legacy' = legacy
        /\ tenants' = [t \in DOMAIN tenants |->
              [tenants[t] EXCEPT !.key = Null, !.type = NoType]]
        /\ authority' = [t \in DOMAIN tenants |-> [a \in DOMAIN authority[t] |-> Null]]
    BY DEF Downgrade
  <1>2. \A t \in DOMAIN tenants :
           /\ tenants'[t] \in TenantRows
           /\ tenants'[t].tid = tenants[t].tid /\ tenants'[t].type = NoType
    <2> SUFFICES ASSUME NEW row \in TenantRows
                 PROVE  LET dropped == [row EXCEPT !.key = Null, !.type = NoType]
                        IN  /\ dropped \in TenantRows
                            /\ dropped.tid = row.tid /\ dropped.type = NoType
      BY <1>1, Tables
    <2>1. Null \in Keys /\ NoType \in Types
      BY DEF Keys, Types
    <2> QED BY <2>1 DEF TenantRows
  <1>3. /\ DOMAIN tenants' = DOMAIN tenants
        /\ tenants' \in [DOMAIN tenants -> TenantRows]
    BY <1>1, <1>2
  <1>4. \A t \in DOMAIN tenants :
           DOMAIN authority'[t] = DOMAIN authority[t] /\ authority'[t] \in Connections
    <2> SUFFICES ASSUME NEW t \in DOMAIN tenants
                 PROVE  [a \in DOMAIN authority[t] |-> Null] \in Connections
      BY <1>1
    <2>1. Null \in Authorities /\ DOMAIN authority[t] \in SUBSET Accounts
      BY Tables DEF Authorities
    <2>2. [a \in DOMAIN authority[t] |-> Null] \in [DOMAIN authority[t] -> Authorities]
      BY <2>1
    <2> QED BY <2>1, <2>2 DEF Connections
  <1>5. authority' \in [DOMAIN tenants -> Connections]
    BY <1>1, <1>4
  <1>6. Typed'
    <2>1. /\ tenants' \in Seq(TenantRows) /\ Len(tenants') = Len(tenants)
          /\ authority' \in Seq(Connections) /\ Len(authority') = Len(tenants)
      BY <1>3, <1>5, TablesRewritten
    <2> QED BY <1>1, <1>3, <2>1 DEF Typed
  <1>7. UsersFit'
    BY <1>1, <1>2, <1>3, <1>4 DEF UsersFit
  <1>8. OldSchema'
    <2>1. \A t \in DOMAIN tenants' : tenants'[t].type = NoType
      BY <1>2, <1>3
    <2>2. ASSUME NEW s \in DOMAIN tenants', NEW t \in DOMAIN tenants',
                 tenants'[s].tid = tenants'[t].tid
          PROVE  s = t
      <3>1. tenants[s].tid = tenants[t].tid
        BY <1>2, <1>3, <2>2
      <3> QED BY <1>1, <1>3, <3>1
    <2> QED BY <2>1, <2>2 DEF OldSchema
  <1>9. NewSchema' /\ SignInFindsTenant' /\ AuthorityFollowsAccount'
    BY <1>1 DEF NewSchema, SignInFindsTenant, AuthorityFollowsAccount
  <1>10. SharedNeedsOldRelease'
    BY <1>1, <1>2, <1>3 DEF SharedNeedsOldRelease, NoType
  <1> QED BY <1>6, <1>7, <1>8, <1>9, <1>10

-----------------------------------------------------------------------------
(* The theorems.                                                           *)

\* The tables keep together through sign-ins of either release and through
\* upgrade and downgrade.
THEOREM Inductive == Spec => []IInv
  <1>1. Init => IInv
    <2> SUFFICES ASSUME Init PROVE IInv
      OBVIOUS
    <2>1. tenants = <<>> /\ DOMAIN tenants = {}
      BY DEF Init
    <2>2. Typed
      BY <2>1 DEF Init, Typed
    <2> QED BY <2>1, <2>2 DEF IInv, UsersFit, OldSchema, NewSchema,
              SignInFindsTenant, SharedNeedsOldRelease, AuthorityFollowsAccount
  <1>2. IInv /\ [Next]_vars => IInv'
    <2> SUFFICES ASSUME IInv, [Next]_vars PROVE IInv'
      OBVIOUS
    <2>1. CASE \E a \in Accounts : SignIn(a)
      BY <2>1, SignInKeeps
    <2>2. CASE \E a \in Accounts : SignInOld(a)
      BY <2>2, SignInOldKeeps
    <2>3. CASE Bootstrap
      BY <2>3, BootstrapKeeps
    <2>4. CASE Upgrade
      BY <2>4, UpgradeKeeps
    <2>5. CASE Downgrade
      BY <2>5, DowngradeKeeps
    <2>6. CASE UNCHANGED vars
      BY <2>6 DEF vars, IInv, Typed, UsersFit, OldSchema, NewSchema, PersonalWorkspace,
                  SignInFindsTenant, SharedNeedsOldRelease, AuthorityFollowsAccount
    <2> QED BY <2>1, <2>2, <2>3, <2>4, <2>5, <2>6 DEF Next
  <1> QED BY <1>1, <1>2, PTL DEF Spec

\* Whatever the order of migrations and sign-ins, who signs in again gets the
\* tenant it is a user of: get_or_create_tenant looks for the key that the
\* migration has written.  The exception is a personal account from before the
\* last upgrade.
THEOREM SignInFindsTenantTheorem == Spec => []SignInFindsTenant
  <1>1. IInv => SignInFindsTenant
    BY DEF IInv
  <1> QED BY <1>1, Inductive, PTL

\* Personal accounts share a tenant only through the previous release, and no
\* such tenant is labelled a personal workspace.
THEOREM SharedNeedsOldReleaseTheorem == Spec => []SharedNeedsOldRelease
  <1>1. IInv => SharedNeedsOldRelease
    BY DEF IInv
  <1> QED BY <1>1, Inductive, PTL

\* The authority that delegated_azure_token redeems a refresh token at is the
\* one its account needs, except for personal accounts that have not signed in
\* since the last upgrade.
THEOREM AuthorityFollowsAccountTheorem == Spec => []AuthorityFollowsAccount
  <1>1. IInv => AuthorityFollowsAccount
    BY DEF IInv
  <1> QED BY <1>1, Inductive, PTL

=============================================================================
