------------------------------ MODULE Accounts ------------------------------
(***************************************************************************)
(* The tenant that an account belongs to, and the authority that redeems   *)
(* its refresh token, over migration 20260607_0003: upgrade, downgrade and *)
(* upgrade again, with sign-ins of the release that fits the schema in     *)
(* between.  Organisations are told apart by their Entra tenant id, but    *)
(* all personal accounts have the id of Microsoft's consumer tenant.       *)
(*                                                                         *)
(* The previous release is not in the repository.  What it did follows     *)
(* from what the migration undoes: entra_tenant_id was unique and was the  *)
(* key of a tenant, and a connection had no authority.  Against the other  *)
(* release's schema no release changes anything that is modelled here:     *)
(* the columns this one selects are missing, and the previous one leaves   *)
(* NULL in columns that may not be.                                        *)
(*                                                                         *)
(* A migration and a sign-in are each one transaction, and the migration's *)
(* ALTER TABLE excludes the others.  Sign-ins that overlap are in the      *)
(* module Identity.  The broker stores the authority that it found.        *)
(* Tenants are numbered in the order they are created.  A database that    *)
(* was created from the current schema.sql is one that was upgraded empty. *)
(***************************************************************************)
EXTENDS Integers, Sequences, FiniteSets

CONSTANTS
    Accounts,          \* entra_object_id
    EntraTenants,      \* entra_tenant_id
    Consumer,          \* MICROSOFT_CONSUMER_TENANT_ID
    TidOf,             \* TidOf[a]: the entra_tenant_id of account a
    BootstrapAdmin,    \* bootstrap_admin_object_id, of bootstrap_tenant_id
    MaxUpgrades        \* a bound

ASSUME ConsumerAssumption == Consumer \in EntraTenants
ASSUME TidOfAssumption == TidOf \in [Accounts -> EntraTenants]
ASSUME BootstrapAssumption ==
    BootstrapAdmin \in Accounts /\ TidOf[BootstrapAdmin] # Consumer
ASSUME MaxUpgradesAssumption == MaxUpgrades \in Nat \ {0}

\* A column that the schema does not have.
Null == <<"null">>
NoType == "null"

\* The two forms of an identity_scope_key.
TenantKey(tid) == <<"tenant", tid>>
PersonalKey(tid, a) == <<"personal", tid, a>>

\* The authorities of a token endpoint.
TenantAuthority(tid) == <<"tenant", tid>>
Common == <<"common">>

VARIABLES
    revision,     \* the schema: "0002" or "0003"
    tenants,      \* rows of identity.tenants
    users,        \* users[t]: the accounts with a row in identity.users
    authority,    \* authority[t]: of the accounts with an oauth_connections row
    old,          \* history, old[t]: who joined t through the previous release
    upgrades,     \* history: upgrades so far
    legacy        \* history: <<t, a>> who last signed in before the last upgrade

vars == <<revision, tenants, users, authority, old, upgrades, legacy>>

Init ==
    /\ revision = "0002"
    /\ tenants = <<>> /\ users = <<>> /\ authority = <<>>
    /\ old = <<>> /\ upgrades = 0 /\ legacy = {}

-----------------------------------------------------------------------------
(* account.py                                                              *)

is_personal_account(a) == TidOf[a] = Consumer

\* Mutant: the key does not tell personal accounts apart.
identity_scope_key_of_tid(a) == TenantKey(TidOf[a])

identity_scope_key(a) ==
    IF is_personal_account(a) THEN PersonalKey(TidOf[a], a) ELSE TenantKey(TidOf[a])

\* Mutant: the tokens of every account are redeemed by its Entra tenant.
refresh_authority_of_tid(a) == TenantAuthority(TidOf[a])

\* The callback has compared requested_tenant with the account's own.
refresh_authority(a) ==
    IF is_personal_account(a) THEN Common ELSE TenantAuthority(TidOf[a])

-----------------------------------------------------------------------------
(* Sign-in.                                                                *)

\* Account a becomes or stays a user of tenant t with that authority.
Join(t, a, auth) ==
    /\ users' = [users EXCEPT ![t] = @ \cup {a}]
    /\ authority' = [authority EXCEPT ![t] =
          [b \in DOMAIN @ \cup {a} |-> IF b = a THEN auth ELSE @[b]]]

\* Account a is the first user of a new tenant.
Found(row, a, auth) ==
    /\ tenants' = Append(tenants, row)
    /\ users' = Append(users, {a})
    /\ authority' = Append(authority, [b \in {a} |-> auth])

\* The tenants with this scope key; the key is unique.
TenantByScopeKey(key) == {t \in DOMAIN tenants : tenants[t].key = key}

\* onboard_oauth_user
SignIn(a) ==
    LET key == identity_scope_key(a)
        type == IF is_personal_account(a) THEN "personal" ELSE "organization"
    IN  /\ revision = "0003"
        /\ \/ \E t \in TenantByScopeKey(key) :
                 /\ Join(t, a, refresh_authority(a))
                 /\ legacy' = legacy \ {<<t, a>>}
                 /\ UNCHANGED <<tenants, old>>
           \/ /\ TenantByScopeKey(key) = {}
              /\ Found([tid |-> TidOf[a], key |-> key, type |-> type], a, refresh_authority(a))
              /\ old' = Append(old, {})
              /\ UNCHANGED legacy
        /\ UNCHANGED <<revision, upgrades>>

\* bootstrap_identity: the tenant of the configuration and its administrator,
\* who has no connection yet.
Bootstrap ==
    LET a == BootstrapAdmin
        key == identity_scope_key(a)
    IN  /\ revision = "0003"
        /\ \/ \E t \in TenantByScopeKey(key) :
                 /\ users' = [users EXCEPT ![t] = @ \cup {a}]
                 /\ UNCHANGED <<tenants, authority, old>>
           \/ /\ TenantByScopeKey(key) = {}
              /\ tenants' = Append(tenants,
                    [tid |-> TidOf[a], key |-> key, type |-> "organization"])
              /\ users' = Append(users, {a})
              /\ authority' = Append(authority, [b \in {} |-> Null])
              /\ old' = Append(old, {})
        /\ UNCHANGED <<revision, upgrades, legacy>>

\* A sign-in of the previous release, which finds the tenant by its
\* entra_tenant_id.
SignInOld(a) ==
    LET found == {t \in DOMAIN tenants : tenants[t].tid = TidOf[a]}
    IN  /\ revision = "0002"
        /\ \/ \E t \in found :
                 /\ Join(t, a, Null)
                 /\ old' = [old EXCEPT ![t] = IF a \in users[t] THEN @ ELSE @ \cup {a}]
                 /\ UNCHANGED tenants
           \/ /\ found = {}
              /\ Found([tid |-> TidOf[a], key |-> Null, type |-> NoType], a, Null)
              /\ old' = Append(old, {a})
        /\ UNCHANGED <<revision, upgrades, legacy>>

-----------------------------------------------------------------------------
(* The migration.                                                          *)

\* Mutant: the migration forgets the prefix of the key.
MigratedRowUnprefixed(row) == [row EXCEPT !.key = <<row.tid>>, !.type = "organization"]

\* What upgrade makes of a tenant: the key of an organisation.
MigratedRow(row) == [row EXCEPT !.key = TenantKey(row.tid), !.type = "organization"]

\* upgrade: every connection gets its tenant's authority.
Upgrade ==
    /\ revision = "0002"
    /\ upgrades < MaxUpgrades
    /\ revision' = "0003"
    /\ upgrades' = upgrades + 1
    /\ tenants' = [t \in DOMAIN tenants |-> MigratedRow(tenants[t])]
    /\ authority' = [t \in DOMAIN tenants |->
          [a \in DOMAIN authority[t] |-> TenantAuthority(tenants[t].tid)]]
    /\ legacy' = UNION {{t} \X users[t] : t \in DOMAIN tenants}
    /\ UNCHANGED <<users, old>>

\* downgrade drops the columns, and fails as a whole if two tenants have the
\* same entra_tenant_id, which is unique again.
Downgrade ==
    /\ revision = "0003"
    /\ \A s, t \in DOMAIN tenants : tenants[s].tid = tenants[t].tid => s = t
    /\ revision' = "0002"
    /\ tenants' = [t \in DOMAIN tenants |-> [tenants[t] EXCEPT !.key = Null, !.type = NoType]]
    /\ authority' = [t \in DOMAIN tenants |-> [a \in DOMAIN authority[t] |-> Null]]
    /\ UNCHANGED <<users, old, upgrades, legacy>>

Next ==
    \/ \E a \in Accounts : SignIn(a) \/ SignInOld(a)
    \/ Bootstrap \/ Upgrade \/ Downgrade

Spec == Init /\ [][Next]_vars

-----------------------------------------------------------------------------
(* Properties.                                                             *)

\* A user who signs in again finds the tenant that it is a user of: the keys
\* that the migration writes are those that the service computes.  Only who
\* has a personal account and joined before the last upgrade starts anew, in
\* a personal workspace.
SignInFindsTenant ==
    revision = "0003" =>
        \A t \in DOMAIN tenants : \A a \in users[t] :
            \/ tenants[t].key = identity_scope_key(a)
            \/ is_personal_account(a) /\ <<t, a>> \in legacy

\* Two personal accounts share a tenant, with its roles and its data, only if
\* one of them joined it through the previous release.  Such a tenant is not
\* labelled as a personal workspace, which has a single user.
SharedNeedsOldRelease ==
    \A t \in DOMAIN tenants : \A a, b \in users[t] :
        is_personal_account(a) /\ is_personal_account(b) /\ a # b =>
            /\ a \in old[t] \/ b \in old[t]
            /\ tenants[t].type # "personal"

\* The broker redeems the refresh token of a personal account at the common
\* authority and of any other at its tenant's.  Where a personal account has
\* not signed in since the last upgrade, the authority is the consumer tenant.
AuthorityFollowsAccount ==
    revision = "0003" =>
        \A t \in DOMAIN tenants : \A a \in DOMAIN authority[t] :
            authority[t][a] = IF is_personal_account(a) /\ <<t, a>> \notin legacy
                              THEN Common ELSE TenantAuthority(TidOf[a])
=============================================================================
