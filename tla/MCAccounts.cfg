\* Two organisations and three personal accounts; upgraded twice.
CONSTANTS
    a1 = a1
    a2 = a2
    b1 = b1
    p1 = p1
    p2 = p2
    p3 = p3
    orgA = orgA
    orgB = orgB
    Consumer = Consumer
    Accounts = {a1, a2, b1, p1, p2, p3}
    EntraTenants = {orgA, orgB, Consumer}
    TidOf <- MCTidOf
    BootstrapAdmin = a1
    MaxUpgrades = 2
SPECIFICATION Spec
INVARIANTS
    SignInFindsTenant
    SharedNeedsOldRelease
    AuthorityFollowsAccount
