\* One relay, leases hold, one timeout: the chain forks all the same.
CONSTANTS
    r1 = r1
    h1 = h1
    h2 = h2
    t1 = t1
    NoHandler = NoHandler
    NoEvent = NoEvent
    NoRelay = NoRelay
    Tenants = {t1}
    TenantOf <- MCOneTenant
    Handlers = {h1, h2}
    Relays = {r1}
    NumRecords = 3
    MaxAttempts = 2
    MaxCrashes = 0
    Covered = {1, 2, 3}
    MaxTime = 3
    MaxFaults = 1
SPECIFICATION Spec
INVARIANT
    LinearChain
CHECK_DEADLOCK FALSE
