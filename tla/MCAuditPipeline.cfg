\* One relay that crashes once and one fault: the requests of the earlier
\* attempts go on beside the retry.
CONSTANTS
    r1 = r1
    h1 = h1
    h2 = h2
    t1 = t1
    NoHandler = NoHandler
    NoEvent = NoEvent
    NoRelay = NoRelay
    Tenants = {t1}
    TenantOf <- MCOneTenant
    Handlers = {h1, h2}
    Relays = {r1}
    NumRecords = 2
    MaxAttempts = 3
    MaxCrashes = 1
    Covered = {}
    MaxTime = 8
    MaxFaults = 1
SPECIFICATION FairSpec
INVARIANT
    PublishedExactlyOnce
PROPERTIES
    ImplementsOutbox
    AtLeastOnce
CHECK_DEADLOCK FALSE
