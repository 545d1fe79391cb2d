\* One worker, two resources, faults and a crash.
CONSTANTS
    a = a
    b = b
    w1 = w1
    w2 = w2
    Refs <- MCRefs
    Workers = {w1}
    Resources = {a, b}
    NumJobs = 2
    MaxChanges = 2
    MaxFaults = 1
    MaxCrashes = 1
    RlsModes = {TRUE, FALSE}
SPECIFICATION Spec
INVARIANTS
    TypeOK
    RlsStopsSync
    RowsWereShown
    CompletedIsFresh
    GraphFollowsInventory
CHECK_DEADLOCK FALSE
