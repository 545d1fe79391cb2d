\* Two concurrent requests, four events of two tenants, four transactions.
CONSTANTS
    e1 = e1
    e2 = e2
    e3 = e3
    f1 = f1
    t1 = t1
    t2 = t2
    h1 = h1
    h2 = h2
    NoHandler = NoHandler
    NoEvent = NoEvent
    Tenants = {t1, t2}
    Handlers = {h1, h2}
    Events <- MCEvents
    TenantOf <- MCTenantOf
    MaxTime = 4
SPECIFICATION FairSpec
INVARIANTS
    ChainClosed
    OneGenesis
    ForkNeedsOvertaking
PROPERTY
    EveryRequestAnswered
CHECK_DEADLOCK FALSE
