\* Two users, each kind of request, and a pool that two requests exhaust.
CONSTANTS
    a = a
    b = b
    callbackA = callbackA
    callbackB = callbackB
    broker = broker
    bearer = bearer
    session = session
    Users = {a, b}
    BootstrapAdmin = b
    Requests = {callbackA, callbackB, broker, bearer, session}
    UserOf <- MCUserOf
    Kind <- MCKind
    PoolSizes = {2, 3}
    MaxFaults = 1
SPECIFICATION FairSpec
INVARIANTS
    TypeOK
    OneAdministrator
    SignInAtomic
    OrphanNeedsFailure
    OlderTokenNeedsOverlap
PROPERTY
    SignInsAnswered
CHECK_DEADLOCK FALSE
