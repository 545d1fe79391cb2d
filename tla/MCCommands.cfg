\* Three sync jobs and two operations under one key, an assessment.
CONSTANTS
    s1 = s1
    s2 = s2
    s3 = s3
    o1 = o1
    o2 = o2
    o3 = o3
    a1 = a1
    k = k
    NoRequest = NoRequest
    Requests = {s1, s2, s3, o1, o2, o3, a1}
    Key <- MCKey
    Command <- MCCommand
    Valid = {s1, s2, s3, o1, o2, a1}
    MaxFaults = 1
SPECIFICATION CommandsFairSpec
INVARIANTS
    SameAnswer
    AuditMatchesState
PROPERTY
    EveryRequestAnswered
CHECK_DEADLOCK FALSE
