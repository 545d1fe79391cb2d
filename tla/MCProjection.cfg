\* Two resources of two versions each, four requests of which one may fail.
SPECIFICATION FairSpec
CONSTANTS
    a = a
    b = b
    Resources <- MCResources
    Versions = {0, 1}
    Refs <- MCRefs
    NumRequests = 4
    MaxOpen = 3
    MaxFaults = 1
INVARIANTS
    TypeOK
    StaleNeedsOverlap
    RefusedNeedsOverlap
PROPERTIES
    RequestsAnswered
CHECK_DEADLOCK FALSE
