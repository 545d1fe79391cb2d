\* Two workers scan a resource that Azure changes twice.
CONSTANTS
    a = a
    b = b
    w1 = w1
    w2 = w2
    Refs <- MCRefs
    Workers <- MCWorkers
    Resources = {a}
    NumJobs = 3
    MaxChanges = 2
    MaxFaults = 0
    MaxCrashes = 0
    RlsModes = {FALSE}
SPECIFICATION Spec
INVARIANT
    RowsWereShown
CHECK_DEADLOCK FALSE
