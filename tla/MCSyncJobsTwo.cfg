\* Two workers: claims, row locks, deadlocks, the unique constraint and crashes.
CONSTANTS
    a = a
    b = b
    w1 = w1
    w2 = w2
    Refs <- MCRefs
    Workers <- MCWorkers
    Resources = {a, b}
    NumJobs = 3
    MaxChanges = 0
    MaxFaults = 0
    MaxCrashes = 2
    RlsModes = {FALSE}
SPECIFICATION FairSpec
INVARIANT
    JobExclusive
PROPERTIES
    CrashStrandsOneJob
CHECK_DEADLOCK FALSE
