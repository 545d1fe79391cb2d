\* Two relays; record 2's lease may expire under a working relay; a crash.
CONSTANTS
    r1 = r1
    r2 = r2
    Relays <- MCRelays
    NumRecords = 2
    MaxAttempts = 2
    MaxCrashes = 1
    Covered = {1}
SPECIFICATION FairSpec
INVARIANTS
    PublishedWasIngested
    DeadWasTriedEnough
    AttemptIdentifiesHolder
    LeaseExclusive
PROPERTIES
    SettledIsFinal
    EventuallySettled
CHECK_DEADLOCK FALSE
