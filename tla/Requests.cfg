SPECIFICATION Spec
CONSTANTS
    Limit = 2
    Ttl = 2
    Second = 3
    MaxAttempts = 1
    LockDuration = 3
    MaxTime = 4
    MaxLogins = 6
    MaxOthers = 1
    MaxPending = 1
    MaxFaults = 1
INVARIANTS
    TypeOK
    RowHasDeed
    MissingRowsAreFaults
    AtMostTwice
PROPERTIES
    RefusedOnlyAfterBurst
    RetryAfterHonoured
    LockoutSurfaces
