\* One request at a time, none of which fails: two attempts before a lock, two
\* sessions, two reset tokens.
SPECIFICATION Spec
CONSTANTS
    Reqs = {r1}
    MaxAttempts = 2
    LockDuration = 2
    ResetTtl = 1
    MaxTime = 5
    MaxPasswords = 3
    MaxTokens = 2
    MaxSessions = 2
    MaxFaults = 0
INVARIANTS
    GuessesBounded
    OldSessionsEnd
PROPERTIES
    ResetTokenSingleUse
