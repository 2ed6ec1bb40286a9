\* Two requests at a time, none cut short; one token and two passwords to write with it.
SPECIFICATION Spec
CONSTANTS
    Reqs = {r1, r2}
    MaxAttempts = 1
    LockDuration = 1
    ResetTtl = 1
    MaxTime = 1
    MaxPasswords = 3
    MaxTokens = 1
    MaxSessions = 0
    MaxFaults = 0
VIEW WithoutGuesses
INVARIANTS
    UsedOnce
