\* Two requests at a time, one of which may be cut short: room for a token to be
\* used once more, and for one more token to be outstanding, than is allowed.
SPECIFICATION Spec
CONSTANTS
    Reqs = {r1, r2}
    MaxAttempts = 1
    LockDuration = 1
    ResetTtl = 1
    MaxTime = 2
    MaxPasswords = 5
    MaxTokens = 3
    MaxSessions = 1
    MaxFaults = 1
SYMMETRY Symmetry
VIEW WithoutGuesses
INVARIANTS
    TypeOK
    OldPasswordOut
    UsesBounded
    OutstandingBounded
