\* Two failed logins at a time; nothing else is needed.
SPECIFICATION Spec
CONSTANTS
    Reqs = {r1, r2}
    MaxAttempts = 2
    LockDuration = 1
    ResetTtl = 1
    MaxTime = 2
    MaxPasswords = 1
    MaxTokens = 0
    MaxSessions = 0
    MaxFaults = 0
VIEW WithoutGuesses
PROPERTIES
    WrongPasswordKeepsLock
