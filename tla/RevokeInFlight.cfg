\* A refresh that is past its session check while the session is revoked.
SPECIFICATION Spec
CONSTANTS
    Reqs = {r1, r2}
    Users = {u1}
    NoUser = NoUser
    MaxSessions = 1
    MaxGrants = 2
    MaxTime = 1
    AccessTtl = 1
    RefreshTtl = 1
    MaxFaults = 0
INVARIANTS
    RevokeKillsSession
