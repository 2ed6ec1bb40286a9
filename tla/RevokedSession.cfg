\* A logout or a reused refresh token, one request at a time.
SPECIFICATION Spec
CONSTANTS
    Reqs = {r1}
    Users = {u1}
    NoUser = NoUser
    MaxSessions = 1
    MaxGrants = 2
    MaxTime = 1
    AccessTtl = 1
    RefreshTtl = 1
    MaxFaults = 0
INVARIANTS
    RevokedSessionDies
