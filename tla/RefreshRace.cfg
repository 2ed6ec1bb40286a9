\* One refresh token presented by two requests at once.
SPECIFICATION Spec
CONSTANTS
    Reqs = {r1, r2}
    Users = {u1}
    NoUser = NoUser
    MaxSessions = 1
    MaxGrants = 3
    MaxTime = 1
    AccessTtl = 1
    RefreshTtl = 1
    MaxFaults = 0
PROPERTIES
    RotatedOnce
