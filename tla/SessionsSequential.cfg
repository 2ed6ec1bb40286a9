\* One request at a time, none of which fails: two users, two sessions, two rotations.
\* No symmetry, which the liveness properties would not allow.
SPECIFICATION FairSpec
CONSTANTS
    Reqs = {r1}
    Users = {u1, u2}
    NoUser = NoUser
    MaxSessions = 2
    MaxGrants = 3
    MaxTime = 2
    AccessTtl = 1
    RefreshTtl = 2
    MaxFaults = 0
INVARIANTS
    SoleLiveToken
    ListedWhileRefreshable
    RevokeKillsSession
PROPERTIES
    OnlyOwnerRevokes
    ImplementsLifecycle
    RequestsFinish
    ReuseRevokesSession
