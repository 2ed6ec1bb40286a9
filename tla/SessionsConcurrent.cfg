\* Two requests at a time, one of which may be cut short, or one restart of
\* Redis; one session with two rotations.
SPECIFICATION Spec
CONSTANTS
    Reqs = {r1, r2}
    Users = {u1}
    NoUser = NoUser
    MaxSessions = 1
    MaxGrants = 3
    MaxTime = 2
    AccessTtl = 1
    RefreshTtl = 2
    MaxFaults = 1
SYMMETRY Symmetry
VIEW WithoutEnded
INVARIANTS
    TypeOK
    FamilyIsSession
    LateRefreshFails
PROPERTIES
    CutOffStaysDead
    RevocationIsFinal
