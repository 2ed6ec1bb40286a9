SPECIFICATION Spec
CONSTANTS
    Reqs = {r1, r2}
    Users = {u1, u2}
    Admin = u1
    NoUser = NoUser
    NoName = NoName
    MaxIds = 4
    MaxCalls = 2
    MaxSeeds = 2
SYMMETRY Symmetry
INVARIANTS
    TypeOK
    SignedWhatWasHeld
    UniqueNames
    NothingDangles
    RacesAreClientErrors
    SeedRestoresAdmin
    SeedBootstraps
