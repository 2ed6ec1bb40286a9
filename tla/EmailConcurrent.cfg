SPECIFICATION Spec
CONSTANTS
    Reqs = {r1, r2}
    Users = {u1, u2}
    Addresses = {a1, a2, a3}
    NoUser = NoUser
    NoAddress = NoAddress
    MaxTokens = 3
    MaxFaults = 1
SYMMETRY Symmetry
INVARIANTS
    TypeOK
    VerifiedIsProved
    AddressesApart
    RegisteredHasLink
PROPERTIES
    MovesWhenConfirmed
