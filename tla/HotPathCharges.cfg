SPECIFICATION Spec
CONSTANTS
    c1 = c1
    c2 = c2
    u1 = u1
    u2 = u2
    k1 = k1
    k2 = k2
    Clients = {c1, c2}
    Users = {u1, u2}
    Keys = {k1, k2}
    Owner <- TwoOwners
    NoUser = NoUser
    NoKey = NoKey
    Old = Old
    MinCharge = 1
    MaxCost = 2
    Credits = {1}
    MaxBalance = 1
    MaxCards = 2
    NumUpstreams = 1
    DebitMayFail = FALSE
SYMMETRY ClientSymmetry
INVARIANTS
    TypeOK
    OverdraftBounded
    ServedIsPaid
    OneStatsLine
PROPERTY EveryDebitIsOneCharge
