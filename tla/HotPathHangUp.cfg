SPECIFICATION FairSpec
CONSTANTS
    c1 = c1
    c2 = c2
    u1 = u1
    u2 = u2
    k1 = k1
    k2 = k2
    Clients = {c1, c2}
    Users = {u1}
    Keys = {k1}
    Owner <- OneOwner
    NoUser = NoUser
    NoKey = NoKey
    Old = Old
    MinCharge = 1
    MaxCost = 1
    Credits = {1}
    MaxBalance = 1
    MaxCards = 2
    NumUpstreams = 2
    DebitMayFail = TRUE
PROPERTY LeftRequestsEnd
