SPECIFICATION FairSpec
CONSTANTS
    r1 = r1
    r2 = r2
    u1 = u1
    u2 = u2
    a1 = a1
    a2 = a2
    a3 = a3
    Requests = {r1, r2}
    Auths = {a1, a2, a3}
    Users = {u1, u2}
    From <- PayerOf
    Valid = {a1, a2}
    NoAuth = NoAuth
    NoTx = NoTx
    GasPrices = {1, 2}
    MaxTxs = 2
    MaxCredits = 2
INVARIANTS
    TypeOK
    CreditedOnce
    CreditedIsSigned
PROPERTY TopupsEnd
