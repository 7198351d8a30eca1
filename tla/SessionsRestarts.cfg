SPECIFICATION ManageSpec
CONSTANTS
    h1 = h1
    h2 = h2
    t1 = t1
    c1 = c1
    u1 = u1
    u2 = u2
    k1 = k1
    k2 = k2
    Handlers = {h1, h2}
    Tokens = {t1}
    NoToken = NoToken
    NoSession = NoSession
    MaxLifetime = 2
    IdleTimeout = 1
    MaxTime = 3
    Untils = {1, 3}
    Outcomes = {TRUE}
    Callers = {c1}
    Users = {u1, u2}
    NoUser = NoUser
    Keys = {k1, k2}
    NoOwner = NoOwner
    Window = 1
    Idle = Idle
SYMMETRY SlotSymmetry
INVARIANTS
    AcceptedIsFresh
    LogoutIsFinal
    SessionsDurable
PROPERTIES
    KeysChangeAsProved
