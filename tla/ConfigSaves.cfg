SPECIFICATION RouterSpec
CONSTANTS
    h1 = h1
    h2 = h2
    k1 = k1
    k2 = k2
    p1 = p1
    p2 = p2
    Handlers = {h1, h2}
    Keys = {k1, k2}
    NoKey = NoKey
    Prices = {p1, p2}
    FirstPrices = p1
    Keep = Keep
    NoDraft = NoDraft
    Torn = Torn
    Table <- MCTable
    Requests <- MCRequests
    Upper <- MCUpper
    Object = Object
    Null = Null
    Opaque = Opaque
    Braces = Braces
    Nobody = Nobody
SYMMETRY SaveSymmetry
INVARIANTS
    PricesAgree
    RoutedAsConfigured
    RetriedOnlyUnanswered
    ExhaustedHasCause
    RewritesTakeEffect
PROPERTY FreshSaveLosesNothing
