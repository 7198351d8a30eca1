SPECIFICATION Spec
CONSTANTS
    MaxPieces = 3
    MaxChunk = 4
    Cap = 13
    MinCharge = 5
    Models <- MCModels
    Tables <- MCTables
INVARIANTS
    TypeOK
    NeverOvercounts
    WholeKeysAreCounted
    ChargedAsReported
