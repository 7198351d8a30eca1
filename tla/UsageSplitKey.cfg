SPECIFICATION Spec
CONSTANTS
    MaxPieces = 2
    MaxChunk = 4
    Cap = 13
    MinCharge = 5
    Models <- MCModels
    Tables <- MCTables
INVARIANT SplitKeysAreCounted
