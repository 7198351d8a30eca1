SPECIFICATION Spec
CONSTANTS
    i1 = i1
    i2 = i2
    i3 = i3
    Ids = {i1, i2, i3}
    MaxCards = 2
    NoRecord = NoRecord
    Torn = Torn
SYMMETRY IdSymmetry
INVARIANTS
    TypeOK
    CountedOnce
    FinalIsCounted
    EvictedIsGone
