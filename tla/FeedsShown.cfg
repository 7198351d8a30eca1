SPECIFICATION FeedsSpec
CONSTANTS
    r1 = r1
    p1 = p1
    Readers = {r1}
    Pages = {p1}
    HistoryLimit = 2
    ChannelSize = 2
    MaxLines = 5
    MaxChanges = 3
INVARIANTS
    FeedsTyped
    ShownInOrder
    NothingElseMissed
    HistorySurvives
    NoWakeupLost
