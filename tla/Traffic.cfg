SPECIFICATION TrafficSpec
CONSTANTS
    g1 = g1
    g2 = g2
    Nil = "nil"
    Strings = {"", "a", "b"}
    Groups = {"nil", "a", "b", "#7"}
    Callers = {g1, g2}
    NConns = 3
    Attr <- NoneThenB
    Weight <- TwoOneOne
    Wanted <- AllOrTwo
    Word = 4
    MaxPicks = 7
    ForcePick = 1
    LogInterval = 10
    MaxTime = 2
    Requests = {r1, r2, r3}
    Interval = 2
    MaxRate = 2
    StampRate = 1
    Horizon = 3
    Second = 5
    MaxRetries = 1
    Skew = 1
    Buffer = 2
INVARIANTS TypesOK LimitersOK NoneStarves Conserved SoloIsSequential Even OwnGroup
    RatePerWindow NewestWindow BurstAtBoundary StampsPerWindow
PROPERTIES SuccessNeverLowers WindowsSpaced RejectedIsFull LimitedIsFull
    TokenIsBucket LeakyIsBucket
SYMMETRY Symmetry
CHECK_DEADLOCK FALSE
