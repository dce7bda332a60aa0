SPECIFICATION FairSpec
CONSTANTS
    Requests = {r1, r2}
    Interval = 1
    MaxRate = 1
    Horizon = 0
    Second = 4
    Buffer = 0
    MaxRetries = 0
    Skew = 0
PROPERTY FullWindowEnds
