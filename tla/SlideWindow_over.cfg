SPECIFICATION Spec
CONSTANTS
    Requests = {r1, r2}
    Interval = 2
    MaxRate = 1
    Horizon = 4
    Second = 1
    Buffer = 0
    MaxRetries = 0
    Skew = 0
INVARIANT AtMostMaxRate
