SPECIFICATION Spec
CONSTANTS
    Requests = {r1, r2, r3}
    Interval = 2
    MaxRate = 2
    Horizon = 4
    Second = 1
    Buffer = 0
    MaxRetries = 0
    Skew = 0
INVARIANT RequestsPerWindow
CHECK_DEADLOCK FALSE
