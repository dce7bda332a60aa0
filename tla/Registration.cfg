SPECIFICATION FairSpec
CONSTANTS
    p1 = p1
    p2 = p2
    q = q
    a = a
    b = b
    Procs = {p1, p2}
    WithRegistry = {p1, p2}
    Ports = {a, b}
    Keys = {a, b}
    Port <- SameAddress
    Key <- SameAddress
    None = None
    MaxTries = 2
INVARIANTS TypeOK BoundWhileListed ServingListed ClosedMeansGone
PROPERTIES DeadDelisted
CHECK_DEADLOCK FALSE
