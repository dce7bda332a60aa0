SPECIFICATION Spec
CONSTANTS
    g1 = g1
    g2 = g2
    Callers = {g1, g2}
    NConns = 3
    Weight <- TwoOneOne
    Wanted <- Groups
    Word = 4

PROPERTY FailureNeverRaises
