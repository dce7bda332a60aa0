SPECIFICATION Spec
CONSTANTS
    p1 = p1
    p2 = p2
    q = q
    a = a
    b = b
    Procs = {p1, q}
    WithRegistry = {p1}
    Ports = {a, b}
    Keys = {a, b}
    Port <- SameAddress
    Key <- SameAddress
    None = None
    MaxTries = 1
INVARIANTS ListedIsOpen
CHECK_DEADLOCK FALSE
