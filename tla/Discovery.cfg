SPECIFICATION PartSpec
CONSTANTS
    a = a
    Procs = {p1}
    WithRegistry = {p1}
    Ports = {a}
    Keys = {a}
    Port <- OneAddress
    Key <- OneAddress
    None = None
    MaxTries = 1
    MaxRev = 3
    CloseChan = "open"
INVARIANTS TypeOK Fresh ClosedNotShown
PROPERTIES Implements EventuallyFresh ForwarderEnds CloseReturns DeadLeaves
CHECK_DEADLOCK FALSE
