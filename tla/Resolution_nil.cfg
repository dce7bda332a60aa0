SPECIFICATION FairSpec
CONSTANTS
    Instances = {i1}
    MaxRev = 2
    CloseChan = "nil"
PROPERTIES CloseReturns
CHECK_DEADLOCK FALSE
