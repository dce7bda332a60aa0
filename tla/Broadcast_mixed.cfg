SPECIFICATION Spec
CONSTANTS
    Instances = {i1, i2}
    Calls = {1}
INVARIANTS LastReply
CHECK_DEADLOCK FALSE
