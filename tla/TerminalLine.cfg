SPECIFICATION Spec
CONSTANTS
    Proc = {p}
    NonBlocking = {}
    NR_CONSOLES = 1
    Key = {"text", "newline", "eof", "erase", "kill", "lnext", "stop", "start", "left", "right"}
    RING = 1
    INPUT = 2
    Counts = {0, 1, 2}
    NoOne = NoOne
CHECK_DEADLOCK FALSE
INVARIANT EotCounted
PROPERTY EveryoneRevived
