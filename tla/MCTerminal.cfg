SPECIFICATION Spec
CONSTANTS
    Proc = {p, q}
    NonBlocking = {q}
    NR_CONSOLES = 2
    Key = {"newline", "stop", "right"}
    RING = 1
    INPUT = 2
    Counts = {1}
    NoOne = NoOne
CHECK_DEADLOCK FALSE
INVARIANTS TypeOK EveryoneIsOwed NothingForgotten
