SPECIFICATION Spec
CONSTANTS
    Value = {v1, v2}
    Table = Table
    Garbage = Garbage
    BASE = 1
    SECTS = 5
    COUNT_REG = 3
    MaxCount = 4
    MaxOpen = 2
    LATCH = FALSE
CHECK_DEADLOCK FALSE
INVARIANTS TransfersRight NothingLeftOver
PROPERTY Answered
