SPECIFICATION Spec
CONSTANTS
    BASE = 1
    TOTAL = 11
    Sizes = {2}
    MaxImages = 6
    NR_HOLES = 7
    NO_MEM = 0
INVARIANTS
    ListCorrect
    SlotForEveryImage
PROPERTY
    ImplementsMemory
CHECK_DEADLOCK FALSE
