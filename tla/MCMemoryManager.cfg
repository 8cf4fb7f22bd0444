SPECIFICATION Spec
CONSTANTS
    NR_PROCS = 7
    LOW_USER = 3
    MAX_PID = 3
    NR_BLOCKS = 3
    MaxQueued = 1
    PidsAsked = {1}
INVARIANTS
    TypeOK
    TablesAgree
    MemoryOwned
    AnswersOwed
    FamilyKept
PROPERTY
    EveryDeathReported
CHECK_DEADLOCK FALSE
