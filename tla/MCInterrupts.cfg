SPECIFICATION Spec
CONSTANTS
    Device <- MCDevice
    User <- MCUser
    CLOCK = CLOCK
    TTY = TTY
    WINCHESTER = WINCHESTER
    SYS = SYS
    u1 = u1
    u2 = u2
    IDLE = IDLE
    NIL = NIL
    MaxInterrupts = 4
INVARIANTS
    TypeOK
    NoOverlap
    ListedIsHeld
PROPERTY
    KernelReturns
CHECK_DEADLOCK FALSE
