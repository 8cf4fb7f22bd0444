SPECIFICATION Spec
CONSTANTS
    Task <- MCTask
    Server <- MCServer
    User <- MCUser
    BootTasks <- MCBootTasks
    BootServers <- MCBootServers
    IrqTask <- MCIrqTask
    TTY = TTY
    SYS = SYS
    MM = MM
    FS = FS
    ORIGIN = ORIGIN
    u1 = u1
    ANY = ANY
    HARDWARE = HARDWARE
    IDLE = IDLE
    NIL = NIL
INVARIANTS
    TypeOK
    CallersAreSenders
    NoSendCycle
    NoMissedRendezvous
    ReadyListsExact
    CpuAtListHead
PROPERTY
    NothingDropped
VIEW StateView
