SPECIFICATION Spec
CONSTANTS
    MM = MM
    User = {u1, u2}
    First = u1
    NoOne = NoOne
    Name = {cmd, a, b, c}
    Path = {cmd, a, b, c, "/"}
    Special <- SpecialFiles
    Archive = cmd
    OPEN_MAX = 1
    NR_FILES = 2
    NR_INODES = 3
    NR_BITS = 6
    FILE_SECTS = 2
    BYTE = 2
    NR_SECTS = 10
    INSTALL_BIT = 8
    MaxEntries = 5
    MaxCount = 2
    RootCalls <- RootPlain
SYMMETRY Symmetric
VIEW StateView
CONSTRAINT Unlapped
CHECK_DEADLOCK FALSE
INVARIANTS TypeOK DescriptorsBacked CacheCoherent SectorsExclusive EntriesAllocated
PROPERTY DescriptorsStable
