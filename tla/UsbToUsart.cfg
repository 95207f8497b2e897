SPECIFICATION FairSpec
CONSTANTS
    Size = 7
    Room = 4
    LedReports = 1
    Pings = TRUE
INVARIANTS
    TypeOK
    PointersAgree
    FifoUntilOverrun
PROPERTIES
    Drains
