SPECIFICATION Spec
CONSTANTS
    Size = 7
    Room = 4
    LedReports = 1
    Pings = FALSE
INVARIANT NoCorruption
