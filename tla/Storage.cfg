\* Five appends to a log of four records, and conversations of twice the budget
\* and more blocks than the spill region takes; one failed request and one power
\* cut, anywhere.
SPECIFICATION StorageSpec
CONSTANTS
    AuditSectors = 2
    PerSector = 2
    SpillSectors = 3
    MaxAppends = 5
    MaxErrors = 1
    MaxCuts = 1
    ScanFaults = FALSE
    Frames = {1, 2, 3}
    Budget = 2
    PrefixBlocks = 1
    MaxSessions = 2
    MaxBlocks = 2
INVARIANTS RecordsAreKept VerifyIsExact BlocksAreIntact BudgetHolds
CHECK_DEADLOCK FALSE
