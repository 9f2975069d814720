\* A directory with room for one file, a log of three sectors.
SPECIFICATION Spec
CONSTANTS
    Names = {f, g}
    Values = {a, b}
    Junk = Junk  NoEntry = NoEntry  Absent = Absent  Bad = Bad  NoOp = NoOp
    MaxFiles = 1
    LogSize = 3
    MaxLen = 2
    MaxSeq = 5
    MaxTestSeq = 3
    MaxSteps = 2
    ReadFaults = FALSE
SYMMETRY Symmetry
INVARIANT StepsIntact
PROPERTIES UpdatesAreAtomic UndoRestores
