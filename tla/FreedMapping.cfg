\* stage5a_demo on two cores, with the reclaim where its counters allow it.
SPECIFICATION ModelSpec
CONSTANTS
    Proc = {1, 2}
    First = 1
    NPages = 2
    NFrames = 4
    MaxReclaims = 1
    MaxErrors = 0
    Staged = TRUE
CHECK_DEADLOCK FALSE
INVARIANT MappedPagesAreResident
