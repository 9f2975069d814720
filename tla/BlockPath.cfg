\* Two threads, three calls, and a device that answers while the driver waits
\* or not at all; one sector shows an answer to another request as well as two.
SPECIFICATION Spec
CONSTANTS
    Clients = {k1, k2}
    Sectors = {0}
    Values = {v1, v2}
    NoData = NoData
    NoRequest = NoRequest
    MaxCalls = 3
    Looks = 3
    SlowDevice = FALSE
SYMMETRY Threads
CHECK_DEADLOCK FALSE
INVARIANTS PatienceIsSpent MutexHasAHolder
PROPERTIES RepliesAreTrue OnlyLateRepliesAreDropped
