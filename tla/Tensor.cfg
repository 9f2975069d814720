\* A process that submits and waits, and kernel_main; three submissions,
\* after which everybody may be waiting for ever more.
SPECIFICATION LiveSpec
CONSTANTS
    Process = {p}
    Kernel = kernel
    Offers <- MCOffers
    MaxElapsed = 1
    InitialCost = 1
    Rise = 2
    Decay = 1
    Throttle = 2
    Critical = 4
    MaxJobs = 3
    MaxIdle = 1
CHECK_DEADLOCK FALSE
INVARIANTS NoLostWakeup DelayIsAsPromised
PROPERTIES WaitersReturn
