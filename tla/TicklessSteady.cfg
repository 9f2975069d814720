\* Two cores, kernel_main, a user thread and the two idle threads.
SPECIFICATION SteadySpec
CONSTANTS
    NCpu = 2
    NThreads = 4
    Tokens = {tok}
    NoToken = NoToken
    MaxSleep = 2
    MaxIdle = 3
    Abandons = FALSE
INVARIANTS SleepersCovered NoCoreSleepsThroughWork
PROPERTY NobodyIsPassedOver
