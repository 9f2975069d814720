\* One thread and two calls are enough when the device is slow.
SPECIFICATION Spec
CONSTANTS
    Clients = {k1}
    Sectors = {0, 1}
    Values = {v1, v2}
    NoData = NoData
    NoRequest = NoRequest
    MaxCalls = 2
    Looks = 1
    SlowDevice = TRUE
CHECK_DEADLOCK FALSE
PROPERTY RepliesAreTrue
