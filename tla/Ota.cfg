\* MAX_TRIES is the code's own two; up to three requests fail.
SPECIFICATION LiveSpec
CONSTANTS
    MaxTries = 2
    MaxFaults = 3
    NoControl = NoControl
    ControlReadFaults = FALSE
INVARIANTS ProvenSystemRemains TriesAreSpent
PROPERTY ProbationEnds
