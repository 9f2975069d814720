\* A press, and a release, a move or a second press, at a point of the shell
\* alone and at one of both windows; one fault, an answer that is late or a
\* transfer that fails.
SPECIFICATION DisplaySpec
CONSTANTS
    Shell = shell
    Notes = notes
    ScreenHeight = 5
    TitleBar = 1
    MaxWindows = 2
    AxisMax = 8
    DevValues = {4}
    MaxInputs = 2
    MaxFrames = 1
    MaxFaults = 1
INVARIANTS ScreenIsCurrent OpensInOrder RowsAreSeen
PROPERTY TapsGoWhereSeen
CHECK_DEADLOCK FALSE
