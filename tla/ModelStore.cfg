\* Two processes, two pages, and a frame less than they all need.
SPECIFICATION ModelLiveSpec
CONSTANTS
    Proc = {1, 2}
    First = 1
    NPages = 2
    NFrames = 3
    MaxReclaims = 1
    MaxErrors = 1
    Staged = FALSE
CHECK_DEADLOCK FALSE
INVARIANTS  OneOwnerUnlessOverlapped PageHasOneReader
PROPERTY FaultsEnd
