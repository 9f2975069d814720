\* A root capability and what may be derived from it, two processes.
SPECIFICATION Spec
CONSTANTS
    Procs = {p, q}
    Channels = {ch}
    NoChannel = NoChannel
    MaxCaps = 3
    MaxQueue = 2
INVARIANTS NoLostWakeup SubtreeIsDead SendersWereAuthorised RevokedWaitersAreWoken
PROPERTY RevocationStopsSending
