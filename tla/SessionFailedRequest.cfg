SPECIFICATION Spec
CONSTANTS
    Client = {c1, c2}
    None = None
    Other = Other
    S = 2
    MaxFd = 4
    MaxMounts = 1
    MaxRequests = 1
    Results <- MayFail
    Interruptible = {}
    Killable = {}
    KilledAt <- Anywhere
    WorkersReady = TRUE
INVARIANTS OwnSession
CHECK_DEADLOCK FALSE
