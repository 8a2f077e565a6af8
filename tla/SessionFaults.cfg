SPECIFICATION Spec
CONSTANTS
    Client = {c1, c2}
    None = None
    Other = Other
    S = 1
    MaxFd = 4
    MaxMounts = 2
    MaxRequests = 1
    Results <- MayFail
    Interruptible = {c1, c2}
    Killable = {c2}
    KilledAt <- Anywhere
    WorkersReady = TRUE
INVARIANTS TypeOK WakeupPending
CHECK_DEADLOCK FALSE
