SPECIFICATION FairSpec
CONSTANTS
    Client = {c1, c2}
    None = None
    Other = Other
    S = 2
    MaxFd = 2
    MaxMounts = 1
    MaxRequests = 2
    Results <- Succeed
    Interruptible = {}
    Killable = {}
    KilledAt <- Anywhere
    WorkersReady = TRUE
PROPERTIES CallsReturn
CHECK_DEADLOCK FALSE
