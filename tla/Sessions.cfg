SPECIFICATION Spec
CONSTANTS
    Client = {c1, c2, c3}
    None = None
    Other = Other
    S = 2
    MaxFd = 4
    MaxMounts = 1
    MaxRequests = 1
    Results <- Succeed
    Interruptible = {}
    Killable = {c1}
    KilledAt <- BetweenRequests
    WorkersReady = FALSE
INVARIANTS OwnSession ReclaimsNoSession
PROPERTIES NoRequestOverwritten
SYMMETRY Symmetry
CHECK_DEADLOCK FALSE
