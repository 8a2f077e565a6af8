SPECIFICATION FairSpec
CONSTANTS
    Thread = {t1, t2, t3}
    Handle = {0, 1}
    UINT_MAX = 8
    MaxFailed = 3
    Free = Free
    Destroyed = Destroyed
INVARIANT NoFileOpenAfterDestroy
CHECK_DEADLOCK FALSE
