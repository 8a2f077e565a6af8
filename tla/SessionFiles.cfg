SPECIFICATION FairSpec
CONSTANTS
    Session = {s1, s2}
    NoSession = NoSession
    MAX_OPEN_FILES = 3
    SIZE_MOD = 16
    UINT_MOD = 16
    MaxMounts = 3
    MaxOpens = 4
INVARIANTS TypeOK FilesCounted FilesAreOwn EndClosesFiles ExitAfterCloses
PROPERTIES MainGoesOn
CHECK_DEADLOCK FALSE
