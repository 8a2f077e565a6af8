SPECIFICATION FairSpec
CONSTANTS
    t1 = t1
    t2 = t2
    Thread = {t1, t2}
    NoThread = NoThread
    Left = Left
    Name = {a, b}
    NoName = NoName
    INODE_TABLE_SIZE = 4
    MAX_DIR_ENTRIES = 2
    MAX_OPEN_FILES = 2
    MAX_FILE_SIZE = 1
    OpenFlags <- SomeFlags
    MaxCalls <- FewCalls
INVARIANTS TypeOK InodesAccounted HandlesAccounted NoCallOvertaken WritesAlone
    CopyWritesWhatItRead
PROPERTIES NameKeepsItsFile SizeKeptUnderCall CallsReturn
CHECK_DEADLOCK FALSE
