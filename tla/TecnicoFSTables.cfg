SPECIFICATION Spec
CONSTANTS
    Name = {a, b}
    NoName = NoName
    Path <- AllPaths
    Byte = {0}
    ZERO = 0
    Payload <- BlankPayload
    ReadLen = {3}
    INODE_TABLE_SIZE = 4
    DATA_BLOCKS = 3
    BLOCK_SIZE = 2
    MAX_OPEN_FILES = 2
    MAX_DIR_ENTRIES = 2
    SIZE_MAX = 15
    OpenHandlesOnly = FALSE
INVARIANTS TypeOK BlocksAccounted InodesAccounted HandlesReferToFiles
SYMMETRY Symmetry
