SPECIFICATION Spec
CONSTANTS
    Name = {a, b}
    NoName = NoName
    Path <- AbsolutePaths
    Byte = {0, 1}
    ZERO = 0
    Payload <- SomePayload
    ReadLen = {2}
    INODE_TABLE_SIZE = 3
    DATA_BLOCKS = 3
    BLOCK_SIZE = 2
    MAX_OPEN_FILES = 2
    MAX_DIR_ENTRIES = 2
    SIZE_MAX = 15
    OpenHandlesOnly = TRUE
INVARIANT NamesDistinct
PROPERTY ImplementsStore
SYMMETRY Symmetry
