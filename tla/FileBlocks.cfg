SPECIFICATION Spec
CONSTANTS
    Thread = {t1, t2}
    File = {1, 2}
    Writes <- SmallAndLarge
    BLOCK_SIZE = 2
    DATA_BLOCKS = 5
    MAX_DIRECT = 1
INVARIANTS TypeOK OnePlacePerBlock NoBlockLost ReadsGiveBack
SYMMETRY Symmetry
CHECK_DEADLOCK FALSE
