SPECIFICATION HeapSpec
CHECK_DEADLOCK FALSE
CONSTANTS
    MAX_FREE_RANGES = 2
    Start = 7
    Size = 8
    USIZE_MAX = 15
    Sizes = {0, 2, 3}
    HeapAligns = {1, 2, 8}
INVARIANTS
    EveryByteOnce
PROPERTIES
    PanicOnlyIfFull
    NullMeansNoRoom
