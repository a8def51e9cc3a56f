SPECIFICATION Spec
CONSTANTS
    RamSizes = {1, 4, 6, 9, 13, 15, 16, 20, 24}
    MaxPage = 12
    Span = 2
    USER_LIMIT = 3
    BootMaps = {{4}, {1, 4}, {4, 5}, {4, 7}}
    HEAP_START = 6
    HEAP_PAGES = 2
    MMIO_START = 10
    RingPages = {1, 2}
    PAGE = 2
    U64 = 26
    MAX_WRITE_BYTES = 4
    PACKET_BYTES = 2
    DISPLAY_INFO_BYTES = 3
    DisplayBytes = 5
    Addresses = {0, 1, 2, 3, 4, 5, 6, 8, 25}
    Lengths = {0, 1, 2, 3, 4, 5}
    ExitCodes = {0, 7, 24}
    Images <- SomeImages
    MaxEvents = 1
    MaxIoApics = 2
    MmioPages = {1, 2}
INVARIANTS
    FramesOwnedOnce
    CurrentRuns
    KernelAndOwnPages
    CopiesStayInUserPages
CHECK_DEADLOCK FALSE
