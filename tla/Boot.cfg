SPECIFICATION Spec
CONSTANTS
    Machines <- SomeMachines
    SDT_HEADER_SIZE = 2
    MADT_HEADER_SIZE = 4
    MAX_TABLE_SIZE = 200
    MAX_IO_APICS = 2
    IOAPIC_REDTBL = 16
    U8 = 256
    Mice <- SomeMice
    WAIT_LIMIT = 2
    MaxBusy = 1
    MaxKeys = 1
    MaxMoves = 1
    Levels = 3
    Indices = 2
    LIMIT = 5
    SourceFrames = {1, 2, 3}
    FreeFrames = {0, 11, 12, 13, 14, 15, 16}
    Root = 1
    Sources <- AnySource
    Files <- SomeFiles
    PAGE_SIZE = 4
    USER_LIMIT = 12
    U64 = 32
    HeaderBytes = 2
    PhBytes = 2
    USER_STACK_BASE = 8
    UsualMachine <- Good
    UsualMouse <- NoMouse
    UsualSource <- Flat
    UsualFile <- Plain
    WAIT_TICKS = 3
    PROBE_YIELDS = 2
INVARIANTS
    RoutedAsDescribed
    MouseInStep
    ClonedOrUndone
    LoadedFaithfully
PROPERTIES
    BootEnds
