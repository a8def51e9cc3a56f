SPECIFICATION Spec
CHECK_DEADLOCK FALSE
CONSTANTS
    N = 3
    Page = 2
    AddrMax = 31
    Maps <- SomeMaps
    MaxPages = 3
    Aligns = {0, 1, 2, 3, 8, 16}
    Addresses <- SomeAddresses
INVARIANTS
    FreeTableSound
    Accounting
    NewIsExact
PROPERTIES
    ImplementsPageAllocator
