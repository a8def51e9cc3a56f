SPECIFICATION Spec
CHECK_DEADLOCK FALSE
CONSTANTS
    first_name = first_name
    second_name = second_name
    Names <- TwoNames
    INODE_COUNT = 3
    INODES_PER_SECTOR = 2
    SECTOR_SIZE = 2
    SectorCount = 7
    Kinds = {"file"}
    Bytes = {0, 1}
    Writes <- SomeWrites
    Lengths <- SomeLengths
    Failures = FALSE
SYMMETRY NameSymmetry
INVARIANTS
    WritesKeepTheRest
