SPECIFICATION StorageSpec
CONSTANTS
    marker = marker
    readme = readme
    other_name = other_name
    MARKER <- MarkerBytes
    README_TEXT <- ReadmeBytes
    GoOn = FALSE
    Names <- AllNames
    INODE_COUNT = 4
    INODES_PER_SECTOR = 3
    SECTOR_SIZE = 2
    SectorCount = 7
    Kinds = {"file", "dir"}
    Bytes = {0, 1}
    Writes <- SomeWrites
    Lengths <- SomeLengths
    Failures = TRUE
INVARIANTS
    VolumeSound
    ReadBack
    BootsAgain
PROPERTIES
    Isolation
