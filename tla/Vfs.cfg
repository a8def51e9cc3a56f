SPECIFICATION Spec
CONSTANTS
    Names = {"a", "b"}
    LongNames = {"long"}
    NulNames = {"nul"}
    PATH_MAX = 6
    InodeMax = 4
    UsizeMax = 2
    MaxMounts = 3
    RawPaths <- SmallPaths
    Writes <- SmallWrites
    Offsets = {1, 2}
    Lengths = {0, 1}
INVARIANTS
    NodesSound
    NormalizeCancels
    StoresExactly
PROPERTIES
    ImplementsFileTree
