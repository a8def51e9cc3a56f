SPECIFICATION BlkFairSpec
CONSTANTS
    Sectors = {0, 1}
    Values = {0, 1}
    Indices = 3
    MaxPolls = 1
    MaxLate = 2
INVARIANTS
    OkMeansDone
    WritesGoHome
PROPERTIES
    Returns
\* Without a device there is nothing to do.
CHECK_DEADLOCK FALSE
