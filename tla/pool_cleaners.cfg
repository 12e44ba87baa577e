CONSTANTS
    PageSize = {0, 4}
    Request = {1, 5}
    Count = {1}
    SizeMod = 16
    MaxGiven = 2
    MaxBound = 1
SPECIFICATION PoolSpec
CHECK_DEADLOCK FALSE
INVARIANT CleanersComeFirst
