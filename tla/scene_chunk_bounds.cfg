CONSTANTS
    Weight <- MCWeight
    SLOT = 1
    NODE = 1
    ROW = 2
    FILES <- AllFiles
    OPTIONS <- MCOptions
    TIMES = {0, 1, 2, 3, 4, 5}
SPECIFICATION Spec
INVARIANT ChunkBoundsItsRows
CHECK_DEADLOCK FALSE
