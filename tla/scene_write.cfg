CONSTANTS
    Weight <- MCWeight
    SLOT = 1
    NODE = 1
    ROW = 2
    INPUTS <- MCInputs
    FRESH <- MCFresh
    COLUMNS <- MCColumns
    SETTINGS <- MCSettings
    TINY = 1
SPECIFICATION Spec
INVARIANTS
    ReadBack
    SeekDelivers
    InDeepestNode
    HarmonicsFit
CHECK_DEADLOCK FALSE
