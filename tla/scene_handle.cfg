CONSTANTS
    Weight <- MCWeight
    SLOT = 1
    NODE = 1
    ROW = 2
    CASES <- MCHandleCases
    INSTANTS = {1}
    CAPS = {0, 1}
VIEW HandleView
SPECIFICATION HSpec
INVARIANTS
    ReleasedOnce
    StatesReadArrays
PROPERTIES
    SlotsDescribeOneFailure
    SummaryIsCanonical
