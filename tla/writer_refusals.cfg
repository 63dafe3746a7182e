CONSTANTS
    g1 = g1
    g2 = g2
    Id = {g1, g2}
    MEASURED = {"position", "motion"}
    OPTIONAL_IDENTITY = {"object_id"}
    BIN_MIN <- FourBitMin
    BIN_MAX = 7
    MuStep <- MCMuStep
    Offered <- RefusalOffered
    OPTIONS <- RefusalOptions
    MAX_SAMPLES = 3
    WINDOWS = 1
    DEPTH_MOD = 2
    CUTS = {}
SPECIFICATION Spec
INVARIANTS
    IndexedIsSource
    WholeFilesDecode
