CONSTANTS
    g1 = g1
    g2 = g2
    Id = {g1}
    MEASURED = {"position", "motion"}
    OPTIONAL_IDENTITY = {"object_id"}
    BIN_MIN <- FourBitMin
    BIN_MAX = 7
    MuStep <- MCMuStep
    Offered <- ChainOffered
    OPTIONS <- ChainOptions
    MAX_SAMPLES = 2
    WINDOWS = 1
    DEPTH_MOD = 8
    CUTS = {}
SPECIFICATION Spec
INVARIANTS
    CentresSurvive
