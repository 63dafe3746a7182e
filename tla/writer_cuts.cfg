CONSTANTS
    g1 = g1
    g2 = g2
    Id = {g1}
    MEASURED = {"position", "motion"}
    OPTIONAL_IDENTITY = {"object_id"}
    BIN_MIN <- FourBitMin
    BIN_MAX = 7
    MuStep <- MCMuStep
    Offered <- CutOffered
    OPTIONS <- ChainOptions
    MAX_SAMPLES = 4
    WINDOWS = 1
    DEPTH_MOD = 8
    CUTS = {0, 1, 2, 3, 4, 5, 6, 7}
SPECIFICATION FairSpec
INVARIANTS
    TypeOK
    StreamedIsSource
    IndexedIsSource
    SeeksWithinGroup
    BoundaryCutsDecode
    FileHolds
PROPERTIES
    ImplementsTimeline
    LoopsEnd
