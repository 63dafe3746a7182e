CONSTANTS
    g1 = g1
    g2 = g2
    Id = {g1, g2}
    MEASURED = {"position"}
    OPTIONAL_IDENTITY = {"object_id"}
    BIN_MIN <- ThreeBitMin
    BIN_MAX = 3
    MuStep <- MCMuStep
    MAX_DEPTH = 7
    FILES <- AnyFiles
SPECIFICATION Spec
INVARIANTS
    StatesReconstructible
    GridsFixedByDeltas
    ValidFilesDecode
    CountedIdsAreLives
    ValidFilesAgree
PROPERTIES
    WalkEnds
