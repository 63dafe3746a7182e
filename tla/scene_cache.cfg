CONSTANTS
    Weight <- MCWeight
    SLOT = 1
    NODE = 1
    ROW = 2
    CASES <- MCCases
    INSTANTS = {1, 3}
    CAPS = {0, 1}
VIEW ReaderView
SPECIFICATION Spec
INVARIANTS
    ResidentIsKeyed
    CachesAreFresh
PROPERTIES
    FailuresKeepCaches
    AnswersLikeAFreshRead
