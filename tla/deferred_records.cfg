CONSTANTS
    c1 = c1
    c2 = c2
    CALLERS = {c1, c2}
    CASES <- MCCases
SPECIFICATION FairSpec
INVARIANTS
    AnswersAreWhole
    RejectionsAreEarned
    FieldsTogether
    OneWalk
PROPERTIES
    CallsSettle
