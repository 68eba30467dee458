SPECIFICATION FairSpec
CONSTANTS
    Ids = {i1, i2, i3, i4}
    None = None
INVARIANTS
    ConflictMeansUnrelated
    AnswerIsDetectConflict
PROPERTIES
    VerdictReached
CHECK_DEADLOCK FALSE
