SPECIFICATION SdkFairSpec
CONSTANTS
    v1 = v1
    v2 = v2
    v3 = v3
    g1 = g1
    g2 = g2
    None = None
    Threads = {t1, t2}
    Contexts = {c1}
    Versions = {v1, v2, v3}
    Labels = {unlabelled, named}
    Tags = {g1, g2}
    Tag <- TagClash
    ClockSteps = {0}
    MaxTime = 0
    MaxCalls = 2
INVARIANTS
    SdkTypeOK
    FailedUntouched
    ReturnedHolds
    LabelHolds
    CallsInOrder
PROPERTIES
    EveryCallEnds
CHECK_DEADLOCK FALSE
