SPECIFICATION FairSpec
CONSTANTS
    Devices = {d1, d2}
    Groups = {g1}
    Conns = {k1, k2}
    None = None
    BadFrames = {"no_object"}
    MaxFrames = 2
INVARIANTS
    InOrder
PROPERTIES
    EveryFrameHandled
CHECK_DEADLOCK FALSE
