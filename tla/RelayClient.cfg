SPECIFICATION ClientSpec
CONSTANTS
    Devices = {d1, d2}
    Groups = {g1, g2}
    Conns = {k1, k2}
    None = None
    BadFrames = {}
    MaxFrames = 1
SYMMETRY Interchangeable
INVARIANTS
    ClientTypeOK
    ConnectHonest
    NoEnvelopeVanishes
CHECK_DEADLOCK FALSE
