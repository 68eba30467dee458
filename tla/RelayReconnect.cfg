SPECIFICATION Spec
CONSTANTS
    Devices = {d1, d2}
    Groups = {g1, g2}
    Conns = {k1, k2, k3}
    None = None
    BadFrames = {}
    MaxFrames = 1
SYMMETRY Interchangeable
INVARIANTS
    RoutedInGroup
    SessionsHaveHandlers
    ConnectedIsRegistered
CHECK_DEADLOCK FALSE
