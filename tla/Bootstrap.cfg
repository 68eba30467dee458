SPECIFICATION Spec
CONSTANTS
    Pids = {p1, p2}
    Cmds = {c1, c2}
    None = None
    Torn = Torn
    MaxStarts = 2
SYMMETRY Interchangeable
INVARIANTS
    TypeOK
    IdentityKept
    StartsAlone
    DaemonNamed
    StopHitsDaemon
CHECK_DEADLOCK FALSE
