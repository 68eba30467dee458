SPECIFICATION Spec
CONSTANTS
    Procs = {p1, p2}
    Accounts = {a1, a2}
    None = None
    Torn = Torn
    Attempts = 2
    Interval = 1
    SlowDown = 1
    Life = 4
    Buffer = 2
SYMMETRY Interchangeable
INVARIANTS
    TypeOK
    AnswerStands
    TokenOfOneAccount
PROPERTIES
    AnswerIsLoggedIn
    PaceKept
