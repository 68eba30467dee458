SPECIFICATION Spec
CONSTANTS
    Threads = {t1, t2}
    Devices = {d1, d2}
    Self = d1
    Keys = {k1, k2}
    SelfKey = k1
    BadKeys = {b1}
    None = None
SYMMETRY Interchangeable
INVARIANTS
    EntryKept
    AnswersHold
PROPERTIES
    KeyKept
