SPECIFICATION Spec
CONSTANTS
    t1 = t1
    t2 = t2
    c1 = c1
    c2 = c2
    v1 = v1
    v2 = v2
    v3 = v3
    g1 = g1
    g2 = g2
    g3 = g3
    unlabelled = unlabelled
    named = named
    None = None
    Threads = {t1, t2}
    Contexts = {c1}
    Versions = {v1, v2, v3}
    Labels = {unlabelled}
    Tags = {g1, g2, g3}
    Tag <- TagDistinct
    ClockSteps = {0, 1}
    MaxTime = 3
SYMMETRY Interchangeable
INVARIANTS
    HistoryClosed
    AnswersDurable
PROPERTIES
    VersionsImmutable
