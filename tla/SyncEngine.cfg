SPECIFICATION Spec
CONSTANTS
    None = None
    Contexts = {c1, c2}
    MaxVersions = 2
    MaxRetries = 2
    Base = 2
    MaxCalls = 2
    MaxTime = 5
    MaxRefusals = 1
INVARIANTS
    TypeOK
    ReturnedCycleIsLogged
    CycleLoggedOnce
    NothingDropped
    FailedAfterBackoff
    FailureLoggedOnce
CHECK_DEADLOCK FALSE
