SPECIFICATION Spec
CONSTANTS
    None = None
    Contexts = {c1}
    MaxVersions = 2
    MaxRetries = 2
    Base = 2
    MaxCalls = 1
    MaxTime = 5
    MaxRefusals = 2
PROPERTIES
    FastForwardNotFlagged
CHECK_DEADLOCK FALSE
