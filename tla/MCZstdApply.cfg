SPECIFICATION Spec
CONSTANTS
    RAW_MAX = 4
    PAYLOAD_MAX = 5
    CHUNK = 2
    WINDOW_LOG_MAX = 1
    MaxUnits = 4
    MaxOutput = 5
    MaxUnitOutput = 3
    Requests <- MCRequests
INVARIANTS
    TypeOK
    InBounds
PROPERTIES
    KeepsPromise
    Termination
CHECK_DEADLOCK FALSE
