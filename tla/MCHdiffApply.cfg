SPECIFICATION Spec
CONSTANTS
    RAW_MAX = 2
    PAYLOAD_MAX = 6
    STEP_MAX = 2
    BUFFER = 2
    PART_MAX = 2
    MAX_IDLE = 1
    WINDOW_LOG_MAX = 1
    MaxUnits = 3
    MaxOutput = 4
    MaxUnitOutput = 2
    Requests <- MCRequests
INVARIANTS
    TypeOK
    NothingLost
    OnlyOneFrame
    GenuinePatches
PROPERTIES
    Termination
CHECK_DEADLOCK FALSE
