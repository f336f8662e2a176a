SPECIFICATION Spec
CONSTANTS
    FRAME_MAX = 4
    CHUNK = 2
    MinLog = 0
    StreamLog = 1
    WINDOW_LOG_MAX = 2
    MaxUnits = 3
    MaxOutput = 5
    MaxUnitOutput = 2
    Windows = {0, 2, 3}
    Claims = {0, 9}
    Requests <- MCRequests
INVARIANTS
    WindowsRefused
CHECK_DEADLOCK FALSE
