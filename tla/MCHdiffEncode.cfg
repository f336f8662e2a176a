SPECIFICATION Spec
CONSTANTS
    RAW_MAX = 1
    PAYLOAD_MAX = 7
    CHUNK = 2
    PIECE = 2
    MaxWrites = 2
    MaxWrite = 3
    Requests <- MCRequests
INVARIANTS
    NoGarbage
PROPERTIES
    WholeOrAbandoned
    Termination
CHECK_DEADLOCK FALSE
