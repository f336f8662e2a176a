SPECIFICATION EncoderSpec
CONSTANTS
    INT_MAX = 2000000
    RAW_MAX = 3
    CHUNK = 2
    BUFFER = 2
    ENCODED_MAX = 7
    Calls <- MCCalls
    Advices <- MCAdvices
    Requests <- MCRequests
    Arguments <- MCArguments
INVARIANTS
    NeverRefusedByZstd
    BucketHonoured
    TableWithinWindow
    WindowHoldsTarget
    InputOnce
    WholeFrame
PROPERTIES
    Termination
CHECK_DEADLOCK FALSE
