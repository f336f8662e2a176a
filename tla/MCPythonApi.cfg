SPECIFICATION Spec
CONSTANTS
    t1 = t1
    t2 = t2
    a = a
    b = b
    c = c
    empty = empty
    content = content
    blob = blob
    None = None
    Threads <- MCThreads
    Contents <- MCContents
    Length <- MCLength
    RAW_MAX = 1
    FRAME_MAX = 2
    Requests <- MCRequests
    Written <- MCWritten
INVARIANTS
    DecodesAgainstItsBase
    NoLeak
PROPERTIES
    CodecReadsStable
    KeepsPromise
    NobodyWaits
