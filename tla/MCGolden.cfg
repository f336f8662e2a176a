SPECIFICATION GoldenSpec
CONSTANTS
    Tags = {v1, v2}
    Blobs = {x, y}
    Importers = {i, j, k}
    Absent = Absent
    Truncated = Truncated
    Corrupt = Corrupt
INVARIANTS
    PassingMeansComplete
PROPERTIES
    ImportIsAtomic
CHECK_DEADLOCK FALSE
