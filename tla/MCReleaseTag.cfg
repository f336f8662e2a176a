SPECIFICATION Spec
CONSTANTS
    Versions = {v1, v2}
    v1 = v1
    v2 = v2
    None = None
    MaxCommits = 2
    MaxRuns = 2
INVARIANTS
    TaggedAsBuilt
CHECK_DEADLOCK FALSE
