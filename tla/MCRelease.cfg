SPECIFICATION Spec
CONSTANTS
    Versions = {v1, v2}
    v1 = v1
    v2 = v2
    None = None
    MaxCommits = 3
    MaxRuns = 3
INVARIANTS
    TypeOK
    NamedAsBuilt
    TaggedAsBuiltIfKnown
PROPERTIES
    ReleasesStay
    CorporaCompleteIfTagged
CHECK_DEADLOCK FALSE
