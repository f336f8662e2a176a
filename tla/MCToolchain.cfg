SPECIFICATION Spec
CONSTANTS
    Builders = {b1, b2}
    Settings <- MCSettings
    Blocks = 2
    MaxDeaths = 1
    Shared = Shared
    None = None
INVARIANTS
    InstalledWhole
PROPERTIES
    Recovers
CHECK_DEADLOCK FALSE
