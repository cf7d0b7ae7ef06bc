SPECIFICATION Spec
CONSTANTS
    a = a
    b = b
    None = None
    Channels = {a, b}
    Configured = {a}
    Messages = {1, 2, 3}
    Home <- OneHasTwo
    Jobs = {j1, j2}
    Keep = 1
    PageSize = 2
    LocalMax = 1
    MaxBatches = 2
    MaxFaults = 1
INVARIANTS TypeOK OneScrape ShowsNewest
SYMMETRY JobSymmetry
CHECK_DEADLOCK FALSE
