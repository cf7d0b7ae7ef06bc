SPECIFICATION Spec
CONSTANTS
    a = a
    b = b
    None = None
    Channels = {a, b}
    Configured = {a}
    Messages = {1, 2, 3}
    Home <- OneHasTwo
    Jobs = {j1}
    Keep = 1
    PageSize = 2
    LocalMax = 0
    MaxBatches = 2
    MaxFaults = 1
PROPERTIES NeverEmptied
CHECK_DEADLOCK FALSE
