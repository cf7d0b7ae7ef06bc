SPECIFICATION Spec
CONSTANTS
    Channels = {c1, c2}
    Tasks = {t1, t2}
    MaxDialFails = 1
    MaxErrors = 0
SYMMETRY Symmetry
INVARIANT ReconnectPending
CHECK_DEADLOCK FALSE
