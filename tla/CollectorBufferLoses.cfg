SPECIFICATION Spec
CONSTANTS
    Messages = {m1, m2, m3}
    Flushes = {f1, f2}
    MaxFails = 0
SYMMETRY Symmetry
INVARIANT NoneLost
CHECK_DEADLOCK FALSE
