SPECIFICATION Spec
CONSTANTS
    None = None
    Batches = {b}
    Workers = {w1, w2}
    MaxPolls = 1
    MaxRetries = 1
    MaxFaults = 1
INVARIANTS TypeOK SubmittedOnce
PROPERTIES MovesForward EveryBatchEnds
CHECK_DEADLOCK FALSE
