SPECIFICATION ServicesSpec
CONSTANTS
    None = None
    Events = {e1, e2}
    Workers = {w1, w2, w3}
    NoEvent = NoEvent
    ProcessingTtl = 3
    CompletedTtl = 4
    HandlerDeadline = 2
    MaxTime = 8
INVARIANTS TypesOK Exclusive WithinLimit SavedKept FreshEnough DerivedCurrent EachOnce NothingFromBeforeBust SignedOnce
PROPERTIES CompletedSticks RegressesOnlyByOverlap TakenAgainLate
CHECK_DEADLOCK FALSE
