SPECIFICATION FairSpec
CONSTANTS
    u1 = u1
    e1 = e1
    e2 = e2
    e3 = e3
    Users = {u1}
    Events = {e1, e2}
    Workers = {w1, w2}
    NoUser = NoUser
    NoEvent = NoEvent
    Payload <- BoughtThenPastDue
    Operations = {"cancel"}
    UserInFlight = 2
    MaxFaults = 1
    TrialLength = 1
    ProcessingTtl = 2
    CompletedTtl = 9
    HandlerDeadline = 1
    MaxTime = 4
INVARIANTS ActiveWasGranted AckedIsDecided AppliedOncePerReopening
PROPERTIES ImplementsLease EveryEventAcked
CHECK_DEADLOCK FALSE
