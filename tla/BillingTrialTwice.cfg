SPECIFICATION Spec
CONSTANTS
    u1 = u1
    e1 = e1
    e2 = e2
    e3 = e3
    Users = {u1}
    Events = {e1, e2}
    Workers = {w1, w2}
    NoUser = NoUser
    NoEvent = NoEvent
    Payload <- BoughtThenPastDue
    Operations = {"trial"}
    UserInFlight = 2
    MaxFaults = 0
    TrialLength = 1
    ProcessingTtl = 2
    CompletedTtl = 9
    HandlerDeadline = 1
    MaxTime = 4
PROPERTY TrialNotRegranted
CHECK_DEADLOCK FALSE
