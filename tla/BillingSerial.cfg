SPECIFICATION Spec
CONSTANTS
    u1 = u1
    e1 = e1
    e2 = e2
    e3 = e3
    Users = {u1}
    Events = {e1, e2, e3}
    Workers = {w1, w2}
    NoUser = NoUser
    NoEvent = NoEvent
    Payload <- StripeTrialLast
    Operations = {"trial", "subscribe", "cancel"}
    UserInFlight = 1
    MaxFaults = 1
    TrialLength = 1
    ProcessingTtl = 2
    CompletedTtl = 9
    HandlerDeadline = 1
    MaxTime = 3
SYMMETRY WorkerSymmetry
INVARIANTS TypeOK
PROPERTIES TrialNotRegranted OlderOnlyIfForgotten
CHECK_DEADLOCK FALSE
