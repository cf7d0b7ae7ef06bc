SPECIFICATION FairSpec
CONSTANTS
    Messages = {1, 2, 3}
    Flushes = {1, 2}
    MaxFails = 2
    Channels = {"c1", "c2"}
    Tasks = {1, 2}
    MaxDialFails = 1
    MaxErrors = 2
    Callers = {1}
    Consumers = {1, 2}
    Interval = 2
    CacheTtl = 4
    Grace = 1
    FeedMemo = TRUE
    MaxVersion = 2
    MaxFaults = 1
    MaxEvents = 4
    None = None
INVARIANTS TypeOK NoneLostAlone WorkPending NeverOlder
PROPERTIES EventuallyDelivered EventuallyInAllChannels EventuallyCurrent
CHECK_DEADLOCK FALSE
