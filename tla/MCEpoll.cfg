SPECIFICATION FairSpec
CONSTANTS
    l1 = l1
    c1 = c1
    None = None
    Capacity = 2
    MaxEvents = 1
    MaxCalls = 3
    MaxPushes = 3
    MaxCreates = 1
    Sockets <- MCSockets
    Listeners <- MCListeners
    Producers <- MCProducers
INVARIANTS
    EventsInOrder
    SlotsConserved
    NumEventsExact
    ScanFindsEvents
    MasksAgree
    PushFindsContext
PROPERTIES
    WaitWakes
    CallReturns
CHECK_DEADLOCK FALSE
