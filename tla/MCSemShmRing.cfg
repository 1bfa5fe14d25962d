SPECIFICATION FairSpec
CONSTANTS
    Capacity = 2
    Producers = {p1, p2, p3}
    Elements = {1, 2}
INVARIANTS
    PushPopExclusive
    SlotsAccounted
PROPERTIES
    ImplementsFifo
    RingDrains
CHECK_DEADLOCK FALSE
