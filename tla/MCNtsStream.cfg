SPECIFICATION FairSpec
CONSTANTS
    max_payloadsize = 3
    ChannelBound = 2
    LinkBound = 1
    MaxWrite = 7
    MaxRead = 7
    MaxBytes = 8
INVARIANTS
    PacketsFreed
    OnlyLastCallLost
PROPERTIES
    ImplementsStream
    ShortMessageEndsRead
CHECK_DEADLOCK FALSE
