SPECIFICATION FairSpec
CONSTANTS
    Capacity = 4
    Conns = {c1, c2}
    Data = {d}
    IDX_UPDATE_INTERVAL = 3
    PshInterval = 2
INVARIANTS
    NoOverwrite
PROPERTIES
    ImplementsPacketFifo
    SenderUnblocked
CONSTRAINT
    UntilDropped
