SPECIFICATION Spec
CONSTANTS
    Capacity = 6
    RingBound = 3
    Messages = {1, 2}
INVARIANTS
    NoDoubleAllocation
    AllocSucceeds
PROPERTY
    ImplementsChannel
