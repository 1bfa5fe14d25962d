SPECIFICATION Spec
CONSTANTS
    Capacity = 3
    Conns = {c1}
    Data = {d1, d2}
    IDX_UPDATE_INTERVAL = 2
    PshInterval = 2
INVARIANT
    PayloadIntact
