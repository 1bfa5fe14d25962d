SPECIFICATION FairSpec
CONSTANTS
    Capacity = 4
    Elements = {1, 2}
INVARIANTS
    SlotExclusive
PROPERTIES
    ImplementsFifo
    FullRingDrains
CHECK_DEADLOCK TRUE
