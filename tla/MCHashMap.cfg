SPECIFICATION Spec
CONSTANTS
    Keys <- MCKeys
    Values = {v1, v2}
    text <- MCtext
    hash <- MChash
    MinListSize = 2
    DEFAULT_HASHMAP_SIZE = 4
    NULL = NULL
INVARIANTS
    TypeOK
    GetRight
    SizeCountsEntries
    RoomLeft
