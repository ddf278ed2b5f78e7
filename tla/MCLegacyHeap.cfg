SPECIFICATION FairSpec
CONSTANTS
    HEAP_SIZE = 48
    ALIGN = 4
    MIN_SPLIT = 8
    WORD = 1024
    Requests = {1, 8}
    Careful = TRUE
INVARIANTS
    Tiling
    ListsExact
    Coalesced
    ContentKept
PROPERTIES
    Allocation
    CallsReturn
