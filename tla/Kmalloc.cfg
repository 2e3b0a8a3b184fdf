SPECIFICATION HeapSpec
CONSTANTS
    HEAP_SIZE = 34
    HEADER = 2
    WORD = 256
    Requests = {2, 3, 8}
INVARIANTS
    BlocksDisjoint
    AllocationsIntact
    FreeBlocksMerged
CHECK_DEADLOCK FALSE
