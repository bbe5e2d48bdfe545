SPECIFICATION Spec
CONSTANTS
    HEAP_SIZE = 144
    BLOCK_HEADER_SIZE = 16
    HEADER_SIZE = 8
    MIN_ORDER = 5
    WORD = 1024
    Request = {0, 24, 25, 57}
INVARIANTS BlocksTileHeap UsedIsCounted RoomIsFound
PROPERTY ImplementsAllocator
