SPECIFICATION PagingSpec
CONSTANTS
    Maps <- MCMaps
    MaxRegions = 4
    RegionSizes = {0, 1, 2, 5}
    HEAP_PAGES = 2
    Vga = 0
    MaxCreates = 2
INVARIANTS
    AscendingAndUsable
    NoneOnlyWhenExhausted
    NoFrameServesTwice
    HeapReadyIsMapped
    CreateAsCounted
