SPECIFICATION Spec
CONSTANTS
    HeapStart = 8
    HeapSize = 88
    Layouts <- MCLayouts
    BLOCK_SIZES <- MCBlockSizes
INVARIANTS
    LayersShareNothing
    FallbackSound
    StatsNeverOverreport
    RefusedOnlyWithoutRoom
PROPERTY ImplementsHeap
