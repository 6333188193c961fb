SPECIFICATION Spec
CONSTANTS
    HeapStart = 4
    HeapSize = 93
    Layouts <- MCLayouts
INVARIANTS
    ListIsCanonical
    NothingTwice
PROPERTIES
    LeakPerCall
    ImplementsHeap
