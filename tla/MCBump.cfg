SPECIFICATION BumpSpec
CONSTANTS
    HeapStart = 3
    HeapSize = 12
    Layouts <- MCLayouts
INVARIANTS
    NeverReused
PROPERTY BumpImplementsHeap
