SPECIFICATION Spec
CONSTANTS
    HeapStart = 0
    HeapSize = 96
    Layouts <- MCLayouts
INVARIANT LossBelowThreshold
