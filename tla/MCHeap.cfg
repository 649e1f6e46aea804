CONSTANTS
    HeapStart = 8
    HeapWords = 24
    Sizes = {1, 8, 11, 21}
SPECIFICATION Spec
INVARIANTS
    Tiled
    FreedInert
    Accounting
    RefusesOnlyWhenFull
PROPERTIES
    RefinesAllocator
