CONSTANTS
    Displays <- MCDisplays
    Capacity = 7
    Starts = {1, 2, 4}
    Totals = {0, 2, 3, 6}
SPECIFICATION Spec
INVARIANTS
    DriversSound
    TranslationSound
    ReservedKept
    Counting
PROPERTIES
    BootsWithoutFramebuffer
