CONSTANTS
    Dirs = 3
    Entries = 2
    Pool = 2
    IdDirs = 1
    Frames <- MCFrames
    Unmapped = Unmapped
SPECIFICATION VmSpec
INVARIANTS
    UnmappedIsUnreachable
PROPERTIES
    RefinesPageMap
