CONSTANTS
    Scancodes = {28, 156}
    Packets <- MCPackets
    BootConfig = 97
    MaxKeys = 2
    MaxMoves = 2
SPECIFICATION Ps2Spec
INVARIANTS
    InSync
    NeverJammed
PROPERTIES
    InitEnds
