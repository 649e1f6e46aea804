CONSTANTS
    Size = 3
    Keys = {"a", "enter", "f1"}
    Chars = {"a", "A", "nl"}
    NoChar = "nul"
    Plain <- MCPlain
    Shifted <- MCShifted
    MaxTyped = 5
SPECIFICATION Spec
INVARIANTS
    ReaderSafe
    NoStuckShift
PROPERTIES
    RefinesFifo
    Delivered
