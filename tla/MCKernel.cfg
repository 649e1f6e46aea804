CONSTANTS
    MAX_PROCESSES = 4
    MAX_APPS = 2
    Slice = 2
    TickMod = 4
    SleepTicks = {0, 1}
SPECIFICATION Spec
INVARIANTS
    Ownership
    SlotForNew
    AppOwnsProcess
    DanglingNeverQueued
PROPERTIES
    CallsReturn
CHECK_DEADLOCK FALSE
