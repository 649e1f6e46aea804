CONSTANTS
    MAX_PROCESSES = 3
    MAX_APPS = 2
    Slice = 2
    TickMod = 4
    SleepTicks = {0, 1}
SPECIFICATION Spec
PROPERTIES
    SleepEnds
CHECK_DEADLOCK FALSE
