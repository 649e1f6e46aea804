CONSTANTS
    MAX_PROCESSES = 3
    MAX_APPS = 1
    Slice = 2
    TickMod = 4
    SleepTicks = {0}
SPECIFICATION Spec
PROPERTIES
    LaunchRuns
CHECK_DEADLOCK FALSE
