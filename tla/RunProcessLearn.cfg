CONSTANTS
    Capacity = 1
    MaxOutput = 2
    Faults = {}
    Modes <- Mode
SPECIFICATION RunSpec
CHECK_DEADLOCK FALSE
INVARIANTS
    RunExecutes
