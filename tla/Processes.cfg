CONSTANTS
    Capacity = 1
    MaxOutput = 2
    Faults = {"runner", "child", "log", "proxy"}
    Modes <- SomeModes
    Root = root
    Kids = {k1, k2}
    Aides = {a1}
    MaxRetries = 2
    ExecFaults = TRUE
SPECIFICATION ProcessesSpec
CHECK_DEADLOCK FALSE
INVARIANTS
    ResultIsTruthful
    StartedBeforeProgram
    RunEndsCleanly
    CollectorLosesNothing
    SessionIsOver
PROPERTIES
    EveryoneSettles
    CollectorServes
    SessionsReturn
    CommandReturns
