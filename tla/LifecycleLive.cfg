CONSTANTS
    c1 = c1
    c2 = c2
    c3 = c3
    c4 = c4
    Cmd = {c1, c2, c3, c4}
    NoRun = NoRun
    Repertoire <- RunAndStop
    Serial <- OneAtATime
    Networks = {TRUE}
    Faulty = {}
    Mortal = {}
SPECIFICATION FairSpec
CHECK_DEADLOCK FALSE
PROPERTIES
    StopReturns
    KilledIsStopped
