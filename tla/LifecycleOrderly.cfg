CONSTANTS
    c1 = c1
    c2 = c2
    c3 = c3
    c4 = c4
    Cmd = {c1, c2, c3, c4}
    NoRun = NoRun
    Repertoire <- Orderly
    Serial <- OneAtATime
    Networks = {TRUE, FALSE}
    Faulty = {c1, c2}
    Mortal = {c1, c2}
SPECIFICATION Spec
CHECK_DEADLOCK FALSE
INVARIANTS
    LiveIsRecorded
    LiveKeepsResources
    StopMeansDead
PROPERTIES
    ImplementsLifecycle
    DoctorFreesHost
