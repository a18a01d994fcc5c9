CONSTANTS
    c1 = c1
    c2 = c2
    c3 = c3
    c4 = c4
    Cmd = {c1, c2, c3}
    NoRun = NoRun
    Repertoire <- Anything
    Serial = {}
    Networks = {TRUE}
    Faulty = {c1}
    Mortal = {c1}
SPECIFICATION Spec
CHECK_DEADLOCK FALSE
INVARIANTS
    StoppedOnlyAfterDeath
