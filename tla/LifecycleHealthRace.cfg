CONSTANTS
    c1 = c1
    c2 = c2
    c3 = c3
    c4 = c4
    Cmd = {c1, c2}
    NoRun = NoRun
    Repertoire <- RunAndHealth
    Serial = {}
    Networks = {TRUE}
    Faulty = {}
    Mortal = {}
SPECIFICATION Spec
CHECK_DEADLOCK FALSE
PROPERTIES
    StoppedIsFinal
