CONSTANTS
    p1 = p1
    p2 = p2
    p3 = p3
    Proc = {p1, p2, p3}
    Nobody = Nobody
    Tasks <- Calls
    Mortal = {p1, p2}
    Power = TRUE
SPECIFICATION FairSpec
CHECK_DEADLOCK FALSE
INVARIANTS
    ExclusiveUpdate
    NeverTorn
PROPERTIES
    ImplementsAtomicStore
    CallsReturn
