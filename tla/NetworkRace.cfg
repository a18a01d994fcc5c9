CONSTANTS
    p1 = p1
    p2 = p2
    p3 = p3
    p4 = p4
    a = a
    b = b
    d = d
    Proc = {p1, p2, p3, p4}
    Nobody = Nobody
    Id = {a, b, d}
    IdOf <- Containers
    Octet = {20, 21}
    MaxTries = 2
    Modes = {FALSE}
    Rivals = {p1, p2}
    Mortal = {}
    Runner = {p1, p2}
    AdminRules <- SomeRules
SPECIFICATION NetworkSpec
CHECK_DEADLOCK FALSE
INVARIANTS
    SubnetsNeverShared
