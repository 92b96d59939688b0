CONSTANTS
    local = local
    n1 = n1
    n2 = n2
    here = here
    k1 = k1
    s1 = s1
    s2 = s2
    w1 = w1
    w2 = w2
    none = none
    Ids <- MCIds
    Local = local
    ThisHost = here
    Keys <- MCKeys
    Secrets <- MCSecret
    Workers <- MCWorkers
    MaxSaves = 2
    MaxClients = 2
    Faults = TRUE
    Absent = none
SPECIFICATION Spec
INVARIANTS
    TypeOK
    CurrentExists
    PoolExact
PROPERTIES
    CacheHeals
