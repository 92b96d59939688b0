CONSTANTS
    p1 = p1
    p2 = p2
    w1 = w1
    w2 = w2
    none = none
    Paths <- MCPaths
    Hands <- MCHands
    Workers <- MCWorkers
    MaxSlot = 2
    MaxFile = 2
    MaxEntry = 2
    Unseen = {1}
    None = none
SPECIFICATION Spec
SYMMETRY Symmetry
INVARIANTS
    TypeOK
    Listed
PROPERTIES
    MoveLosesNothing
