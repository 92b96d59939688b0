CONSTANTS
    h1 = h1
    h2 = h2
    t1 = t1
    t2 = t2
    f1 = f1
    f2 = f2
    None = none
    MaxWindows = 2
    Hosts <- MCHosts
    Tasks <- MCTasks
    HostOf <- MCHostOf
    Files <- MCFiles
    Kinds <- MCKinds
    Accounts <- MCAccounts
    LocalKinds <- MCLocalKinds
    Barred <- MCBarred
SPECIFICATION Spec
INVARIANTS
    TypeOK
    RequestFollowsFocus
    FocusOnTop
    SelectionListed
PROPERTIES
    ListCatchesUp
    LogCatchesUp
    BatchEnds
    FocusRoutes
