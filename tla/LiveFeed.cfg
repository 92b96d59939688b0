CONSTANTS
    s1 = s1
    s2 = s2
    h1 = h1
    h2 = h2
    c1 = c1
    None = none
    Socks <- MCSocks
    Hosts <- MCHosts
    Local = h1
    Callers <- MCCallers
SPECIFICATION Spec
INVARIANTS
    TypeOK
    OneLive
    NeverStranded
    OnTarget
    StoppedQuiet
    HeartbeatOnLive
PROPERTIES
    Reconnects
    RefreshSettles
    LoadingEnds
    SilenceIsReported
    HalfOpenReplaced
    ShownFollowsHost
CHECK_DEADLOCK FALSE
