SPECIFICATION RunSpec
CONSTANTS
    Srcs = {s1, s2}
    Conns = {c1, c2}
    None = None
    MaxSessions = 1
    MaxTcpFlows = 1
    ReplyRoom = 1
    Idle = 0
    MaxTraffic = 3
    Rates = {0}
INVARIANTS
    NoStrayTask
    FinalIsFinal
PROPERTIES
    TunnelEnds
    LostConnectionEndsTasks
    IdleReaped
CHECK_DEADLOCK FALSE
