SPECIFICATION FairSpec
CONSTANTS
    Conns = {c1, c2, c3}
    None = None
    IdSpace = 2
    ChanSize = 1
    MaxFlight = 2
INVARIANTS
    OpenRegistered
    NoCrossTalk
    NoLeakedEntry
    EofExplained
PROPERTY
    FailureReachesConsumers
CHECK_DEADLOCK FALSE
