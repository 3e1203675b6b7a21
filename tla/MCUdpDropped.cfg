SPECIFICATION FairSpec
CONSTANTS
    Conns = {c1, c2}
    None = None
    IdSpace = 2
    ChanSize = 1
    MaxFlight = 1
PROPERTIES
    ManagerCloseReachesConsumers
CHECK_DEADLOCK FALSE
