SPECIFICATION RunSpec
CONSTANTS
    Rates = {0, 1, 2}
    MaxSessions = 2
    Peers = {p1, p2}
    MaxInbox = 2
    MaxReplies = 1
    None = None
INVARIANTS
    OutcomeTold
    RepliesToSender
PROPERTIES
    LivesWithClient
    AssociationEnds
CHECK_DEADLOCK FALSE
