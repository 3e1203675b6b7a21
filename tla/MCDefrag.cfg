SPECIFICATION Spec
CONSTANTS
    a = a
    b = b
    w = w
    Msgs <- MCMsgs
    Pieces <- MCPieces
    PktIds = {0, 1, 2}
    None = None
    U8 = 4
    MaxUdpSize = 18
    MaxPayload = 9
    MaxDatagram = 19
    Payloads <- MCPayloads
    Headers <- MCHeaders
    Paths <- MCPaths
    Q = 4
    MaxMessageLength = 4
    MaxPaddingLength = 1
    MaxCopies = 2
INVARIANTS
    NeverMixed
    FitsAndJoins
    NoPhantom
    ReturnedWhenComplete
CHECK_DEADLOCK FALSE
