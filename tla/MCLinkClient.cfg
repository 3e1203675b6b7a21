SPECIFICATION Spec
CONSTANTS
    None = None
    Pasted <- MCPasted
    Given <- MCGiven
    Names <- MCNames
    Intervals <- MCIntervals
    DefaultSpec <- MCDefaultSpec
    MaxPort = 3
    MinInterval = 2
    DefaultInterval = 3
    Mtu = 2
    PskMinLen = 2
    SaltLen = 1
    UdpBufferSize = 3
    RawSegments = 2
INVARIANTS
    SharedLinkSame
    HopsOverNamed
    SegmentsWhole
CHECK_DEADLOCK FALSE
