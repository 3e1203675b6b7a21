SPECIFICATION FairSpec
CONSTANTS
    HeaderLen = 5
    DataLen = 4
    Chunk = 3
    MaxBuf = 2
    Q = 2
    MaxMessageLength = 2
    MaxPaddingLength = 2
    MaxRequest = 18
    Texts <- MCTexts
INVARIANTS
    DataExact
    ParserAgrees
PROPERTY ReadsEnd
CHECK_DEADLOCK FALSE
