SPECIFICATION ParserSpec
CONSTANTS
    CellMax = 65
    TailMax = 8
    DataMax = 65
    SubHeadMax = 1000
    Version <- MCVersion
    Digest <- MCDigest
    Messages <- MCMessages
    MaxChunk = 1
    MaxReceived = 0
    TailRoom = 16
    RouteRoom = 512
    DataRoom = 64
INVARIANT
    DataReachesHandler
CHECK_DEADLOCK FALSE
