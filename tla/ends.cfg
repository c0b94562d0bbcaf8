SPECIFICATION EndsSpec
CONSTANTS
    CellMax = 2
    TailMax = 1
    DataMax = 1
    SubHeadMax = 8
    Version <- MCVersion
    Digest <- MCDigest
    Messages <- MCMessages
    MaxChunk = 2
    MaxReceived = 14
    Documents <- MCDocuments
    Given <- MCGiven
    Users <- MCUsers
    Numerals <- MCNumerals
    p1 = p1
    p2 = p2
    s1 = s1
    s2 = s2
    alice = alice
    misspelt = misspelt
    bootstrap = bootstrap
    None = None
    Empty = Empty
    Garbled = Garbled
    Procs <- MCProcs
    Commands <- MCCommands
    Addresses <- MCAddresses
    MaxStarted = 3
SYMMETRY Symmetric
INVARIANTS
    ParserTypeOK
    ChunkingInvisible
    AcceptsOnlyEncodings
    AcceptsEveryEncoding
    FileMeansWhatItSays
    ConfigIsSerial
    SavedConfigIsReal
    KeptTokenIsMinted
CHECK_DEADLOCK FALSE
