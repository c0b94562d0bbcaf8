SPECIFICATION FairHistorySpec
CONSTANTS
    c1 = c1
    c2 = c2
    alice = alice
    bob = bob
    carol = carol
    board = board
    t1 = t1
    t2 = t2
    None = None
    Conns = {c1, c2}
    Requests <- AllRoutes
    Users <- ThreeUsers
    SharedRoutes <- MCShared
    Tails <- MCTails
    Ids = {1, 2, 3, 4, 5, 6, 7}
    TopBit = 4
    Config <- ClosedConfig
    Covers <- MCCovers
    CacheSize = 2
    Retention = 1
    Second = 1
    Sizes = {1, 2}
    MaxBytes = 1
    Expiries = {0, 1}
    MaxRequests = 2
    MaxNow = 2
INVARIANTS
    HandlerTypeOK
    PolicyEnforced
PROPERTY
    RequestsAnswered
CHECK_DEADLOCK FALSE
