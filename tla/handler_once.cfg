SPECIFICATION OneAtATimeSpec
CONSTANTS
    c1 = c1
    c2 = c2
    alice = alice
    bob = bob
    carol = carol
    board = board
    t1 = t1
    t2 = t2
    None = None
    Conns = {c1, c2}
    Requests <- RetryRequests
    Users <- MCUsers
    SharedRoutes <- MCShared
    Tails <- MCTails
    Ids = {1, 2, 3, 4}
    TopBit = 4
    Config <- OpenConfig
    Covers <- MCCovers
    CacheSize = 4
    Retention = 1
    Second = 1
    Sizes = {1}
    MaxBytes = 1
    Expiries = {1}
    MaxRequests = 5
    MaxNow = 1
INVARIANT
    NoDuplicateMessages
PROPERTY
    ExecutedOnce
CHECK_DEADLOCK FALSE
