SPECIFICATION ProcessSpec
CONSTANTS
    k1 = k1
    k2 = k2
    k3 = k3
    k4 = k4
    k5 = k5
    ok = ok
    denied = denied
    t1 = t1
    t2 = t2
    t3 = t3
    t4 = t4
    alice = alice
    bob = bob
    nobody = nobody
    shared = shared
    f1 = f1
    f2 = f2
    NoFile = NoFile
    Keys <- MCKeys
    Responses <- MCResponses
    MaxSize = 3
    Tails <- MCTails
    Users <- MCUsers
    MaxListed = 4
    Routes <- MCRoutes
    Ids = {1, 2}
    Senders <- MCSenders
    Retention = 2
    Second = 2
    MaxDelay = 1
    LastStore = 5
    MaxClock = 7
    MaxStored = 3
    Uploaders <- MCUploaders
    Requesters <- MCRequesters
    CfmIds <- MCCfmIds
    Expiries <- MCExpiries
    Sizes = {1, 2, 3}
    MaxBytes = 2
    LastSave = 0
    MaxNow = 2
    c1 = c1
    c2 = c2
    Conns <- MCConns
    Parts = 2
    Window <- OneWaits
    MaxMessages = 2
INVARIANTS
    OrderMatchesEntries
    LiveTokensListed
    ListExact
    MessageTypeOK
    WatchAgreesWithPull
    PagesCoverInbox
    SecondsPartitionInbox
    EntriesHaveFiles
    FileMatchesEntry
    CutOnlyWhenOvertaken
    ServerTypeOK
    StoppedIsQuiet
    HandledInOrder
    ReadIsHandled
PROPERTIES
    ReplayedGoByAge
    WatchNeverGoesBack
    InboxesDrain
    EntriesGetRemoved
    StopReturns
