SPECIFICATION FairSpec
CONSTANTS
    d1 = d1
    d2 = d2
    p1 = p1
    Sends <- MCSends
    RoomPosts <- MCRoomPosts
    NoTag = NoTag
    NoSend = NoSend
    TxQueueSlots = 2
    MaxOutstanding = 2
    MaxSendRetries = 1
    AckDeadline = 1
    RetryBackoffStep = 0
    CadBackoff = 1
    CadFailLimit = 2
INVARIANTS
    PendingIffTracked
    RetriesCounted
    PendingHasFrame
PROPERTIES
    VerdictFinal
    EveryPendingResolves
