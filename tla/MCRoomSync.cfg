SPECIFICATION Spec
CONSTANTS
    RingCap = 2
    RecentCap = 2
    HistoryKeep = 2
    Slack = 6
    Kinds = {"plain"}
    Seeds = {0, 20}
    NetCap = 2
    MaxTs = 3
    MaxPosts = 3
    MaxOwn = 1
    MaxReboots = 1
CHECK_DEADLOCK FALSE
INVARIANTS
    StampInv
    OwnPostsOnce
    
    
