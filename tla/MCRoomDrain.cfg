SPECIFICATION FairSpec
CONSTANTS
    Posts = {p1, p2}
    RecentCap = 1
    FirstDelay = 1
    DrainingInterval = 1
    RoutineInterval = 20
    StallThreshold = 2
    RefloodInitial = 2
    RefloodCeiling = 20
    StallTimeout = 20
    SuppressionCeiling = 4
    RegionKeyed = {TRUE, FALSE}
    MaxArrivals = 2
    MaxLogins = 2
    MaxDoublings = 4
INVARIANTS
    
    SuppressionBounded
PROPERTIES
    PromptRelearn
    WindowFlushes
    KeepsRelearning
