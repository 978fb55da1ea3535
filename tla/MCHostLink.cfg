SPECIFICATION FairSpec
CONSTANTS
    Items = {1}
    MaxItems = 1
    MaxStray = 1
    MaxSends = 2
    MaxCommands = 3
    MaxResets = 1
    MaxClock = 1
CHECK_DEADLOCK FALSE
INVARIANTS
    
    CardsIncrease

    
