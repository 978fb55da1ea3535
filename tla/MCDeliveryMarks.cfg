SPECIFICATION MarksSpec
CONSTANTS
    Messages = {m1, m2, m3, m4}
    NoTag = NoTag
    CommandQueueCap = 2
    EventQueueCap = 3
    MaxReboots = 2
SYMMETRY Symmetry
CHECK_DEADLOCK FALSE
INVARIANTS
    
    QuietAgrees
