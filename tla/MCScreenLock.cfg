SPECIFICATION Spec
CONSTANTS
    NoPin = NoPin
    Pins = {p1}
    Wrong = Wrong
    SleepAfter = 2
    DimLead = 1
    LockAfter = 1
    FreeAttempts = 1
    Backoff <- MCBackoff
    EventCap = 1
    CommandCap = 1
    MaxFails = 3
CHECK_DEADLOCK FALSE
INVARIANTS
    ScreenInv
    WakeGestureInert
    AttemptsPaced
    
