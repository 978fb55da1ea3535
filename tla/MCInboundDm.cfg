SPECIFICATION Spec
CONSTANTS
    a = a
    b = b
    x = x
    a0 = a0
    a1 = a1
    a2 = a2
    a9 = a9
    b1 = b1
    x1 = x1
    NoMsg = NoMsg
    Messages <- MCMessages
    Contacts = {a, b}
    From <- MCFrom
    Ts <- MCTs
    Chat <- MCChat
    DedupSlots = 2
    RingLen = 2
    RegionOk = TRUE
    MaxHeard = 4
    MaxAccepted = 4
    MaxCrashes = 1
    MaxFaults = 1
CHECK_DEADLOCK FALSE
INVARIANTS
    NoEarlyReaccept
    DedupWindow
    AckedIsStored
    LossBounded
