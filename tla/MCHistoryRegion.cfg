SPECIFICATION Spec
CONSTANTS
    Convs = {c1, c2, c3}
    NoConv = NoConv
    NumRegions = 2
    Slots = 3
    Keep = 2
    GenMod = 4
    NumLegacy = 1
    MaxAppends = 3
    MaxClears = 1
    MaxFaults = 2
SYMMETRY Symmetry
CHECK_DEADLOCK FALSE
INVARIANTS
    
    PlacesSound
PROPERTIES
    ImplementsLog
