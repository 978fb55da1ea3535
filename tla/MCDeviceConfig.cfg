SPECIFICATION Spec
CONSTANTS
    k1 = k1
    k2 = k2
    k3 = k3
    c1 = c1
    c2 = c2
    None = None
    Keys = {k1, k2, k3}
    Hash <- SharedHash
    Chans = {c1, c2}
    MaxContacts = 2
    MaxChannels = 2
    EpochMod = 8
    MaxEdits = 5
    MaxFaults = 1
    MaxBoots = 1
SYMMETRY Symmetry
CHECK_DEADLOCK FALSE
INVARIANTS
    ConfigInv
    CommitAllOrNothing
    ErasedStaysErased
