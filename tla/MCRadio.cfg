SPECIFICATION Spec
CONSTANTS
    WindowMs = 3
    MaxMs = 2
    Slots = 2
    Airtimes = {1, 2}
    CadFailLimit = 3
    MaxFaults = 4
INVARIANTS
    WaitInv
    
    
PROPERTIES
    ListeningResumes
