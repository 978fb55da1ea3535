SPECIFICATION GpsSpec
CONSTANTS
    Rates = 3
    Silence = 2
    ProbeWindow = 1
    ActiveWindow = 1
    QuietInterval = 1
    Ceiling = 3
    MaxBoots = 2
INVARIANTS
    DriverInv
PROPERTIES
    ClockOnlyImproves
    EventuallyConfirmed
