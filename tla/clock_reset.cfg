SPECIFICATION Spec
CONSTANTS
    None = None
    Hour = 60
    DayHours = 24
    WeekDays = 7
    PowerLossClock = 300
    Early = 5
    SyncTolerance = 1
    ResetOffset = 10
    HourTolerance = 2
    AmbiguityWindow = 60
    WindowMax = 720
    RetryInterval = 60
    Starts = {600, 10060}
    Pauses = {20, 60, 660}
    MaxPauses = 3
    MaxZones = 1
    MaxDrift = 2
    MaxOutages = 1
INVARIANTS
    TypeOK
PROPERTIES
    PowerLossSeen
    DstIsNoReset
CHECK_DEADLOCK FALSE
