SPECIFICATION FairSpec
CONSTANTS
    None = None
    UserKinds = {"read"}
    AutoRestore = TRUE
    MaxAttempts = 2
    MaxFaults = 1
    MaxCalls = 1
    MaxChanges = 0
PROPERTIES
    ResetHandled
CHECK_DEADLOCK FALSE
