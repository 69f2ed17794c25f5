SPECIFICATION FairSpec
CONSTANTS
    None = None
    UserKinds = {"import", "start", "setting"}
    AutoRestore = TRUE
    MaxAttempts = 2
    MaxFaults = 3
    MaxCalls = 1
    MaxChanges = 1
INVARIANTS
    AutoRestoreBounded
PROPERTIES
    ResetHandled
    OneOffReturned
CHECK_DEADLOCK FALSE
