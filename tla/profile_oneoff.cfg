SPECIFICATION FairSpec
CONSTANTS
    None = None
    UserKinds = {"restore", "edit", "read", "accept", "import", "setting", "start"}
    AutoRestore = TRUE
    MaxAttempts = 2
    MaxFaults = 1
    MaxCalls = 2
    MaxChanges = 0
PROPERTIES
    OneOffReturned
CHECK_DEADLOCK FALSE
