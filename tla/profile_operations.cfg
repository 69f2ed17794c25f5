SPECIFICATION Spec
CONSTANTS
    None = None
    UserKinds = {"restore", "edit", "read", "accept", "import", "setting", "start"}
    AutoRestore = TRUE
    MaxAttempts = 1
    MaxFaults = 2
    MaxCalls = 2
    MaxChanges = 1
INVARIANTS
    TypeOK
    OneOffMarked
    AutoRestoreOnlyReset
    ResetNotHidden
    KeptReadIsCurrent
CHECK_DEADLOCK FALSE
PROPERTIES
    VerifiedWasRead
    ImplementsRecordPromise
