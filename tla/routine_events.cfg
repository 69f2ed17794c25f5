SPECIFICATION Spec
CONSTANTS
    None = None
    Tasks = 2
    MaxRuns = 2
    MaxSessions = 2
    MaxFrames = 3
    MaxLost = 1
    MaxCalls = 2
INVARIANTS
    TypeOK
    NothingInferred
    CancelledIsOurs
    CompletedOnce
    OneOutcome
CHECK_DEADLOCK FALSE
