SPECIFICATION Spec
CONSTANTS
    None = None
    Tasks = 2
    MaxRuns = 2
    MaxSessions = 2
    MaxFrames = 3
    MaxLost = 1
    MaxCalls = 0
INVARIANTS
    TaskFiredOnce
CHECK_DEADLOCK FALSE
