SPECIFICATION Spec
CONSTANTS
    Users = {u1}
    Recoveries = {r1, r2}
    Closer = Closer
    Unload = Unload
    None = None
    ConnectAttempts = 2
    ReconnectGap = 1
    MaxFaults = 2
    MaxCalls = 1
    CallKinds = {"read", "live", "restore", "background", "maintenance_on", "maintenance_off"}
    MayUnload = FALSE
CHECK_DEADLOCK FALSE
INVARIANTS
    TypeOK
    OneSession
    ShownIsWatched
    OpenSessionServes
    OneRecovery
    MaintenanceQuiet
    NothingForgotten
PROPERTIES
    HealthyKept
    ImplementsPromise
