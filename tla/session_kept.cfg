SPECIFICATION Spec
CONSTANTS
    Users = {u1}
    Recoveries = {r1, r2}
    Closer = Closer
    Unload = Unload
    None = None
    ConnectAttempts = 2
    ReconnectGap = 1
    MaxFaults = 1
    MaxCalls = 1
    CallKinds = {"read"}
    MayUnload = FALSE
CHECK_DEADLOCK FALSE
PROPERTIES
    ServingSessionKept
