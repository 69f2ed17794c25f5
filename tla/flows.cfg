SPECIFICATION FlowsSpec
CONSTANTS
    Flows = {f1, f2}
    Keys = {k1, k2}
    Addresses = {a1, a2, a3}
    Clients = {c1, c2}
    None = None
    Null = Null
    Values = {0, 1}
    Off = 0
    MaxEntries = 2
    MaxFlows = 2
    MaxMoves = 1
    MaxCalls = 2
    MaxFaults = 1
    MaxWork = 2
    MaxTroubles = 1
INVARIANTS
    FlowsTypeOK
    OneEntryPerKey
    AddressProved
    TruthfulReport
    ForgottenWithEntry
PROPERTIES
    NothingOverwritten
    FlagAfterPlan
    ImplementsRecordPromise
SYMMETRY Symmetry
CHECK_DEADLOCK FALSE
