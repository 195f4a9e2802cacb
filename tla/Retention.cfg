SPECIFICATION RetentionSpec
CONSTANTS
    LoginTTL = 2
    FlowTTL = 1
    CodeTTL = 2
    AccessTTL = 2
    AbsoluteTTL = 2
    LogoutTTL = 1
    ProtocolRetention = 2
    LongRetention = 2
    BatchSize = 1
    MaxRequest = 1
    LastGeneration = 1
    MaxStart = 1
    MaxNow = 7
    MaxFaults = 1
INVARIANTS
    ReplayEvidence
PROPERTIES
    EverythingRetires
