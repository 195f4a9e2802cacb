SPECIFICATION SupervisorSpec
CONSTANTS
    Incoming = {r1, r2, r3}
    MaxConns = 2
    Operations = 2
    MaxPasses = 2
CHECK_DEADLOCK FALSE
INVARIANTS
    ShutdownOrder
PROPERTIES
    NothingHangs
