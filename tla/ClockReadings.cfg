SPECIFICATION MCSpec
CONSTANTS
    Address = {a1, a2, a3}
    Client = {c1, c2, c3}
    Cost = 2
    Burst = 2
    GlobalCost = 1
    GlobalBurst = 1
    MaxEntries = 2
    TTL = 2
    Interval = 2
    MaxLag = 1
    MaxTime = 6
    Tab = {b1, b2}
    SessionTTL = 6
    IdleTimeout = 3
    CsrfTTL = 2
    TouchEvery = 2
    MaxSessionTime = 5
    MaxToken = 4
SYMMETRY Symmetry
CHECK_DEADLOCK FALSE
INVARIANTS
    Envelope
    CrowdedOutByActive
    IdleWindow
    LoadRepairs
