SPECIFICATION Spec
SYMMETRY Symmetry
CONSTANTS
    Request = {r1, r2}
    MaxSid = 3
    MaxAttempt = 2
    MaxLogout = 1
    MaxGeneration = 1
    MaxNow = 2
    MaxSessions = 2
    SessionTTL = 2
    PendingTTL = 1
    LogoutTTL = 1
    SweepInterval = 3
CHECK_DEADLOCK FALSE
INVARIANTS
    SessionIsItsLogin
    NeverReused
    RevokesOnlyOrphans
