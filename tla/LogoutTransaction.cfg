SPECIFICATION Spec
SYMMETRY Symmetry
CONSTANTS
    None = None
    User = {u1, u2}
    Session = {s1, s2}
    Client = {c1}
    Uri = {l1}
    Txn = {t1, t2}
    Request = {r1, r2}
    TTL = 1
    Retention = 0
    MaxActive = 1
    MaxAttempts = 1
    MaxNow = 1
    MaxRows = 3
    MaxProof = 2
CHECK_DEADLOCK FALSE
PROPERTIES
    RedirectOnlyForHintedUser
    LogoutIsOwn
    ConfirmationBudget
    DecidedOnce
