SPECIFICATION Spec
SYMMETRY Symmetry
CONSTANTS
    None = None
    User = {u1, u2}
    Session = {s1, s2}
    Transaction = {t1}
    Request = {r1, r2}
    Asked <- MCAsked
    TransactionTTL = 2
    MaxTime = 3
CHECK_DEADLOCK FALSE
INVARIANTS
    ConsentIsTheUsersOwn
    PromptHonoured
PROPERTIES
    DecidedOnce
    CodeFromCurrentAuthority
