SPECIFICATION Spec
CONSTANTS
    Form = {f1, f2}
    Transaction = {t1}
    Request = {r1, r2}
    MaxAttempts = 2
    Places = 1
    FormTTL = 2
    TransactionTTL = 1
    MaxTime = 2
CHECK_DEADLOCK FALSE
INVARIANTS
    AttemptBudget
    OpensOnce
PROPERTIES
    GateReopens
