SPECIFICATION Spec
CONSTANTS
    None = None
    User = {u1, u2}
    Session = {1, 2, 3}
    Process = {p1, p2}
CHECK_DEADLOCK FALSE
INVARIANTS
    DisabledHasNothing
    BindingInheritedOnce
PROPERTIES
    EveryTransactionEnds
