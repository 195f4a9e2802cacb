SPECIFICATION Spec
CONSTANTS
    None = None
    User = {u1}
    Session = {1, 2}
    Process = {p1, p2}
PROPERTIES
    RevokeAllIsComplete
CHECK_DEADLOCK FALSE
