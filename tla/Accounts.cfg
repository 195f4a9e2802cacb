SPECIFICATION Spec
CONSTANTS
    None = None
    User = {u1, u2}
    Username = {1, 4}
    Email = {2, 3}
    Request = {q1, q2}
    MaxVersion = 3
    Patches <- AdminPatches
CHECK_DEADLOCK FALSE
INVARIANTS
    AnActiveAdminRemains
    IdentifierNamesOneUser
PROPERTIES
    NoLostUpdate
    ChangeEndsSessions
    EveryRequestEnds
