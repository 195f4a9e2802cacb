SPECIFICATION RegistrySpec
SYMMETRY Symmetry
CONSTANTS
    Process = {p1, p2, p3}
    Client = {c1}
    Secret = {s1, s2, s3}
    Profile = {a}
    None = None
    MaxVersion = 3
    MaxNow = 1
INVARIANTS
    OneActiveSecret
    AnswerIsCurrent
