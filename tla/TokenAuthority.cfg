SPECIFICATION Spec
SYMMETRY Symmetry
CONSTRAINT FewRows
CONSTANTS
    None = None
    User = {u1, u2}
    Client = {c1}
    Session = {s1, s2}
    Code = {k1, k2}
    Family = {f1, f2}
    Access = {a1, a2}
    Scope = {"openid", "offline_access"}
    CodeTTL = 1
    AccessTTL = 1
    RollingTTL = 2
    AbsoluteTTL = 2
    MaxGeneration = 1
    MaxNow = 1
    MaxVersion = 3
INVARIANTS
    LiveAuthority
    RotationChain
    SingleUse
    OneConsentEpoch
    TokenLineage
    NoDormantAuthority
PROPERTIES
    RevocationIsFinal
    SessionCascade
