CONSTANTS
    a = a  b = b  c = c  e = e
    None = None
    Devices <- All
    Members <- Three
    MaxDepth = 6
    MaxEdits = 1
    MaxMishaps = 1
SYMMETRY MemberSymmetry
SPECIFICATION Spec
INVARIANTS
    TypeOK
    RevokedHoldNoKey
    CompleteMeansRevoked
    ReplacedWithThisRotation
    OnlyMissedStampsStop
PROPERTIES
    TrustOnlyContinues
CHECK_DEADLOCK FALSE
