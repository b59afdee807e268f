CONSTANTS
    None = None
    Text = Text
    s1 = s1
    s2 = s2
    Secrets = {s1, s2}
    t1 = t1
    t2 = t2
    Tabs = {t1, t2}
    Limit = 1
    MaxCopies = 2
    MaxFaults = 1
    MaxOps = 3
SPECIFICATION Spec
INVARIANTS
    TypeOK
    SecretIsOwned
    LockLeavesNoSecret
    KnownSecretsOpenRecords
    CapturesAreWanted
PROPERTIES
    RetiredPasswordOpensNothing
    SecretLeaves
    CapturesGoForAReason
CHECK_DEADLOCK FALSE
