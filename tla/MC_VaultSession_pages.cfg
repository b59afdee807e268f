CONSTANTS
    Pages = {p1, p2}
    Background = worker
    Vaults = {v1, v2}
    Synced = {}
    Arriving = {}
    None = None
    Unread = Unread
    FaultySteps = {}
    Mortal = {p1, p2, worker}
    MaxFaults = 0
    MaxDeaths = 1
    MaxEpoch = 3
    MaxId = 2
    MaxVersion = 2
SPECIFICATION Spec
SYMMETRY PageAndVaultSymmetry
INVARIANTS
    SessionInstallsLocalSnapshot
    EveryContextFindsTheSession
    PayloadNotOlder
    NoSessionOverDeletedVault
PROPERTY ImplementsLifecycle
