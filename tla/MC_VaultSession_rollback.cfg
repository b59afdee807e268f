CONSTANTS
    Pages = {p1, p2}
    Background = worker
    Vaults = {v1}
    Synced = {v1}
    Arriving = {}
    None = None
    Unread = Unread
    FaultySteps = {}
    Mortal = {}
    MaxFaults = 0
    MaxDeaths = 0
    MaxEpoch = 3
    MaxId = 2
    MaxVersion = 2
SPECIFICATION Spec
SYMMETRY PageSymmetry
INVARIANTS
    SessionInstallsLocalSnapshot
