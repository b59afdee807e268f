CONSTANTS
    Pages = {p1, p2}
    Background = worker
    Vaults = {v1}
    Synced = {v1}
    Arriving = {v1}
    None = None
    Unread = Unread
    FaultySteps = {"epoch", "task", "alarm", "payload", "material", "read",
                   "records", "clipboard"}
    Mortal = {}
    MaxFaults = 1
    MaxDeaths = 0
    MaxEpoch = 2
    MaxId = 2
    MaxVersion = 3
SPECIFICATION Spec
SYMMETRY PageSymmetry
INVARIANTS
    PayloadNotOlder
    ActivationAuthorityFresh
PROPERTIES
    LockReportsTheTruth
    FailedArrivalLeavesNothing
