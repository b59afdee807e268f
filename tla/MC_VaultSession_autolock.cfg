CONSTANTS
    Pages = {p1}
    Background = worker
    Vaults = {v1}
    Synced = {v1}
    Arriving = {}
    None = None
    Unread = Unread
    FaultySteps = {"epoch", "task", "alarm", "payload", "material", "read",
                   "records", "clipboard"}
    Mortal = {}
    MaxFaults = 1
    MaxDeaths = 0
    MaxEpoch = 3
    MaxId = 2
    MaxVersion = 2
SPECIFICATION FairSpec
INVARIANT UnlockedHasAutoLock
PROPERTIES
    StaleAlarmSparesNewerSession
    AutoLock
