CONSTANTS
    Devices = {d1, d2}
    Entries = {e1}
    Folders = {f1, f2}
    Tags = {t1}
    Names = {n1, n2}
    f1 = f1
    f2 = f2
    n1 = n1
    n2 = n2
    None = None
    Templates <- TwoTemplates
    MaxChanges = 3
    MaxLost = 1
SPECIFICATION Spec
SYMMETRY DeviceSymmetry
INVARIANTS
    VaultsStayOrganized
    RemoteAheadCanBeReviewed
PROPERTY SubmitsOverWhatWasShown
CHECK_DEADLOCK FALSE
