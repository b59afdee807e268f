CONSTANTS
    A = A
    B = B
    a1 = a1
    a2 = a2
    b1 = b1
    Devices = {A}
    Tasks = {a1, a2}
    Owner <- OneDevice
    Operations = {"mutate", "upload", "setup", "disable", "credentials"}
    Enrolled = FALSE
    MaxSnapshots = 3
SYMMETRY PageSymmetry
SPECIFICATION Spec
INVARIANTS
    TypeOK
    OpenUploadIsRemembered
    PendingUploadCanBeRetried
PROPERTIES
    OnlyOvertakenUnlocksAreAhead
