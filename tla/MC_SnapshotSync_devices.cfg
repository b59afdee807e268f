CONSTANTS
    A = A
    B = B
    a1 = a1
    a2 = a2
    b1 = b1
    Devices = {A, B}
    Tasks = {a1, b1}
    Owner <- OnePageEach
    Operations = {"mutate", "upload", "resolve", "disable"}
    Enrolled = TRUE
    MaxSnapshots = 3
SPECIFICATION Spec
INVARIANTS
    OpenUploadIsRemembered
    SameVersionSameSnapshot
PROPERTIES
    RemoteMovesForward
    ImplementsRegister
