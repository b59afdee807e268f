CONSTANTS
    Devices = {d1, d2, d3}
    MaxEdits = 2
    MaxPublished = 3
SPECIFICATION Spec
SYMMETRY DeviceSymmetry
CONSTRAINT FewPublished
INVARIANTS
    OrderReflectsHistory
    CountersNumberEdits
PROPERTY EditsAreNeverLost
