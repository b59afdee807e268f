CONSTANTS
    a = a  b = b  c = c  e = e
    None = None
    Devices <- All
    Members <- Three
    MaxDepth = 6
    MaxEdits = 1
    MaxMishaps = 0
SYMMETRY MemberSymmetry
SPECIFICATION Spec
INVARIANT FollowersCanFollow
CHECK_DEADLOCK FALSE
