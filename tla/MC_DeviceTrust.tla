--------------------------- MODULE MC_DeviceTrust ---------------------------
(* Small instances of DeviceTrust.                                         *)
EXTENDS DeviceTrust

CONSTANTS a, b, c, e

Three == {a, b, c}
All == {a, b, c, e}

\* The three members can be exchanged for each other.
MemberSymmetry == Permutations(Three)
=============================================================================
