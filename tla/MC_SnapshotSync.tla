-------------------------- MODULE MC_SnapshotSync --------------------------
(* Small instances of SnapshotSync.                                         *)
EXTENDS SnapshotSync, TLC

CONSTANTS a1, a2, b1, A, B

\* Two pages of one device, or one page on each of two devices.
OneDevice   == [t \in {a1, a2} |-> A]
OnePageEach == [t \in {a1, b1} |-> IF t = b1 THEN B ELSE A]

PageSymmetry == Permutations({a1, a2})
=============================================================================
