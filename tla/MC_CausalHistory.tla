-------------------------- MODULE MC_CausalHistory --------------------------
(* Three devices, or two with a longer history each, exchanging copies.     *)
EXTENDS CausalHistory, TLC

\* The three devices behave alike.
DeviceSymmetry == Permutations(Devices)

\* Bound: copies published, each of which stays available for ever.
CONSTANT MaxPublished

FewPublished == Cardinality(published) <= MaxPublished
=============================================================================
