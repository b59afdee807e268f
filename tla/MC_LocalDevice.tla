--------------------------- MODULE MC_LocalDevice ---------------------------
(* A small instance of LocalDevice.                                         *)
EXTENDS LocalDevice, TLC

CONSTANTS s1, s2, t1, t2
=============================================================================
