---------------------------- MODULE MCEventPages ----------------------------
(* A ring of six slots, five of them listed, in portions of two; the bound *)
(* on events lets the ring be overwritten while it is read.  Of a time it  *)
(* only matters whether there is one.                                      *)
EXTENDS EventPages

MCCodes == 1 .. MaxEvents
MCTimes == {1}
=============================================================================
