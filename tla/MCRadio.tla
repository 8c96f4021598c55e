------------------------------ MODULE MCRadio ------------------------------
(***************************************************************************)
(* A small instance of Radio: as in the code a packet can claim to be      *)
(* longer than the in queue, and that is longer than a received packet;    *)
(* two frames fit into the out queue, three do not.                        *)
(***************************************************************************)
EXTENDS Radio
=============================================================================
