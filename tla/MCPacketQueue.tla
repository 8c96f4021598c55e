--------------------------- MODULE MCPacketQueue ---------------------------
(***************************************************************************)
(* A small instance of PacketQueue: two clients and a queue of two         *)
(* packets, one of them needed by every sync.  Of the three writes for     *)
(* client 1 two fit into one packet and the third overflows into another   *)
(* one; the acknowledge for client 2 pushes nothing.  Packets are too old  *)
(* after three seconds, which a stalled loop may skip, and local time is   *)
(* so far ahead that a sync finds every packet too old.                    *)
(***************************************************************************)
EXTENDS PacketQueue

MCClients  == {1, 2}
MCCommands == {"temp", "lock", "timer", "ack"}
MCDest     == [c \in MCCommands |-> IF c = "ack" THEN 2 ELSE 1]
MCBytes    == [c \in MCCommands |-> CASE c = "timer" -> 4
                                      [] c = "ack"   -> 0
                                      [] OTHER       -> 2]
=============================================================================
