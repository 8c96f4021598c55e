------------------------------ MODULE Mailbox ------------------------------
(***************************************************************************)
(* What the packet queue promises its users: a command handed to it is     *)
(* delivered to its addressee at most once, or lost.  A queue that is full *)
(* refuses the command, which is a loss.  Commands reach a client in       *)
(* packets; nothing is promised about the order of packets.                *)
(***************************************************************************)
EXTENDS Naturals, Sequences

CONSTANTS Clients, Commands,
          Dest          \* the addressee of each command

VARIABLES
    status,             \* what became of each command
    delivered           \* what each client has received, in order

mailVars == <<status, delivered>>

Waiting == {c \in Commands : status[c] = "waiting"}

Init ==
    /\ status = [c \in Commands |-> "new"]
    /\ delivered = [a \in Clients |-> <<>>]

(* The commands of S are lost, all others keep their status but for c. *)
Lost(S, c, st) ==
    [d \in Commands |-> IF d = c THEN st
                        ELSE IF d \in S THEN "lost" ELSE status[d]]

(* A new command is taken in, or refused, and may push others out. *)
Put(c) ==
    /\ status[c] = "new"
    /\ \E S \in SUBSET Waiting, st \in {"waiting", "lost"} :
          status' = Lost(S, c, st)
    /\ UNCHANGED delivered

(* A packet reaches its addressee: waiting commands, all addressed to it,  *)
(* each of them once.                                                      *)
Deliver(a, packet) ==
    /\ packet # <<>>
    /\ \A i \in DOMAIN packet :
          /\ packet[i] \in Waiting
          /\ Dest[packet[i]] = a
          /\ \A j \in DOMAIN packet : packet[i] = packet[j] => i = j
    /\ delivered' = [delivered EXCEPT ![a] = @ \o packet]
    /\ status' = [c \in Commands |->
                    IF \E i \in DOMAIN packet : packet[i] = c THEN "sent"
                                                              ELSE status[c]]

Lose ==
    /\ \E S \in SUBSET Waiting :
          status' = [c \in Commands |-> IF c \in S THEN "lost" ELSE status[c]]
    /\ UNCHANGED delivered

(* The packet a client received in this step. *)
NewlyDelivered(a) ==
    SubSeq(delivered'[a], Len(delivered[a]) + 1, Len(delivered'[a]))

Next ==
    \/ \E c \in Commands : Put(c)
    \/ \E a \in Clients : Deliver(a, NewlyDelivered(a))
    \/ Lose

Spec == Init /\ [][Next]_mailVars
=============================================================================
