--------------------------- MODULE PacketQueueOps ---------------------------
(***************************************************************************)
(* The outgoing packet queue of the master (src/src/packetqueue.h) as      *)
(* operators on its contents, shared by the modules that model its users.  *)
(*                                                                         *)
(* A queue is a function from slots to items.  An item is the code's Item: *)
(* the addressee, the time stamp, the fill level of the ShortQ (top, its   *)
(* _top) and the commands in it.  A command is one call of a send_*        *)
(* function: it asks for Asked bytes and pushes Pushed of them; the model  *)
(* moves it as a unit.                                                     *)
(*                                                                         *)
(* Time is kept relative to the present: a stamp t in the model is the     *)
(* code's time minus the current Unix time, so a packet stamped by         *)
(* rd_time is stored with stamp 0 and stamps sink as seconds pass.  The    *)
(* queue only compares stamps with the time of a call, so the shift is     *)
(* exact.  Stamps stop sinking at -(MaxAge + 1), where every caller        *)
(* already sees them as too old.                                           *)
(***************************************************************************)
EXTENDS Integers, Sequences

CONSTANTS QueueLen,     \* PACKET_QUEUE_LEN
          PacketLen,    \* SENT_PACKET_LEN, the capacity of one packet
          MaxAge,       \* PACKET_DISCARD_AGE, in seconds
          TzOffset      \* localTime() - unixTime(), in seconds

ASSUME QueueAssumption ==
    /\ QueueLen \in Nat \ {0}
    /\ PacketLen \in Nat
    /\ MaxAge \in Nat
    /\ TzOffset \in Nat

Slots == 0 .. QueueLen - 1
NoSlot == -1

(* Item.addr outside the client addresses. *)
Free     == -1
InFlight == -2
SyncAddr == 33

FreeItem == [addr |-> Free, time |-> 0, top |-> 0, packet |-> <<>>]

EmptyQueue == [s \in Slots |-> FreeItem]

(* sending, prologue and cmac: which slot is on its way out, whom its frame *)
(* is for, whether the prologue has yet to leave, and the packet contents   *)
(* the CMAC was computed over.                                              *)
NotSending == [slot |-> NoSlot, to |-> Free, head |-> FALSE, mac |-> <<>>]

TopMost(S)    == CHOOSE s \in S : \A t \in S : t <= s
BottomMost(S) == CHOOSE s \in S : \A t \in S : s <= t

(***************************************************************************)
(* want_to_send_for: from the top slot down, the first that can take the   *)
(* command, either in the addressee's own packet or in place of a packet   *)
(* that is free or too old.  A slot in flight can be too old as well.      *)
(***************************************************************************)
(* Mutants: without the check of the room left, and of the addressee. *)
AppendableFull(q, addr, bytes, s)    == addr # SyncAddr /\ q[s].addr = addr
AppendableForeign(q, addr, bytes, s) ==
    addr # SyncAddr /\ q[s].addr \notin {Free, InFlight} /\ PacketLen - q[s].top > bytes

Appendable(q, addr, bytes, s) ==
    /\ addr # SyncAddr
    /\ q[s].addr = addr
    /\ PacketLen - q[s].top > bytes

(* Mutant: a packet of just MaxAge seconds is too old. *)
ReusableEarly(q, curtime, s) ==
    q[s].addr = Free \/ q[s].time + MaxAge <= curtime

Reusable(q, curtime, s) ==
    \/ q[s].addr = Free
    \/ q[s].time + MaxAge < curtime

Usable(q, addr, bytes, curtime) ==
    {s \in Slots : Appendable(q, addr, bytes, s) \/ Reusable(q, curtime, s)}

(* The packet that want_to_send_for returns when it settles on slot s. *)
Opened(q, addr, bytes, curtime, s) ==
    IF Appendable(q, addr, bytes, s)
    THEN q[s]
    ELSE [addr |-> addr, time |-> curtime, top |-> 0, packet |-> <<>>]

(* want_to_send_for and the pushes its caller then makes; the queue is left *)
(* alone when it is full.  A command that pushes no bytes (send_ack) only   *)
(* opens the packet.                                                        *)
Queued(q, addr, cmd, asked, pushed, curtime) ==
    LET usable == Usable(q, addr, asked, curtime)
        slot   == TopMost(usable)
        item   == Opened(q, addr, asked, curtime, slot)
    IN  IF usable = {}
        THEN q
        ELSE [q EXCEPT ![slot] =
                [item EXCEPT !.top = @ + pushed,
                             !.packet = IF pushed = 0 THEN @
                                        ELSE Append(@, cmd)]]

(***************************************************************************)
(* prepare_to_send_to: the lowest slot addressed to addr goes on its way,  *)
(* unless another one still is.                                            *)
(***************************************************************************)
SlotsFor(q, addr) == {s \in Slots : q[s].addr = addr}

CanPrepare(q, tx, addr) == tx.slot = NoSlot /\ SlotsFor(q, addr) # {}

PreparedQueue(q, tx, addr) ==
    IF CanPrepare(q, tx, addr)
    THEN [q EXCEPT ![BottomMost(SlotsFor(q, addr))].addr = InFlight]
    ELSE q

PreparedTx(q, tx, addr) ==
    LET slot == BottomMost(SlotsFor(q, addr))
    IN  IF CanPrepare(q, tx, addr)
        THEN [slot |-> slot, to |-> addr, head |-> TRUE,
              mac |-> q[slot].packet]
        ELSE tx

(* Mutant: stamps are not kept in range. *)
AgedStampLow(t, k) == t - k

(* The stamps of the queue after k more seconds. *)
AgedStamp(t, k) == IF t - k < -(MaxAge + 1) THEN -(MaxAge + 1) ELSE t - k

Aged(q, k) ==
    [s \in Slots |-> IF q[s].addr = Free THEN q[s]
                     ELSE [q[s] EXCEPT !.time = AgedStamp(@, k)]]
=============================================================================
