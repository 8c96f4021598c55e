---------------------------- MODULE PacketQueue ----------------------------
(***************************************************************************)
(* The packet queue at work: the second tick of Protocol::update and the   *)
(* packet exchanges of Protocol::process_packet put commands in, and       *)
(* HR20Master::send takes frames out, one field at a time, between them.   *)
(* Everything runs in the main loop: an exchange is a run of want_to_send  *)
(* calls ended by prepare_to_send_to that no other step interrupts, which  *)
(* the variable talking expresses.                                         *)
(***************************************************************************)
EXTENDS PacketQueueOps

CONSTANTS Clients,      \* client addresses
          Commands,     \* the send_* calls made in a behaviour, each made once
          Dest,         \* addressee of each command
          Asked,        \* bytes a command asks want_to_send_for for
          Pushed,       \* bytes it then pushes
          SyncCmd,      \* contents of a sync packet
          SyncAsked, SyncPushed,
          Minute,       \* seconds in a minute
          MaxStall,     \* longest time between two looks at the clock, seconds
          MaxAir        \* bound: fields the radio may have taken of a frame
                        \* when a second passes; a frame takes it some 20 ms,
                        \* so that one cannot meet second after second

Half == Minute \div 2
Nobody == -1

ASSUME ClientsAssumption ==
    /\ Clients \subseteq 0 .. SyncAddr - 1
    /\ Dest \in [Commands -> Clients]
ASSUME BytesAssumption ==
    /\ Asked \in [Commands -> Nat]
    /\ Pushed \in [Commands -> Nat]
    /\ SyncAsked \in Nat
    /\ SyncPushed \in Nat
    /\ \A c \in Commands : Pushed[c] <= Asked[c] /\ Asked[c] <= PacketLen
    /\ SyncPushed <= SyncAsked /\ SyncAsked <= PacketLen
    /\ SyncCmd \notin Commands
ASSUME TimeAssumption ==
    /\ Minute \in Nat /\ Minute > 1
    /\ MaxStall \in Nat \ {0}
    /\ MaxAir \in Nat \ {0}

VARIABLES
    que,            \* PacketQ::que
    tx,             \* PacketQ::sending, prologue and cmac
    air,            \* packet fields the radio has taken of the current frame
    ss,             \* crypto.rtc.ss, the second within the minute
    talking,        \* client whose packet is being processed, or Nobody
    made,           \* commands whose send_* call has been made
    delivered       \* commands received by each client in valid frames

vars == <<que, tx, air, ss, talking, made, delivered>>

Fields == Commands \cup {SyncCmd}

ItemType ==
    [addr : Clients \cup {Free, InFlight, SyncAddr},
     time : -(MaxAge + 1) .. TzOffset,
     top : Nat,
     packet : Seq(Fields)]

TxType ==
    [slot : Slots \cup {NoSlot}, to : Clients \cup {Free, SyncAddr},
     head : BOOLEAN, mac : Seq(Fields)]

Init ==
    /\ que = EmptyQueue
    /\ tx = NotSending
    /\ air = <<>>
    /\ ss = 0
    /\ talking = Nobody
    /\ made = {}
    /\ delivered = [a \in Clients |-> <<>>]

(***************************************************************************)
(* process_packet for a valid packet of client a, up to its answer.        *)
(***************************************************************************)
StartExchange(a) ==
    /\ talking = Nobody
    /\ talking' = a
    /\ UNCHANGED <<que, tx, air, ss, made, delivered>>

(* One send_* call for the client talked to, at rd_time. *)
Send(c) ==
    /\ talking = Dest[c]
    /\ c \notin made
    /\ made' = made \cup {c}
    /\ que' = Queued(que, talking, c, Asked[c], Pushed[c], 0)
    /\ UNCHANGED <<tx, air, ss, talking, delivered>>

EndExchange ==
    /\ talking # Nobody
    /\ que' = PreparedQueue(que, tx, talking)
    /\ tx' = PreparedTx(que, tx, talking)
    /\ talking' = Nobody
    /\ UNCHANGED <<air, ss, made, delivered>>

(***************************************************************************)
(* HR20Master::update notices a new second, usually the next one, and      *)
(* calls Protocol::update: the queue is emptied when the second is 0, and  *)
(* at 0 and 30 a sync packet, stamped in local time, is queued and made    *)
(* ready.                                                                  *)
(***************************************************************************)
(* Mutant: clear() only stops the frame under way. *)
ClearedNot(q, t) == q

Cleared(q, t) == IF t = 0 THEN EmptyQueue ELSE q
ClearedTx(t)  == IF t = 0 THEN NotSending ELSE tx

WithSync(q) == Queued(q, SyncAddr, SyncCmd, SyncAsked, SyncPushed, TzOffset)

(* Queue and transmission at second t, k seconds after the last look. *)
QueueAt(t, k) ==
    IF t \in {0, Half}
    THEN PreparedQueue(WithSync(Cleared(Aged(que, k), t)), ClearedTx(t),
                       SyncAddr)
    ELSE Aged(que, k)

TxAt(t, k) ==
    IF t \in {0, Half}
    THEN PreparedTx(WithSync(Cleared(Aged(que, k), t)), ClearedTx(t),
                    SyncAddr)
    ELSE tx

NewSecond(k) ==
    /\ talking = Nobody
    /\ Len(air) < MaxAir
    /\ ss' = (ss + k) % Minute
    /\ que' = QueueAt((ss + k) % Minute, k)
    /\ tx' = TxAt((ss + k) % Minute, k)
    /\ air' = IF (ss + k) % Minute = 0 THEN <<>> ELSE air
    /\ UNCHANGED <<talking, made, delivered>>

(***************************************************************************)
(* HR20Master::send hands the next field to the radio and pops it.  The    *)
(* frame is valid for its addressee when the fields are those its CMAC     *)
(* was computed over.                                                      *)
(***************************************************************************)
PopPrologue ==
    /\ talking = Nobody
    /\ tx.slot # NoSlot /\ tx.head
    /\ tx' = [tx EXCEPT !.head = FALSE]
    /\ air' = <<>>
    /\ UNCHANGED <<que, ss, talking, made, delivered>>

PopPacket ==
    /\ talking = Nobody
    /\ tx.slot # NoSlot /\ ~tx.head
    /\ que[tx.slot].packet # <<>>
    /\ air' = Append(air, Head(que[tx.slot].packet))
    /\ que' = [que EXCEPT ![tx.slot].packet = Tail(@)]
    /\ UNCHANGED <<tx, ss, talking, made, delivered>>

(* The last field: the item is freed and nothing is being sent. *)
PopCmac ==
    /\ talking = Nobody
    /\ tx.slot # NoSlot /\ ~tx.head
    /\ que[tx.slot].packet = <<>>
    /\ que' = [que EXCEPT ![tx.slot] = FreeItem]
    /\ tx' = NotSending
    /\ air' = <<>>
    /\ delivered' = IF tx.to \in Clients /\ air = tx.mac
                    THEN [delivered EXCEPT ![tx.to] = @ \o air]
                    ELSE delivered
    /\ UNCHANGED <<ss, talking, made>>

Pop == PopPrologue \/ PopPacket \/ PopCmac

SomeSecond == \E k \in 1 .. MaxStall : NewSecond(k)

Next ==
    \/ \E a \in Clients : StartExchange(a)
    \/ \E c \in Commands : Send(c)
    \/ EndExchange
    \/ SomeSecond
    \/ Pop

Spec == Init /\ [][Next]_vars

(* A handler ends; and since every pass of loop() looks at the clock and   *)
(* calls send() whatever else it does, clients that never stop talking     *)
(* cannot keep the second or the next field from its turn.  The loop may   *)
(* stall over a full minute, but not over every one.                       *)
FullMinute == ss' = 0 /\ ss # 0
Quiet      == talking = Nobody /\ Len(air) < MaxAir
OnAir      == talking = Nobody /\ tx.slot # NoSlot
TimeGoesOn == <>[](~Quiet) \/ []<><<FullMinute>>_ss
AirGoesOn  == <>[](~OnAir) \/ []<><<Pop>>_vars

Fairness == WF_vars(EndExchange) /\ TimeGoesOn /\ AirGoesOn

FairSpec == Spec /\ Fairness
-----------------------------------------------------------------------------
(* Every variable keeps its shape. *)
TypeOK ==
    /\ que \in [Slots -> ItemType]
    /\ tx \in TxType
    /\ air \in Seq(Fields)
    /\ ss \in 0 .. Minute - 1
    /\ talking \in Clients \cup {Nobody}
    /\ made \subseteq Commands
    /\ delivered \in [Clients -> Seq(Commands)]

(* A slot marked as being sent is the one the sending pointer names: a     *)
(* mark nobody remembers would never be taken off again by pop and its     *)
(* slot would be out of use (packetqueue.h, prepare_to_send_to and pop).   *)
MarkedIsSending == \A s \in Slots : que[s].addr = InFlight => tx.slot = s

(* No push into a packet is ever refused: ShortQ::push fails silently when *)
(* the buffer is full, which would send a client half a command.           *)
PacketFits == \A s \in Slots : que[s].top <= PacketLen

(* What a client receives was queued for it: neither the sharing of packets *)
(* nor the reuse of a slot whose packet is on the air can lead a command    *)
(* to another client (want_to_send_for, pop).                               *)
PacketFor(p, a) == \A i \in DOMAIN p : p[i] \in Commands /\ Dest[p[i]] = a
NoMisdelivery == \A a \in Clients : PacketFor(delivered[a], a)

(* The commands of item s, and of the frame under way. *)
InPacket(p, c) == \E i \in DOMAIN p : p[i] = c
Waits(c) ==
    \/ \E s \in Slots : que[s].addr # InFlight /\ InPacket(que[s].packet, c)
    \/ tx.slot # NoSlot /\ InPacket(tx.mac, c)

StatusOf(c) ==
    IF \E a \in Clients : InPacket(delivered[a], c) THEN "sent"
    ELSE IF c \notin made THEN "new"
    ELSE IF Waits(c) THEN "waiting" ELSE "lost"

(* The queue with its clients is a mailbox: a command arrives only where   *)
(* it was addressed, at most once and in one piece, whatever is evicted,   *)
(* cleared or refused while its frame is on the way.                       *)
MB == INSTANCE Mailbox WITH status <- [c \in Commands |-> StatusOf(c)]
ImplementsMailbox == MB!Spec

(* A queued command is not there for ever: it is sent, or cleared at the   *)
(* next full minute (protocol.h: "everything old is lost by design").      *)
QueueDrains == \A c \in Commands : Waits(c) ~> ~Waits(c)

(* While a client is served, no packet of a client is pushed out of the    *)
(* queue before it is too old.                                             *)
ServingKeepsFresh ==
    [][talking # Nobody =>
         \A s \in Slots :
            (que[s].addr # Free /\ que[s].time + MaxAge >= 0) =>
               que'[s].addr \in {que[s].addr, InFlight}]_vars
=============================================================================
