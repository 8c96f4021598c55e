------------------------------- MODULE Radio -------------------------------
(***************************************************************************)
(* The radio driver (src/src/rfm12b.cc, rfm12b.h) between its two users:   *)
(* the interrupt handler, which moves bytes between the chip and the two   *)
(* byte queues, and HR20Master::update in the main loop (master.h), which  *)
(* sends frames, reads received bytes and assembles them to packets.       *)
(*                                                                         *)
(* The handler runs between any two steps of the main loop; it is not      *)
(* interrupted itself.  A received byte is abstracted to the length it     *)
(* means when it is the first of a packet (the byte without its top bit);  *)
(* a byte of the out queue to whether it ends its frame.  A frame is       *)
(* pushed as a unit: the chip takes half a millisecond for a byte, the     *)
(* loop in HR20Master::send some microseconds.  Whether a packet is valid  *)
(* and answered is the protocol's business and left open here.             *)
(***************************************************************************)
EXTENDS Integers, Sequences

CONSTANTS MaxByte,      \* largest length a byte can mean, 0x7F
          RadioLen,     \* capacity of in and out
          RcvLen,       \* capacity of a received packet
          MinPacket,    \* the shortest packet that can be answered
          FrameLen      \* most bytes of a frame on the air

ASSUME RadioAssumption ==
    /\ MaxByte \in Nat /\ RadioLen \in Nat /\ RcvLen \in Nat
    /\ MinPacket \in Nat /\ MinPacket > 1
    /\ FrameLen \in Nat \ {0}
    /\ 2 * FrameLen <= RadioLen

VARIABLES
    mode,       \* RFM12B::mode: idle, rx, tx
    in, out,    \* RFM12B::in and out
    limit,      \* RFM12B::limit, bytes of the packet yet to come
    underrun,   \* isr_underrun
    pc,         \* the main loop, at the next of its steps
    rest,       \* bytes of the frame in the packet queue yet to be sent
    got,        \* HR20Master::packet, its fill level
    length,     \* HR20Master::length, bytes of the packet yet to be read
    fill,       \* external: the chip saw a sync word and delivers bytes
    cut,        \* the last byte sent was not the last of its frame
    synced      \* a sync was queued and something of it is still to be sent

vars == <<mode, in, out, limit, underrun, pc, rest, got, length, fill, cut,
          synced>>
radioVars  == <<mode, in, out, limit, underrun, fill, cut>>
masterVars == <<rest, got, length, synced>>

(* ShortQ: what is still in it, and _top, which pop does not lower until   *)
(* the queue is empty.                                                     *)
EmptyQ == [q |-> <<>>, top |-> 0]

Push(s, b) == IF s.top < RadioLen
              THEN [q |-> Append(s.q, b), top |-> s.top + 1] ELSE s

Popped(s) == IF Len(s.q) <= 1 THEN EmptyQ ELSE [s EXCEPT !.q = Tail(@)]

(* The last of n bytes ends its frame. *)
FrameBytes(n) == [i \in 1 .. n |-> i = n]

(* n bytes of the frame, of which rest are left. *)
PushFrame(s, n) ==
    [q |-> s.q \o SubSeq(FrameBytes(rest), 1, n), top |-> s.top + n]

Room(s) == IF rest <= RadioLen - s.top THEN rest ELSE RadioLen - s.top

Init ==
    /\ mode = "idle" /\ in = EmptyQ /\ out = EmptyQ
    /\ limit = 0 /\ underrun = FALSE
    /\ pc = "update" /\ rest = 0 /\ got = 0 /\ length = 0
    /\ fill = FALSE /\ cut = FALSE /\ synced = FALSE
-----------------------------------------------------------------------------
(***************************************************************************)
(* RFM12B::on_interrupt.                                                   *)
(***************************************************************************)
(* Mutant of ToIdle: what was not sent stays in the out queue. *)
ToIdleKeeping ==
    /\ mode' = "idle"
    /\ out' = IF mode = "tx" /\ Len(out.q) <= 1 THEN EmptyQ ELSE out
    /\ fill' = FALSE

(* switch_to_idle, called in the handler. *)
ToIdle ==
    /\ mode' = "idle"
    /\ out' = EmptyQ
    /\ fill' = FALSE

Handler == UNCHANGED <<pc, rest, got, length>>

(* What is not sent by now is lost: the radio is silent or underrun. *)
Silent == synced' = (synced /\ rest > 0)

TxUnderrun ==
    /\ mode = "tx"
    /\ underrun' = TRUE
    /\ cut' = FALSE
    /\ ToIdle
    /\ Silent
    /\ UNCHANGED <<in, limit>>
    /\ Handler

(* The next byte; without one, a dummy byte and the end of the burst.      *)
TxByte ==
    /\ mode = "tx"
    /\ cut' = (IF out.q = <<>> THEN cut ELSE ~Head(out.q))
    /\ IF Len(out.q) <= 1
       THEN ToIdle /\ Silent
       ELSE out' = Popped(out) /\ UNCHANGED <<mode, fill, synced>>
    /\ UNCHANGED <<in, limit, underrun>>
    /\ Handler

(* The first byte of a packet, or of noise that looks like one. *)
RxFirst(b) ==
    /\ mode = "idle" /\ fill
    /\ IF b > 0
       THEN /\ mode' = "rx"
            /\ in' = Push(EmptyQ, b)
            /\ limit' = b - 1
            /\ UNCHANGED <<out, fill, synced>>
       ELSE /\ ToIdle
            /\ in' = EmptyQ
            /\ limit' = 0
            /\ Silent
    /\ UNCHANGED <<underrun, cut>>
    /\ Handler

RxByte(b) ==
    /\ mode = "rx" /\ fill /\ limit > 0
    /\ in' = Push(in, b)
    /\ limit' = limit - 1
    /\ UNCHANGED <<mode, out, underrun, fill, cut, synced>>
    /\ Handler

(* One byte more than the packet has. *)
RxBeyond ==
    /\ mode = "rx" /\ fill /\ limit = 0
    /\ ToIdle
    /\ Silent
    /\ UNCHANGED <<in, limit, underrun, cut>>
    /\ Handler

RxNext == (\E b \in 0 .. MaxByte : RxFirst(b) \/ RxByte(b)) \/ RxBeyond

(* External: the chip finds a sync word, in a client's packet or in noise. *)
SyncWord ==
    /\ mode # "tx" /\ ~fill
    /\ fill' = TRUE
    /\ UNCHANGED <<mode, in, out, limit, underrun, cut>>
    /\ UNCHANGED synced
    /\ Handler
-----------------------------------------------------------------------------
(***************************************************************************)
(* HR20Master::update.  radio.update() first: after an underrun it does    *)
(* nothing else; else it starts to send what is in the out queue.          *)
(***************************************************************************)
ReportUnderrun ==
    /\ pc = "update" /\ underrun
    /\ underrun' = FALSE
    /\ pc' = "send"
    /\ UNCHANGED <<mode, in, out, limit, fill, cut, masterVars>>

(* Mutant of StartTx: what was received before is kept. *)
StartTxKeeping ==
    /\ pc = "update" /\ ~underrun
    /\ mode # "tx" /\ out.q # <<>>
    /\ mode' = "tx"
    /\ pc' = "send"
    /\ UNCHANGED <<in, out, limit, underrun, fill, cut, masterVars>>

(* switch_to_tx. *)
StartTx ==
    /\ pc = "update" /\ ~underrun
    /\ mode # "tx" /\ out.q # <<>>
    /\ mode' = "tx"
    /\ in' = EmptyQ
    /\ fill' = FALSE
    /\ pc' = "send"
    /\ UNCHANGED <<out, limit, underrun, cut, masterVars>>

NothingToStart ==
    /\ pc = "update" /\ ~underrun
    /\ mode = "tx" \/ out.q = <<>>
    /\ pc' = "send"
    /\ UNCHANGED <<radioVars, masterVars>>

(* Protocol::update queues a sync and makes it ready, unless a frame still *)
(* is; syncs are half a minute apart, a frame takes some 20 ms.            *)
QueueSync ==
    /\ pc = "send" /\ ~synced
    /\ rest = 0
    /\ rest' \in 1 .. FrameLen
    /\ synced' = TRUE
    /\ UNCHANGED <<pc, got, length, radioVars>>

(* Mutant of SendFrame: what was received before is not discarded. *)
SendFrameKeeping ==
    /\ pc = "send" /\ rest > 0
    /\ out' = PushFrame(out, Room(out))
    /\ rest' = rest - Room(out)
    /\ pc' = "receive"
    /\ UNCHANGED <<mode, in, limit, underrun, fill, cut, got, length, synced>>

(* HR20Master::send, as far as the out queue takes the frame. *)
SendFrame ==
    /\ pc = "send" /\ rest > 0
    /\ out' = PushFrame(out, Room(out))
    /\ rest' = rest - Room(out)
    /\ length' = 0 /\ got' = 0
    /\ pc' = "receive"
    /\ UNCHANGED <<mode, in, limit, underrun, fill, cut, synced>>

SendNothing ==
    /\ pc = "send" /\ rest = 0
    /\ pc' = "receive"
    /\ UNCHANGED <<radioVars, masterVars>>

(***************************************************************************)
(* HR20Master::receive.  RFM12B::recv looks whether there is a byte and    *)
(* takes it in two steps; pop of an emptied queue returns 0.               *)
(***************************************************************************)
LookForByte ==
    /\ pc = "receive"
    /\ pc' = IF in.q = <<>> THEN "update" ELSE "pop"
    /\ UNCHANGED <<radioVars, masterVars>>

Byte == IF in.q = <<>> THEN 0 ELSE Head(in.q)

(* Mutant: packet takes any number of bytes. *)
NeverTooLong == FALSE

(* A byte that does not fit clears packet and length, and is then taken    *)
(* for the length of the next packet all the same.                         *)
TooLong  == got >= RcvLen
Expected == IF TooLong \/ length = 0 THEN Byte ELSE length
Filled   == IF TooLong THEN 0 ELSE got + 1

TakeByte ==
    /\ pc = "pop"
    /\ in' = Popped(in)
    /\ IF Expected <= 1
       THEN /\ length' = 0 /\ got' = 0
            /\ \/ UNCHANGED rest
               \/ rest = 0 /\ Filled >= MinPacket /\ rest' \in 1 .. FrameLen
       ELSE length' = Expected - 1 /\ got' = Filled /\ UNCHANGED rest
    /\ pc' = IF Expected <= 1 \/ TooLong THEN "wait" ELSE "update"
    /\ UNCHANGED <<mode, out, limit, underrun, fill, cut, synced>>

(* wait_for_sync: the mode changes first, then the chip's and the out      *)
(* queue are reset.                                                        *)
Wait ==
    /\ pc = "wait"
    /\ mode' = "idle"
    /\ pc' = IF mode = "idle" THEN "update" ELSE "reset"
    /\ UNCHANGED <<in, out, limit, underrun, fill, cut, masterVars>>

ResetFifo ==
    /\ pc = "reset"
    /\ fill' = FALSE
    /\ out' = EmptyQ
    /\ Silent
    /\ pc' = "update"
    /\ UNCHANGED <<mode, in, limit, underrun, cut, rest, got, length>>

Loop ==
    \/ ReportUnderrun \/ StartTx \/ NothingToStart
    \/ QueueSync \/ SendFrame \/ SendNothing
    \/ LookForByte \/ TakeByte \/ Wait \/ ResetFifo

TxNext == TxUnderrun \/ TxByte

Next == Loop \/ TxNext \/ RxNext \/ SyncWord

Spec == Init /\ [][Next]_vars

(* The loop runs, the chip asks for the bytes it sends, and a sync is sent *)
(* every half minute.  Nothing is assumed of what is received.             *)
Fairness ==
    /\ WF_vars(Loop)
    /\ WF_vars(TxNext)
    /\ []<><<QueueSync>>_vars \/ <>[](rest > 0 \/ synced)

FairSpec == Spec /\ Fairness
-----------------------------------------------------------------------------
Queue(B) == [q : Seq(B), top : 0 .. RadioLen]

(* Every variable keeps its shape. *)
TypeOK ==
    /\ mode \in {"idle", "rx", "tx"}
    /\ in \in Queue(0 .. MaxByte) /\ out \in Queue(BOOLEAN)
    /\ limit \in 0 .. MaxByte
    /\ underrun \in BOOLEAN /\ fill \in BOOLEAN /\ cut \in BOOLEAN
    /\ pc \in {"update", "send", "receive", "pop", "wait", "reset"}
    /\ rest \in 0 .. FrameLen
    /\ got \in 0 .. RcvLen /\ length \in 0 .. MaxByte
    /\ synced \in BOOLEAN

(* The radio never stops in the middle of a frame, except at an underrun:  *)
(* nothing the main loop reads while it sends leads to wait_for_sync, and  *)
(* no interrupt runs out of bytes before the frame is over.                *)
NoCutFrame == cut => mode = "tx"

(* A frame always finds room: the out queue, which is not circular, is     *)
(* emptied before a third frame comes (rfm12b.h, "hold the whole packet").  *)
FrameFits == pc = "receive" => rest = 0

(* The radio does not stay in one mode, and no half packet keeps the       *)
(* master waiting: it comes back to listening for the start of a packet.   *)
ComesToRest == []<>(mode # "tx") /\ []<>(length = 0 /\ got = 0)

(* rfm12b.h:73: "update() call *will* switch to TX when IDLE and there are *)
(* bytes to send".  What send() accepted stays in the out queue until the  *)
(* radio sends.                                                            *)
AcceptedIsKept ==
    [][(mode # "tx" /\ out.q # <<>>) => out'.q # <<>>]_vars
=============================================================================
