------------------------- MODULE PacketQueueProofs -------------------------
(***************************************************************************)
(* Proofs about PacketQueue for queues of any length, packets of any size, *)
(* any clients and any commands: the invariants of the queue, that queue   *)
(* and clients implement Mailbox, and that fresh packets are not evicted.  *)
(***************************************************************************)
EXTENDS PacketQueue, TLAPS, WellFoundedInduction

(* A set of natural numbers that is not empty has a least element. *)
LEMMA LeastElement ==
    ASSUME NEW S, S \subseteq Nat, S # {}
    PROVE  \E s \in S : \A t \in S : s <= t
<1>1. PICK s \in S : \A t \in S : ~ (<<t, s>> \in OpToRel(<, Nat))
    BY NatLessThanWellFounded, WFMin
<1>2. ASSUME NEW t \in S PROVE s <= t
    <2>1. s \in Nat /\ t \in Nat
        OBVIOUS
    <2>2. ~ (t < s)
        BY <1>1, <2>1 DEF OpToRel
    <2> QED
        BY <2>1, <2>2
<1> QED
    BY <1>2

(* prepare_to_send_to finds the lowest slot of a set of slots. *)
LEMMA BottomMostInSet ==
    ASSUME NEW S, S \subseteq Slots, S # {}
    PROVE  BottomMost(S) \in S /\ \A t \in S : BottomMost(S) <= t
<1>1. S \subseteq Nat
    BY QueueAssumption DEF Slots
<1> QED
    BY <1>1, LeastElement DEF BottomMost

(* want_to_send_for finds the highest one. *)
LEMMA TopMostInSet ==
    ASSUME NEW S, S \subseteq Slots, S # {}
    PROVE  TopMost(S) \in S /\ \A t \in S : t <= TopMost(S)
<1> DEFINE M == {QueueLen - 1 - s : s \in S}
<1>1. M \subseteq Nat /\ M # {}
    <2>1. ASSUME NEW s \in S PROVE QueueLen - 1 - s \in Nat
        BY QueueAssumption DEF Slots
    <2> QED
        BY <2>1
<1>2. PICK m \in M : \A n \in M : m <= n
    BY <1>1, LeastElement
<1>3. PICK s \in S : m = QueueLen - 1 - s
    OBVIOUS
<1>4. ASSUME NEW t \in S PROVE t <= s
    <2>1. QueueLen - 1 - s <= QueueLen - 1 - t
        BY <1>2, <1>3
    <2> QED
        BY <2>1, QueueAssumption DEF Slots
<1> QED
    BY <1>4 DEF TopMost
-----------------------------------------------------------------------------
(***************************************************************************)
(* The inductive invariant.  QueueOK(q, t) collects what is true of queue  *)
(* and transmission together, so that the lemmas about the operators can   *)
(* be stated for the intermediate queues of a handler: a packet addressed  *)
(* to a client holds only its commands, and so does the frame a CMAC was   *)
(* computed for, which is what makes NoMisdelivery inductive.              *)
(***************************************************************************)
QueueOK(q, t) ==
    /\ q \in [Slots -> ItemType]
    /\ t \in TxType
    /\ \A s \in Slots : q[s].addr = InFlight => t.slot = s
    /\ \A s \in Slots : q[s].top <= PacketLen
    /\ \A s \in Slots :
          q[s].addr \in Clients => PacketFor(q[s].packet, q[s].addr)
    /\ t.to \in Clients => PacketFor(t.mac, t.to)

IInv == TypeOK /\ QueueOK(que, tx) /\ NoMisdelivery

LEMMA AddressesDiffer ==
    /\ Free \notin Clients /\ InFlight \notin Clients
    /\ SyncAddr \notin Clients /\ Nobody \notin Clients
    /\ Free # InFlight /\ SyncAddr # InFlight /\ SyncAddr # Free
    /\ NoSlot \notin Slots
BY ClientsAssumption, QueueAssumption
   DEF Free, InFlight, SyncAddr, Nobody, NoSlot, Slots

LEMMA FreeItemType == FreeItem \in ItemType /\ FreeItem.addr = Free
                      /\ FreeItem.top = 0 /\ FreeItem.packet = <<>>
<1>1. 0 \in -(MaxAge + 1) .. TzOffset
    BY QueueAssumption
<1> QED
    BY <1>1 DEF FreeItem, ItemType

LEMMA NotSendingType == NotSending \in TxType
BY DEF NotSending, TxType

LEMMA EmptyQueueOK == QueueOK(EmptyQueue, NotSending)
<1>1. EmptyQueue \in [Slots -> ItemType]
    BY FreeItemType DEF EmptyQueue
<1>2. \A s \in Slots : EmptyQueue[s].addr = Free /\ EmptyQueue[s].top = 0
    BY FreeItemType DEF EmptyQueue
<1>3. NotSending.to = Free
    BY DEF NotSending
<1> QED
    BY <1>1, <1>2, <1>3, NotSendingType, AddressesDiffer, QueueAssumption
       DEF QueueOK

(* want_to_send_for and the pushes keep the queue in order when the command *)
(* is meant for the client it is queued for.                                *)
LEMMA QueuedOK ==
    ASSUME NEW q, NEW t, QueueOK(q, t),
           NEW addr \in Clients \cup {SyncAddr},
           NEW cmd \in Fields,
           NEW asked \in Nat, NEW pushed \in Nat,
           pushed <= asked, asked <= PacketLen,
           NEW curtime \in {0, TzOffset},
           addr \in Clients => cmd \in Commands /\ Dest[cmd] = addr
    PROVE  QueueOK(Queued(q, addr, cmd, asked, pushed, curtime), t)
<1> DEFINE usable == Usable(q, addr, asked, curtime)
           slot   == TopMost(usable)
           item   == Opened(q, addr, asked, curtime, slot)
           packet == IF pushed = 0 THEN item.packet
                     ELSE Append(item.packet, cmd)
           new    == [item EXCEPT !.top = @ + pushed, !.packet = packet]
           r      == Queued(q, addr, cmd, asked, pushed, curtime)
<1>1. CASE usable = {}
    BY <1>1 DEF Queued
<1>2. CASE usable # {}
    <2>1. slot \in Slots
        BY <1>2, TopMostInSet DEF Usable
    <2>2. item \in ItemType /\ item.addr = addr /\ item.top + pushed <= PacketLen
        <3>1. CASE Appendable(q, addr, asked, slot)
            <4>1. item = q[slot]
                BY <3>1 DEF Opened
            <4>2. item \in ItemType /\ item.addr = addr
                BY <2>1, <3>1, <4>1 DEF QueueOK, Appendable
            <4>3. item.top \in Nat /\ PacketLen - item.top > asked
                BY <3>1, <4>1, <4>2 DEF Appendable, ItemType
            <4> QED
                BY <4>2, <4>3, QueueAssumption
        <3>2. CASE ~Appendable(q, addr, asked, slot)
            <4>1. item = [addr |-> addr, time |-> curtime, top |-> 0,
                          packet |-> <<>>]
                BY <3>2 DEF Opened
            <4>2. curtime \in -(MaxAge + 1) .. TzOffset
                BY QueueAssumption
            <4> QED
                BY <4>1, <4>2, QueueAssumption DEF ItemType
        <3> QED
            BY <3>1, <3>2
    <2>3. addr \in Clients => PacketFor(item.packet, addr)
        BY <2>1, <2>2 DEF Opened, QueueOK, Appendable, PacketFor
    <2>4. packet \in Seq(Fields)
        BY <2>2 DEF ItemType
    <2>5. addr \in Clients => PacketFor(packet, addr)
        <3>1. CASE pushed = 0
            BY <2>3, <3>1
        <3>2. CASE pushed # 0
            <4>1. item.packet \in Seq(Fields)
                BY <2>2 DEF ItemType
            <4> QED
                BY <2>3, <3>2, <4>1 DEF PacketFor
        <3> QED
            BY <3>1, <3>2
    <2>6. new \in ItemType /\ new.addr = addr /\ new.packet = packet
          /\ new.top <= PacketLen
        <3>1. item.top + pushed \in Nat
            BY <2>2 DEF ItemType
        <3> HIDE DEF item, packet
        <3> QED
            BY <2>2, <2>4, <3>1 DEF ItemType
    <2>7. r = [q EXCEPT ![slot] = new]
        BY <1>2 DEF Queued
    <2>8. \A s \in Slots : r[s] = IF s = slot THEN new ELSE q[s]
        BY <2>7 DEF QueueOK
    <2>9. r \in [Slots -> ItemType]
        BY <2>1, <2>6, <2>7 DEF QueueOK
    <2>10. QueueOK(r, t)
        <3> HIDE DEF new, r, packet, item, slot
        <3> QED
            BY <2>5, <2>6, <2>8, <2>9, AddressesDiffer DEF QueueOK
    <2> QED
        BY <2>10
<1> QED
    BY <1>1, <1>2

(* prepare_to_send_to only ever marks a slot it then remembers. *)
LEMMA PreparedOK ==
    ASSUME NEW q, NEW t, QueueOK(q, t),
           NEW addr \in Clients \cup {SyncAddr}
    PROVE  QueueOK(PreparedQueue(q, t, addr), PreparedTx(q, t, addr))
<1> DEFINE slot == BottomMost(SlotsFor(q, addr))
           r    == PreparedQueue(q, t, addr)
           u    == PreparedTx(q, t, addr)
<1>1. CASE ~CanPrepare(q, t, addr)
    BY <1>1 DEF PreparedQueue, PreparedTx
<1>2. CASE CanPrepare(q, t, addr)
    <2>1. slot \in Slots /\ q[slot].addr = addr
        BY <1>2, BottomMostInSet DEF CanPrepare, SlotsFor
    <2>2. q[slot] \in ItemType
        BY <2>1 DEF QueueOK
    <2>3. u = [slot |-> slot, to |-> addr, head |-> TRUE,
               mac |-> q[slot].packet]
        BY <1>2 DEF PreparedTx
    <2>4. u \in TxType
        BY <2>1, <2>2, <2>3 DEF TxType, ItemType
    <2>5. \A s \in Slots : r[s] = IF s = slot
                                 THEN [q[s] EXCEPT !.addr = InFlight]
                                 ELSE q[s]
        BY <1>2, <2>1 DEF PreparedQueue, QueueOK
    <2>6. [q[slot] EXCEPT !.addr = InFlight] \in ItemType
        BY <2>2 DEF ItemType
    <2>7. r \in [Slots -> ItemType]
        BY <1>2, <2>1, <2>6 DEF PreparedQueue, QueueOK
    <2>8. /\ r[slot].addr = InFlight /\ r[slot].top = q[slot].top
          /\ u.slot = slot /\ u.to = addr /\ u.mac = q[slot].packet
        <3>1. u.slot = slot /\ u.to = addr /\ u.mac = q[slot].packet
            BY <2>3
        <3>2. r[slot] = [q[slot] EXCEPT !.addr = InFlight]
            BY <2>1, <2>5
        <3> HIDE DEF r, u, slot
        <3> QED
            BY <2>2, <3>1, <3>2 DEF ItemType
    <2>9. \A s \in Slots : q[s].addr # InFlight
        BY <1>2, AddressesDiffer DEF CanPrepare, QueueOK
    <2>10. QueueOK(r, u)
        <3> HIDE DEF r, u, slot
        <3> QED
            BY <2>1, <2>4, <2>5, <2>7, <2>8, <2>9, AddressesDiffer DEF QueueOK
    <2> QED
        BY <2>10
<1> QED
    BY <1>1, <1>2

(* Time only lowers the stamps. *)
LEMMA AgedOK ==
    ASSUME NEW q, NEW t, QueueOK(q, t), NEW k \in Nat
    PROVE  QueueOK(Aged(q, k), t)
<1> DEFINE r == Aged(q, k)
<1>1. ASSUME NEW s \in Slots
      PROVE  /\ r[s] \in ItemType
             /\ r[s].addr = q[s].addr /\ r[s].top = q[s].top
             /\ r[s].packet = q[s].packet
    <2>1. q[s] \in ItemType
        BY DEF QueueOK
    <2>2. AgedStamp(q[s].time, k) \in -(MaxAge + 1) .. TzOffset
        BY <2>1, QueueAssumption DEF ItemType, AgedStamp
    <2> HIDE DEF AgedStamp
    <2> QED
        BY <2>1, <2>2 DEF Aged, ItemType
<1>2. r \in [Slots -> ItemType]
    BY <1>1 DEF Aged
<1>3. QueueOK(r, t)
    <2> HIDE DEF r
    <2> QED
        BY <1>1, <1>2 DEF QueueOK
<1> QED
    BY <1>3
-----------------------------------------------------------------------------
LEMMA InitIInv == Init => IInv
<1> SUFFICES ASSUME Init PROVE IInv
    OBVIOUS
<1>1. QueueOK(que, tx)
    BY EmptyQueueOK DEF Init
<1>2. TypeOK
    BY <1>1, TimeAssumption DEF Init, TypeOK, QueueOK
<1>3. NoMisdelivery
    BY DEF Init, NoMisdelivery, PacketFor
<1> QED
    BY <1>1, <1>2, <1>3 DEF IInv

(* Each action, from the invariant. *)
LEMMA StartExchangeIInv ==
    ASSUME IInv, NEW a \in Clients, StartExchange(a)
    PROVE  IInv'
BY DEF IInv, TypeOK, NoMisdelivery, StartExchange

LEMMA SendIInv ==
    ASSUME IInv, NEW c \in Commands, Send(c)
    PROVE  IInv'
<1>1. talking \in Clients /\ Dest[c] = talking
    BY ClientsAssumption DEF Send
<1>2. /\ c \in Fields /\ Asked[c] \in Nat /\ Pushed[c] \in Nat
      /\ Pushed[c] <= Asked[c] /\ Asked[c] <= PacketLen
    BY BytesAssumption DEF Fields
<1>3. QueueOK(que', tx')
    <2>1. QueueOK(Queued(que, talking, c, Asked[c], Pushed[c], 0), tx)
        BY <1>1, <1>2, QueuedOK DEF IInv
    <2> QED
        BY <2>1 DEF Send
<1>4. TypeOK'
    BY <1>3 DEF IInv, TypeOK, Send, QueueOK
<1>5. NoMisdelivery'
    BY DEF IInv, NoMisdelivery, Send
<1> QED
    BY <1>3, <1>4, <1>5 DEF IInv

LEMMA EndExchangeIInv == ASSUME IInv, EndExchange PROVE IInv'
<1>1. talking \in Clients
    BY DEF IInv, TypeOK, EndExchange
<1>2. QueueOK(que', tx')
    BY <1>1, PreparedOK DEF IInv, EndExchange
<1>3. TypeOK'
    BY <1>2 DEF IInv, TypeOK, EndExchange, QueueOK
<1>4. NoMisdelivery'
    BY DEF IInv, NoMisdelivery, EndExchange
<1> QED
    BY <1>2, <1>3, <1>4 DEF IInv

LEMMA NewSecondIInv ==
    ASSUME IInv, NEW k \in 1 .. MaxStall, NewSecond(k)
    PROVE  IInv'
<1> DEFINE t == (ss + k) % Minute
           q == Cleared(Aged(que, k), t)
           u == ClearedTx(t)
<1>1. k \in Nat /\ t \in 0 .. Minute - 1
    BY TimeAssumption DEF IInv, TypeOK
<1>2. QueueOK(Aged(que, k), tx)
    BY <1>1, AgedOK DEF IInv
<1>3. QueueOK(q, u)
    BY <1>2, EmptyQueueOK DEF Cleared, ClearedTx
<1>4. QueueOK(WithSync(q), u)
    BY <1>3, QueuedOK, BytesAssumption, AddressesDiffer DEF WithSync, Fields
<1>5. QueueOK(PreparedQueue(WithSync(q), u, SyncAddr),
              PreparedTx(WithSync(q), u, SyncAddr))
    BY <1>4, PreparedOK
<1>6. QueueOK(que', tx')
    <2>1. que' = QueueAt(t, k) /\ tx' = TxAt(t, k)
        BY DEF NewSecond
    <2> HIDE DEF t
    <2> QED
        BY <1>2, <1>5, <2>1 DEF QueueAt, TxAt
<1>7. TypeOK'
    <2>1. air' \in Seq(Fields) /\ ss' \in 0 .. Minute - 1
        BY <1>1 DEF IInv, TypeOK, NewSecond
    <2> QED
        BY <1>6, <2>1 DEF IInv, TypeOK, NewSecond, QueueOK
<1>8. NoMisdelivery'
    BY DEF IInv, NoMisdelivery, NewSecond
<1> QED
    BY <1>6, <1>7, <1>8 DEF IInv

LEMMA PopPrologueIInv == ASSUME IInv, PopPrologue PROVE IInv'
<1>1. tx' = [tx EXCEPT !.head = FALSE]
    BY DEF PopPrologue
<1>2. tx' \in TxType /\ tx'.slot = tx.slot /\ tx'.to = tx.to
      /\ tx'.mac = tx.mac
    BY <1>1 DEF IInv, TypeOK, TxType
<1>3. QueueOK(que', tx')
    BY <1>2 DEF IInv, QueueOK, PopPrologue
<1>4. TypeOK'
    BY <1>2 DEF IInv, TypeOK, PopPrologue
<1>5. NoMisdelivery'
    BY DEF IInv, NoMisdelivery, PopPrologue
<1> QED
    BY <1>3, <1>4, <1>5 DEF IInv

LEMMA PopPacketIInv == ASSUME IInv, PopPacket PROVE IInv'
<1> DEFINE slot == tx.slot
<1>1. slot \in Slots /\ que[slot] \in ItemType
    BY DEF IInv, TypeOK, TxType, PopPacket
<1>2. /\ que[slot].packet \in Seq(Fields) /\ que[slot].packet # <<>>
    BY <1>1 DEF ItemType, PopPacket
<1>3. /\ Head(que[slot].packet) \in Fields
      /\ Tail(que[slot].packet) \in Seq(Fields)
    BY <1>2
<1>4. \A s \in Slots : que'[s] = IF s = slot
                               THEN [que[s] EXCEPT !.packet = Tail(@)]
                               ELSE que[s]
    BY <1>1 DEF IInv, TypeOK, PopPacket
<1>5. /\ que'[slot] \in ItemType
      /\ que'[slot].addr = que[slot].addr /\ que'[slot].top = que[slot].top
      /\ que'[slot].packet = Tail(que[slot].packet)
    BY <1>1, <1>3, <1>4 DEF ItemType
<1>6. que' \in [Slots -> ItemType]
    BY <1>1, <1>5 DEF IInv, TypeOK, PopPacket
<1>7. que[slot].addr \in Clients =>
        PacketFor(que'[slot].packet, que[slot].addr)
    <2>1. \A i \in DOMAIN Tail(que[slot].packet) :
            /\ i + 1 \in DOMAIN que[slot].packet
            /\ Tail(que[slot].packet)[i] = que[slot].packet[i + 1]
        BY <1>2
    <2> QED
        BY <1>1, <1>5, <2>1 DEF IInv, QueueOK, PacketFor
<1>8. QueueOK(que', tx')
    <2>1. tx' = tx
        BY DEF PopPacket
    <2> HIDE DEF slot
    <2> QED
        BY <1>1, <1>4, <1>5, <1>6, <1>7, <2>1 DEF IInv, QueueOK
<1>9. TypeOK'
    BY <1>3, <1>6 DEF IInv, TypeOK, PopPacket
<1>10. NoMisdelivery'
    BY DEF IInv, NoMisdelivery, PopPacket
<1> QED
    BY <1>8, <1>9, <1>10 DEF IInv

LEMMA PopCmacIInv == ASSUME IInv, PopCmac PROVE IInv'
<1> DEFINE slot == tx.slot
<1>1. slot \in Slots
    BY DEF IInv, TypeOK, TxType, PopCmac
<1>2. \A s \in Slots : que'[s] = IF s = slot THEN FreeItem ELSE que[s]
    BY <1>1 DEF IInv, TypeOK, PopCmac
<1>3. que' \in [Slots -> ItemType]
    BY <1>1, FreeItemType DEF IInv, TypeOK, PopCmac
<1>4. QueueOK(que', tx')
    <2>1. tx' \in TxType /\ tx'.to = Free
        BY NotSendingType DEF PopCmac, NotSending
    <2>2. \A s \in Slots : que'[s].addr # InFlight
        BY <1>2, FreeItemType, AddressesDiffer DEF IInv, QueueOK
    <2> QED
        BY <1>2, <1>3, <2>1, <2>2, FreeItemType, AddressesDiffer,
           QueueAssumption
        DEF IInv, QueueOK
<1>5. ASSUME NEW a \in Clients
      PROVE  /\ delivered'[a] \in Seq(Commands)
             /\ PacketFor(delivered'[a], a)
    <2>1. delivered[a] \in Seq(Commands) /\ PacketFor(delivered[a], a)
        BY DEF IInv, TypeOK, NoMisdelivery
    <2>2. CASE tx.to = a /\ air = tx.mac
        <3>1. delivered'[a] = delivered[a] \o air
            BY <2>2 DEF IInv, TypeOK, PopCmac
        <3>2. air \in Seq(Fields) /\ PacketFor(air, a)
            BY <2>2 DEF IInv, TypeOK, QueueOK
        <3>3. air \in Seq(Commands)
            BY <3>2 DEF PacketFor
        <3> QED
            BY <2>1, <3>1, <3>2, <3>3 DEF PacketFor
    <2>3. CASE ~(tx.to = a /\ air = tx.mac)
        BY <2>1, <2>3 DEF IInv, TypeOK, PopCmac
    <2> QED
        BY <2>2, <2>3
<1>6. delivered' \in [Clients -> Seq(Commands)]
    BY <1>5 DEF IInv, TypeOK, PopCmac
<1>7. TypeOK'
    BY <1>3, <1>6, NotSendingType DEF IInv, TypeOK, PopCmac
<1>8. NoMisdelivery'
    BY <1>5 DEF NoMisdelivery
<1> QED
    BY <1>4, <1>7, <1>8 DEF IInv

LEMMA NextIInv == IInv /\ [Next]_vars => IInv'
<1> SUFFICES ASSUME IInv, [Next]_vars PROVE IInv'
    OBVIOUS
<1>1. CASE \E a \in Clients : StartExchange(a)
    BY <1>1, StartExchangeIInv
<1>2. CASE \E c \in Commands : Send(c)
    BY <1>2, SendIInv
<1>3. CASE EndExchange
    BY <1>3, EndExchangeIInv
<1>4. CASE SomeSecond
    BY <1>4, NewSecondIInv DEF SomeSecond
<1>5. CASE Pop
    BY <1>5, PopPrologueIInv, PopPacketIInv, PopCmacIInv DEF Pop
<1>6. CASE UNCHANGED vars
    BY <1>6 DEF vars, IInv, TypeOK, QueueOK, NoMisdelivery
<1> QED
    BY <1>1, <1>2, <1>3, <1>4, <1>5, <1>6 DEF Next

(* The invariant holds throughout. *)
THEOREM IInvariance == Spec => []IInv
BY InitIInv, NextIInv, PTL DEF Spec

(* Every variable keeps its shape, whatever the clients, the size of the   *)
(* queue and of its packets, and however late the clock is looked at.      *)
THEOREM TypeCorrect == Spec => []TypeOK
<1>1. IInv => TypeOK
    BY DEF IInv
<1> QED
    BY <1>1, IInvariance, PTL

(* Of all slots only the one the sending pointer names is ever marked as   *)
(* being sent, so no slot is lost to a mark nobody takes off: pop and      *)
(* clear drop mark and pointer together, an eviction drops the mark.       *)
THEOREM MarkCorrect == Spec => []MarkedIsSending
<1>1. IInv => MarkedIsSending
    BY DEF IInv, QueueOK, MarkedIsSending
<1> QED
    BY <1>1, IInvariance, PTL

(* want_to_send_for never hands out a packet that the bytes asked for do   *)
(* not fit into, so ShortQ::push never drops part of a command.            *)
THEOREM PushesFit == Spec => []PacketFits
<1>1. IInv => PacketFits
    BY DEF IInv, QueueOK, PacketFits
<1> QED
    BY <1>1, IInvariance, PTL

(* A client that verifies a frame's CMAC finds in it only commands queued  *)
(* for it, although slots are shared, evicted and reused on the air.       *)
THEOREM DeliveredToAddressee == Spec => []NoMisdelivery
<1>1. IInv => NoMisdelivery
    BY DEF IInv
<1> QED
    BY <1>1, IInvariance, PTL
-----------------------------------------------------------------------------
(***************************************************************************)
(* What the mailbox rests on: a command is in one place at most, and, once *)
(* delivered, in none that it could be delivered from again.               *)
(***************************************************************************)
SentIn(d, c) == \E a \in Clients : InPacket(d[a], c)

Once(p) ==
    \A i, j \in DOMAIN p : p[i] \in Commands /\ p[i] = p[j] => i = j

HeldOK(q, t, m, d) ==
    /\ \A s \in Slots, c \in Commands :
          InPacket(q[s].packet, c) => c \in m /\ ~SentIn(d, c)
    /\ \A c \in Commands : InPacket(t.mac, c) => c \in m /\ ~SentIn(d, c)
    /\ \A s \in Slots : Once(q[s].packet)
    /\ Once(t.mac)
    /\ \A s, r \in Slots, c \in Commands :
          InPacket(q[s].packet, c) /\ InPacket(q[r].packet, c) => s = r
    /\ \A s \in Slots, c \in Commands :
          InPacket(t.mac, c) /\ InPacket(q[s].packet, c) => t.slot = s
    /\ t.slot = NoSlot => t.mac = <<>>
    /\ \A c \in Commands : SentIn(d, c) => c \in m

MailIInv == IInv /\ HeldOK(que, tx, made, delivered)

(* What Waits says of the queue and the transmission at any point. *)
WaitsIn(q, t, c) ==
    \/ \E s \in Slots : q[s].addr # InFlight /\ InPacket(q[s].packet, c)
    \/ t.slot # NoSlot /\ InPacket(t.mac, c)

(* What is in a packet after a push, and after a pop. *)
LEMMA EmptyPacket == Once(<<>>) /\ \A c : ~InPacket(<<>>, c)
BY DEF Once, InPacket

(* A push adds one command to a packet and, if the command was not in it,  *)
(* leaves every command in it once.                                        *)
LEMMA PushedPacket ==
    ASSUME NEW p \in Seq(Fields), NEW cmd \in Fields
    PROVE  /\ \A c : InPacket(Append(p, cmd), c) => c = cmd \/ InPacket(p, c)
           /\ Once(p) /\ (cmd \in Commands => ~InPacket(p, cmd))
                 => Once(Append(p, cmd))
<1> DEFINE r == Append(p, cmd)
<1>1. /\ DOMAIN r = 1 .. Len(p) + 1 /\ DOMAIN p = 1 .. Len(p) /\ Len(p) \in Nat
      /\ \A i \in 1 .. Len(p) : r[i] = p[i]
      /\ r[Len(p) + 1] = cmd
    OBVIOUS
<1> HIDE DEF r
<1>2. \A c : InPacket(r, c) => c = cmd \/ InPacket(p, c)
    BY <1>1 DEF InPacket
<1>3. ASSUME Once(p), cmd \in Commands => ~InPacket(p, cmd),
             NEW i \in DOMAIN r, NEW j \in DOMAIN r, r[i] \in Commands, r[i] = r[j]
      PROVE  i = j
    <2>1. CASE i \in 1 .. Len(p) /\ j \in 1 .. Len(p)
        BY <2>1, <1>1, <1>3 DEF Once
    <2>2. CASE i = Len(p) + 1 /\ j \in 1 .. Len(p)
        BY <2>2, <1>1, <1>3 DEF InPacket
    <2>3. CASE j = Len(p) + 1 /\ i \in 1 .. Len(p)
        BY <2>3, <1>1, <1>3 DEF InPacket
    <2> QED
        BY <2>1, <2>2, <2>3, <1>1
<1> QED
    BY <1>2, <1>3 DEF Once, r

(* A pop takes one field and adds none.                                    *)
LEMMA PoppedPacket ==
    ASSUME NEW p \in Seq(Fields), p # <<>>
    PROVE  /\ \A c : InPacket(Tail(p), c) => InPacket(p, c)
           /\ Once(p) => Once(Tail(p))
<1>1. /\ DOMAIN Tail(p) = 1 .. Len(p) - 1 /\ DOMAIN p = 1 .. Len(p)
      /\ Len(p) \in Nat
      /\ \A i \in 1 .. Len(p) - 1 : Tail(p)[i] = p[i + 1]
    OBVIOUS
<1>2. ASSUME NEW c, InPacket(Tail(p), c) PROVE InPacket(p, c)
    <2>1. PICK i \in 1 .. Len(p) - 1 : p[i + 1] = c
        BY <1>1, <1>2 DEF InPacket
    <2>2. i + 1 \in DOMAIN p
        BY <1>1
    <2> QED
        BY <2>1, <2>2 DEF InPacket
<1>3. ASSUME Once(p), NEW i \in DOMAIN Tail(p), NEW j \in DOMAIN Tail(p),
             Tail(p)[i] \in Commands, Tail(p)[i] = Tail(p)[j]
      PROVE  i = j
    <2>1. i + 1 \in DOMAIN p /\ j + 1 \in DOMAIN p /\ i \in Nat /\ j \in Nat
        BY <1>1
    <2>2. p[i + 1] \in Commands /\ p[i + 1] = p[j + 1]
        BY <1>1, <1>3
    <2>3. i + 1 = j + 1
        BY <2>1, <2>2, <1>3 DEF Once
    <2> QED
        BY <2>1, <2>3
<1> QED
    BY <1>2, <1>3 DEF Once

(* What want_to_send_for and the pushes do to the packets: r is q with cmd  *)
(* put, or not, into one packet for addr, a new one or the one there.       *)
PutIn(q, r, addr, cmd) ==
    \E slot \in Slots : \E p \in {<<>>, q[slot].packet} :
       /\ p # <<>> => q[slot].addr = addr
       /\ \A s \in Slots : s # slot => r[s] = q[s]
       /\ r[slot].addr = addr
       /\ r[slot].packet \in {p, Append(p, cmd)}

(* Queued puts the command into one packet and leaves the others alone.    *)
LEMMA QueuedContents ==
    ASSUME NEW q, NEW t, QueueOK(q, t),
           NEW addr, NEW cmd, NEW asked, NEW pushed \in Nat, NEW curtime,
           Usable(q, addr, asked, curtime) # {}
    PROVE  PutIn(q, Queued(q, addr, cmd, asked, pushed, curtime), addr, cmd)
<1> DEFINE slot == TopMost(Usable(q, addr, asked, curtime))
           item == Opened(q, addr, asked, curtime, slot)
           packet == IF pushed = 0 THEN item.packet ELSE Append(item.packet, cmd)
           new  == [item EXCEPT !.top = @ + pushed, !.packet = packet]
           r    == Queued(q, addr, cmd, asked, pushed, curtime)
<1>1. slot \in Slots
    BY TopMostInSet DEF Usable
<1>2. r = [q EXCEPT ![slot] = new]
    BY DEF Queued
<1>3. CASE Appendable(q, addr, asked, slot)
    <2>1. item = q[slot] /\ q[slot].addr = addr /\ q[slot] \in ItemType
        BY <1>1, <1>3 DEF Opened, Appendable, QueueOK
    <2>2. item.packet = q[slot].packet
        BY <2>1
    <2> HIDE DEF item, slot, packet
    <2>3. new.addr = addr /\ new.packet = packet
        BY <2>1 DEF ItemType
    <2>4. packet \in {q[slot].packet, Append(q[slot].packet, cmd)}
        BY <2>2 DEF packet
    <2> HIDE DEF new, r
    <2>5. /\ \A s \in Slots : s # slot => r[s] = q[s]
          /\ r[slot] = new
        BY <1>1, <1>2 DEF QueueOK
    <2> QED
        BY <1>1, <2>1, <2>3, <2>4, <2>5 DEF r, PutIn
<1>4. CASE ~Appendable(q, addr, asked, slot)
    <2>1. item = [addr |-> addr, time |-> curtime, top |-> 0, packet |-> <<>>]
        BY <1>4 DEF Opened
    <2>2. item.packet = <<>>
        BY <2>1
    <2> HIDE DEF item, slot, packet
    <2>3. new.addr = addr /\ new.packet = packet
        BY <2>1
    <2>4. packet \in {<<>>, Append(<<>>, cmd)}
        BY <2>2 DEF packet
    <2> HIDE DEF new, r
    <2>5. /\ \A s \in Slots : s # slot => r[s] = q[s]
          /\ r[slot] = new
        BY <1>1, <1>2 DEF QueueOK
    <2> QED
        BY <1>1, <2>3, <2>4, <2>5 DEF r, PutIn
<1> QED
    BY <1>3, <1>4

(* Aging leaves all packets where they are. *)
LEMMA AgedContents ==
    ASSUME NEW q, NEW t, QueueOK(q, t), NEW k \in Nat, NEW s \in Slots
    PROVE  /\ Aged(q, k)[s].addr = q[s].addr
           /\ Aged(q, k)[s].packet = q[s].packet
<1>1. q[s] \in ItemType
    BY DEF QueueOK
<1> HIDE DEF AgedStamp
<1> QED
    BY <1>1 DEF Aged, ItemType

(* Marking a packet as being sent moves nothing, and the frame it is marked *)
(* for has the packet's contents.                                           *)
LEMMA PreparedContents ==
    ASSUME NEW q, NEW t, QueueOK(q, t),
           NEW addr \in Clients \cup {SyncAddr}, CanPrepare(q, t, addr)
    PROVE  \E slot \in Slots :
              /\ q[slot].addr = addr
              /\ PreparedTx(q, t, addr) =
                    [slot |-> slot, to |-> addr, head |-> TRUE,
                     mac |-> q[slot].packet]
              /\ PreparedQueue(q, t, addr)[slot].addr = InFlight
              /\ PreparedQueue(q, t, addr)[slot].packet = q[slot].packet
              /\ \A s \in Slots :
                    s # slot => PreparedQueue(q, t, addr)[s] = q[s]
<1> DEFINE slot == BottomMost(SlotsFor(q, addr))
           r    == PreparedQueue(q, t, addr)
<1>1. slot \in Slots /\ q[slot].addr = addr
    BY BottomMostInSet DEF CanPrepare, SlotsFor
<1>2. q[slot] \in ItemType
    BY <1>1 DEF QueueOK
<1>3. PreparedTx(q, t, addr) = [slot |-> slot, to |-> addr, head |-> TRUE,
                                mac |-> q[slot].packet]
    BY DEF PreparedTx
<1>4. /\ \A s \in Slots : s # slot => r[s] = q[s]
      /\ r[slot] = [q[slot] EXCEPT !.addr = InFlight]
    BY <1>1 DEF PreparedQueue, QueueOK
<1>5. r[slot].addr = InFlight /\ r[slot].packet = q[slot].packet
    <2> HIDE DEF r, slot
    <2> QED
        BY <1>2, <1>4 DEF ItemType
<1> QED
    BY <1>1, <1>3, <1>4, <1>5
-----------------------------------------------------------------------------
(* Every operation on the queue keeps commands in one place, and makes none *)
(* wait that did not wait before.                                           *)
LEMMA EmptyQueueHeld ==
    ASSUME NEW q, NEW t, NEW m, NEW d, HeldOK(q, t, m, d)
    PROVE  /\ HeldOK(EmptyQueue, NotSending, m, d)
           /\ \A c \in Commands : ~WaitsIn(EmptyQueue, NotSending, c)
<1>1. \A s \in Slots : EmptyQueue[s].packet = <<>>
    BY FreeItemType DEF EmptyQueue
<1>2. NotSending.mac = <<>> /\ NotSending.slot = NoSlot
    BY DEF NotSending
<1> QED
    BY <1>1, <1>2, EmptyPacket DEF HeldOK, WaitsIn

(* Aging the stamps.                                                       *)
LEMMA AgedHeld ==
    ASSUME NEW q, NEW t, QueueOK(q, t), NEW k \in Nat,
           NEW m, NEW d, HeldOK(q, t, m, d)
    PROVE  /\ HeldOK(Aged(q, k), t, m, d)
           /\ \A c \in Commands : WaitsIn(Aged(q, k), t, c) => WaitsIn(q, t, c)
<1> DEFINE r == Aged(q, k)
<1>1. \A s \in Slots : r[s].addr = q[s].addr /\ r[s].packet = q[s].packet
    BY AgedContents
<1> HIDE DEF r
<1>2. HeldOK(r, t, m, d)
    BY <1>1 DEF HeldOK
<1>3. \A c \in Commands : WaitsIn(r, t, c) => WaitsIn(q, t, c)
    BY <1>1 DEF WaitsIn
<1> QED
    BY <1>2, <1>3 DEF r

(* prepare_to_send_to.                                                     *)
LEMMA PreparedHeld ==
    ASSUME NEW q, NEW t, QueueOK(q, t),
           NEW addr \in Clients \cup {SyncAddr},
           NEW m, NEW d, HeldOK(q, t, m, d)
    PROVE  /\ HeldOK(PreparedQueue(q, t, addr), PreparedTx(q, t, addr), m, d)
           /\ \A c \in Commands :
                 WaitsIn(PreparedQueue(q, t, addr), PreparedTx(q, t, addr), c)
                    => WaitsIn(q, t, c)
<1> DEFINE r == PreparedQueue(q, t, addr)
           u == PreparedTx(q, t, addr)
<1>1. CASE ~CanPrepare(q, t, addr)
    BY <1>1 DEF PreparedQueue, PreparedTx
<1>2. CASE CanPrepare(q, t, addr)
    <2>1. PICK slot \in Slots :
              /\ q[slot].addr = addr
              /\ u = [slot |-> slot, to |-> addr, head |-> TRUE,
                      mac |-> q[slot].packet]
              /\ r[slot].addr = InFlight
              /\ r[slot].packet = q[slot].packet
              /\ \A s \in Slots : s # slot => r[s] = q[s]
        BY <1>2, PreparedContents
    <2>2. u.slot = slot /\ u.mac = q[slot].packet
        BY <2>1
    <2>3. \A s \in Slots : r[s].packet = q[s].packet
        BY <2>1
    <2> HIDE DEF r, u
    <2>4. slot # NoSlot /\ addr # InFlight
        BY AddressesDiffer
    <2>5. HeldOK(r, u, m, d)
        BY <2>2, <2>3, <2>4 DEF HeldOK
    <2>6. \A c \in Commands : WaitsIn(r, u, c) => WaitsIn(q, t, c)
        BY <2>1, <2>2, <2>3, <2>4 DEF WaitsIn
    <2> QED
        BY <2>5, <2>6 DEF r, u
<1> QED
    BY <1>1, <1>2

(* want_to_send_for with a command that was in no packet before.           *)
LEMMA QueuedHeld ==
    ASSUME NEW q, NEW t, QueueOK(q, t),
           NEW addr \in Clients \cup {SyncAddr}, NEW cmd \in Fields,
           NEW asked, NEW pushed \in Nat, NEW curtime,
           NEW m, NEW n, NEW d, HeldOK(q, t, m, d), m \subseteq n,
           cmd \in Commands => cmd \in n /\ cmd \notin m
    PROVE  /\ HeldOK(Queued(q, addr, cmd, asked, pushed, curtime), t, n, d)
           /\ \A c \in Commands :
                 c # cmd /\ WaitsIn(Queued(q, addr, cmd, asked, pushed, curtime),
                                    t, c)
                    => WaitsIn(q, t, c)
<1> DEFINE r == Queued(q, addr, cmd, asked, pushed, curtime)
<1>1. CASE Usable(q, addr, asked, curtime) = {}
    <2>1. r = q
        BY <1>1 DEF Queued
    <2> HIDE DEF r
    <2>2. HeldOK(r, t, n, d)
        BY <2>1 DEF HeldOK
    <2> QED
        BY <2>1, <2>2 DEF r
<1>2. CASE Usable(q, addr, asked, curtime) # {}
    <2>0. PutIn(q, r, addr, cmd)
        BY <1>2, QueuedContents
    <2> HIDE DEF r
    <2>1. PICK slot \in Slots : \E p \in {<<>>, q[slot].packet} :
              /\ p # <<>> => q[slot].addr = addr
              /\ \A s \in Slots : s # slot => r[s] = q[s]
              /\ r[slot].addr = addr
              /\ r[slot].packet \in {p, Append(p, cmd)}
        BY <2>0 DEF PutIn
    <2>2. PICK p \in {<<>>, q[slot].packet} :
              /\ p # <<>> => q[slot].addr = addr
              /\ \A s \in Slots : s # slot => r[s] = q[s]
              /\ r[slot].addr = addr
              /\ r[slot].packet \in {p, Append(p, cmd)}
        BY <2>1
    <2>3. p \in Seq(Fields)
        <3>0. q[slot] \in ItemType
            BY DEF QueueOK
        <3>1. q[slot].packet \in Seq(Fields)
            BY <3>0 DEF ItemType
        <3>2. <<>> \in Seq(Fields)
            OBVIOUS
        <3>3. p = <<>> \/ p = q[slot].packet
            OBVIOUS
        <3> QED
            BY <3>1, <3>2, <3>3
    <2>4. \A c : InPacket(p, c) => InPacket(q[slot].packet, c) /\ q[slot].addr = addr
        BY <2>2, EmptyPacket
    <2>5. /\ Once(p)
          /\ cmd \in Commands => ~InPacket(p, cmd)
        BY <2>4, EmptyPacket DEF HeldOK
    <2>6. \A c : InPacket(r[slot].packet, c) => c = cmd \/ InPacket(p, c)
        BY <2>2, <2>3, PushedPacket
    <2>7. Once(r[slot].packet)
        BY <2>2, <2>3, <2>5, PushedPacket
    <2>8. addr # InFlight
        BY AddressesDiffer
    <2>9. ASSUME NEW s \in Slots, NEW c \in Commands, InPacket(r[s].packet, c)
          PROVE  \/ InPacket(q[s].packet, c) /\ (r[s].addr # InFlight => q[s].addr # InFlight)
                 \/ s = slot /\ c = cmd
        <3>1. CASE s # slot
            BY <2>2, <2>9, <3>1
        <3>2. CASE s = slot
            BY <2>4, <2>6, <2>8, <2>9, <3>2
        <3> QED
            BY <3>1, <3>2
    <2>10. cmd \in Commands => /\ \A s \in Slots : ~InPacket(q[s].packet, cmd)
                               /\ ~InPacket(t.mac, cmd) /\ ~SentIn(d, cmd)
        BY DEF HeldOK
    <2>11. HeldOK(r, t, n, d)
        <3>1. ASSUME NEW s \in Slots, NEW c \in Commands, InPacket(r[s].packet, c)
              PROVE  c \in n /\ ~SentIn(d, c)
            BY <2>9, <2>10, <3>1 DEF HeldOK
        <3>2. \A c \in Commands : InPacket(t.mac, c) => c \in n /\ ~SentIn(d, c)
            BY DEF HeldOK
        <3>3. \A s \in Slots : Once(r[s].packet)
            BY <2>2, <2>7 DEF HeldOK
        <3>4. ASSUME NEW s \in Slots, NEW z \in Slots, NEW c \in Commands,
                     InPacket(r[s].packet, c), InPacket(r[z].packet, c)
              PROVE  s = z
            BY <2>9, <2>10, <3>4 DEF HeldOK
        <3>5. ASSUME NEW s \in Slots, NEW c \in Commands,
                     InPacket(t.mac, c), InPacket(r[s].packet, c)
              PROVE  t.slot = s
            BY <2>9, <2>10, <3>5 DEF HeldOK
        <3>6. \A c \in Commands : SentIn(d, c) => c \in n
            BY DEF HeldOK
        <3>7. Once(t.mac) /\ (t.slot = NoSlot => t.mac = <<>>)
            BY DEF HeldOK
        <3> QED
            BY <3>1, <3>2, <3>3, <3>4, <3>5, <3>6, <3>7 DEF HeldOK
    <2>12. \A c \in Commands : c # cmd /\ WaitsIn(r, t, c) => WaitsIn(q, t, c)
        BY <2>9 DEF WaitsIn
    <2> QED
        BY <2>11, <2>12 DEF r
<1> QED
    BY <1>1, <1>2

-----------------------------------------------------------------------------
(* At the start no packet holds anything.                                  *)
LEMMA InitMail == Init => MailIInv
<1> SUFFICES ASSUME Init PROVE MailIInv
    OBVIOUS
<1>1. \A s \in Slots : que[s].packet = <<>>
    BY FreeItemType DEF Init, EmptyQueue
<1>2. tx.mac = <<>> /\ tx.slot = NoSlot
    BY DEF Init, NotSending
<1>3. \A a \in Clients : delivered[a] = <<>>
    BY DEF Init
<1> QED
    BY <1>1, <1>2, <1>3, InitIInv, EmptyPacket DEF MailIInv, HeldOK, SentIn

(* Each action in turn: a send_* call can make only its own command wait.  *)
LEMMA SendMail ==
    ASSUME MailIInv, NEW c \in Commands, Send(c)
    PROVE  /\ HeldOK(que', tx', made', delivered')
           /\ \A d \in Commands : d # c /\ Waits(d)' => Waits(d)
<1>1. talking \in Clients
    BY ClientsAssumption DEF Send
<1>2. c \in Fields /\ Asked[c] \in Nat /\ Pushed[c] \in Nat
    BY BytesAssumption DEF Fields
<1>3. QueueOK(que, tx) /\ HeldOK(que, tx, made, delivered)
    BY DEF MailIInv, IInv
<1> DEFINE r == Queued(que, talking, c, Asked[c], Pushed[c], 0)
<1>4. que' = r /\ UNCHANGED <<tx, delivered>> /\ made' = made \cup {c} /\ c \notin made
    BY DEF Send
<1>5. HeldOK(r, tx, made \cup {c}, delivered)
    BY <1>1, <1>2, <1>3, <1>4, QueuedHeld
<1>6. \A d \in Commands : d # c /\ WaitsIn(r, tx, d) => WaitsIn(que, tx, d)
    BY <1>1, <1>2, <1>3, <1>4, QueuedHeld
<1> HIDE DEF r
<1> QED
    BY <1>4, <1>5, <1>6 DEF Waits, WaitsIn

(* The end of an exchange makes nothing wait, it only moves a packet to the*)
(* air.                                                                    *)
LEMMA EndExchangeMail ==
    ASSUME MailIInv, EndExchange
    PROVE  /\ HeldOK(que', tx', made', delivered')
           /\ \A d \in Commands : Waits(d)' => Waits(d)
<1>1. talking \in Clients
    BY DEF MailIInv, IInv, TypeOK, EndExchange
<1>2. QueueOK(que, tx) /\ HeldOK(que, tx, made, delivered)
    BY DEF MailIInv, IInv
<1> DEFINE r == PreparedQueue(que, tx, talking)
           u == PreparedTx(que, tx, talking)
<1>3. que' = r /\ tx' = u /\ UNCHANGED <<made, delivered>>
    BY DEF EndExchange
<1>4. HeldOK(r, u, made, delivered)
    BY <1>1, <1>2, PreparedHeld
<1>5. \A d \in Commands : WaitsIn(r, u, d) => WaitsIn(que, tx, d)
    BY <1>1, <1>2, PreparedHeld
<1> HIDE DEF r, u
<1> QED
    BY <1>3, <1>4, <1>5 DEF Waits, WaitsIn

(* Nor does a new second, with or without its sync packet or the clearing. *)
LEMMA NewSecondMail ==
    ASSUME MailIInv, NEW k \in 1 .. MaxStall, NewSecond(k)
    PROVE  /\ HeldOK(que', tx', made', delivered')
           /\ \A d \in Commands : Waits(d)' => Waits(d)
<1> DEFINE t == (ss + k) % Minute
           a == Aged(que, k)
           q == Cleared(a, t)
           u == ClearedTx(t)
           w == WithSync(q)
           r == PreparedQueue(w, u, SyncAddr)
           v == PreparedTx(w, u, SyncAddr)
<1>1. k \in Nat /\ QueueOK(que, tx) /\ HeldOK(que, tx, made, delivered)
    BY TimeAssumption DEF MailIInv, IInv
<1>2. /\ QueueOK(a, tx) /\ HeldOK(a, tx, made, delivered)
      /\ \A d \in Commands : WaitsIn(a, tx, d) => WaitsIn(que, tx, d)
    BY <1>1, AgedOK, AgedHeld
<1>3. /\ QueueOK(q, u) /\ HeldOK(q, u, made, delivered)
      /\ \A d \in Commands : WaitsIn(q, u, d) => WaitsIn(a, tx, d)
    <2>1. CASE t = 0
        <3>1. q = EmptyQueue /\ u = NotSending
            BY <2>1 DEF Cleared, ClearedTx
        <3> HIDE DEF q, u
        <3> QED
            BY <3>1, <1>2, EmptyQueueOK, EmptyQueueHeld
    <2>2. CASE t # 0
        <3>1. q = a /\ u = tx
            BY <2>2 DEF Cleared, ClearedTx
        <3> HIDE DEF q, u
        <3> QED
            BY <3>1, <1>2
    <2> QED
        BY <2>1, <2>2
<1> HIDE DEF q, u, a
<1>4. SyncAddr \in Clients \cup {SyncAddr} /\ SyncCmd \in Fields
      /\ SyncCmd \notin Commands /\ SyncAsked \in Nat /\ SyncPushed \in Nat
      /\ SyncPushed <= SyncAsked /\ SyncAsked <= PacketLen
      /\ SyncAddr \notin Clients
    BY BytesAssumption, AddressesDiffer DEF Fields
<1>5. QueueOK(w, u)
    BY <1>3, <1>4, QueuedOK DEF WithSync
<1>6. HeldOK(w, u, made, delivered)
    BY <1>3, <1>4, QueuedHeld DEF WithSync
<1>7. \A d \in Commands : WaitsIn(w, u, d) => WaitsIn(q, u, d)
    <2>1. \A d \in Commands : d # SyncCmd /\ WaitsIn(w, u, d) => WaitsIn(q, u, d)
        BY <1>3, <1>4, QueuedHeld DEF WithSync
    <2> QED
        BY <1>4, <2>1
<1> HIDE DEF w
<1>8. /\ HeldOK(r, v, made, delivered)
      /\ \A d \in Commands : WaitsIn(r, v, d) => WaitsIn(w, u, d)
    BY <1>4, <1>5, <1>6, PreparedHeld
<1>9. \/ que' = r /\ tx' = v
      \/ que' = a /\ tx' = tx
    <2>1. que' = QueueAt(t, k) /\ tx' = TxAt(t, k)
        BY DEF NewSecond
    <2> HIDE DEF t
    <2> QED
        BY <2>1 DEF QueueAt, TxAt, r, v, w, q, u, a
<1>10. UNCHANGED <<made, delivered>>
    BY DEF NewSecond
<1>11. HeldOK(que', tx', made', delivered')
    <2> HIDE DEF r, v
    <2> QED
        BY <1>2, <1>8, <1>9, <1>10
<1>12. \A d \in Commands : WaitsIn(que', tx', d) => WaitsIn(que, tx, d)
    <2> HIDE DEF r, v
    <2> QED
        BY <1>2, <1>3, <1>7, <1>8, <1>9
<1> QED
    BY <1>11, <1>12 DEF Waits, WaitsIn

(* Nor does the prologue.                                                  *)
LEMMA PopPrologueMail ==
    ASSUME MailIInv, PopPrologue
    PROVE  /\ HeldOK(que', tx', made', delivered')
           /\ \A d \in Commands : Waits(d)' => Waits(d)
<1>1. tx'.slot = tx.slot /\ tx'.mac = tx.mac
    BY DEF MailIInv, IInv, TypeOK, TxType, PopPrologue
<1>2. UNCHANGED <<que, made, delivered>>
    BY DEF PopPrologue
<1> QED
    BY <1>1, <1>2 DEF MailIInv, HeldOK, Waits

(* Nor does a field of a packet.                                           *)
LEMMA PopPacketMail ==
    ASSUME MailIInv, PopPacket
    PROVE  /\ HeldOK(que', tx', made', delivered')
           /\ \A d \in Commands : Waits(d)' => Waits(d)
<1> DEFINE slot == tx.slot
           p    == que[slot].packet
<1>1. slot \in Slots /\ que[slot] \in ItemType
    BY DEF MailIInv, IInv, TypeOK, TxType, PopPacket
<1>2. p \in Seq(Fields) /\ p # <<>>
    BY <1>1 DEF ItemType, PopPacket
<1>3. /\ \A s \in Slots : s # slot => que'[s] = que[s]
      /\ que'[slot] = [que[slot] EXCEPT !.packet = Tail(p)]
    BY <1>1 DEF MailIInv, IInv, TypeOK, PopPacket
<1>4. que'[slot].addr = que[slot].addr /\ que'[slot].packet = Tail(p)
    BY <1>1, <1>3 DEF ItemType
<1>5. /\ \A c : InPacket(Tail(p), c) => InPacket(p, c)
      /\ Once(p) => Once(Tail(p))
    BY <1>2, PoppedPacket
<1>6. UNCHANGED <<tx, made, delivered>>
    BY DEF PopPacket
<1>7. \A s \in Slots :
         /\ que'[s].addr = que[s].addr
         /\ \A c : InPacket(que'[s].packet, c) => InPacket(que[s].packet, c)
         /\ Once(que[s].packet) => Once(que'[s].packet)
    <2> HIDE DEF slot, p
    <2> QED
        BY <1>3, <1>4, <1>5 DEF p
<1>8. HeldOK(que', tx', made', delivered')
    <2>1. HeldOK(que, tx, made, delivered)
        BY DEF MailIInv
    <2> QED
        BY <1>6, <1>7, <2>1 DEF HeldOK
<1>9. \A d \in Commands : Waits(d)' => Waits(d)
    BY <1>6, <1>7 DEF Waits
<1> QED
    BY <1>8, <1>9

(* The frame that the last field completes is valid for a client. *)
Arrives == tx.to \in Clients /\ air = tx.mac

(* What the pop of the last field does: its slot is free, and the packet,  *)
(* if it counts, has arrived.                                              *)
LEMMA PopCmacFacts ==
    ASSUME MailIInv, PopCmac
    PROVE  /\ tx.slot \in Slots /\ que[tx.slot].packet = <<>>
           /\ que'[tx.slot].packet = <<>>
           /\ \A s \in Slots : s # tx.slot => que'[s] = que[s]
           /\ tx'.slot = NoSlot /\ tx'.mac = <<>>
           /\ made' = made
           /\ ~Arrives => delivered' = delivered
           /\ Arrives => /\ \A a \in Clients : a # tx.to => delivered'[a] = delivered[a]
                         /\ delivered' = [delivered EXCEPT ![tx.to] = @ \o tx.mac]
                         /\ delivered'[tx.to] = delivered[tx.to] \o tx.mac
                         /\ delivered[tx.to] \in Seq(Commands)
                         /\ tx.mac \in Seq(Commands)
                         /\ PacketFor(tx.mac, tx.to)
<1>1. tx.slot \in Slots /\ que[tx.slot].packet = <<>>
    BY DEF MailIInv, IInv, TypeOK, TxType, PopCmac
<1>2. que' = [que EXCEPT ![tx.slot] = FreeItem] /\ tx' = NotSending /\ made' = made
    BY DEF PopCmac
<1>3. /\ que'[tx.slot].packet = <<>>
      /\ \A s \in Slots : s # tx.slot => que'[s] = que[s]
    BY <1>1, <1>2, FreeItemType DEF MailIInv, IInv, TypeOK
<1>4. tx'.slot = NoSlot /\ tx'.mac = <<>>
    BY <1>2 DEF NotSending
<1>5. ~Arrives => delivered' = delivered
    BY DEF PopCmac, Arrives
<1>6. ASSUME Arrives
      PROVE  /\ \A a \in Clients : a # tx.to => delivered'[a] = delivered[a]
             /\ delivered' = [delivered EXCEPT ![tx.to] = @ \o tx.mac]
             /\ delivered'[tx.to] = delivered[tx.to] \o tx.mac
             /\ delivered[tx.to] \in Seq(Commands)
             /\ tx.mac \in Seq(Commands)
             /\ PacketFor(tx.mac, tx.to)
    <2>1. delivered' = [delivered EXCEPT ![tx.to] = @ \o tx.mac]
        BY <1>6 DEF PopCmac, Arrives
    <2>2. delivered \in [Clients -> Seq(Commands)] /\ tx.to \in Clients
        BY <1>6 DEF MailIInv, IInv, TypeOK, Arrives
    <2>3. tx.mac \in Seq(Fields) /\ PacketFor(tx.mac, tx.to)
        BY <1>6 DEF MailIInv, IInv, TypeOK, QueueOK, TxType, Arrives
    <2>4. tx.mac \in Seq(Commands)
        BY <2>3 DEF PacketFor
    <2> QED
        BY <2>1, <2>2, <2>3, <2>4
<1> QED
    BY <1>1, <1>2, <1>3, <1>4, <1>5, <1>6

(* A packet received after others adds its commands to what was received.  *)
LEMMA JoinedPacket ==
    ASSUME NEW p \in Seq(Commands), NEW r \in Seq(Commands)
    PROVE  \A c : InPacket(p \o r, c) <=> InPacket(p, c) \/ InPacket(r, c)
<1> DEFINE j == p \o r
<1>1. /\ DOMAIN j = 1 .. Len(p) + Len(r)
      /\ DOMAIN p = 1 .. Len(p) /\ DOMAIN r = 1 .. Len(r)
      /\ Len(p) \in Nat /\ Len(r) \in Nat
      /\ \A i \in 1 .. Len(p) : j[i] = p[i]
      /\ \A i \in 1 .. Len(r) : j[Len(p) + i] = r[i]
    OBVIOUS
<1> HIDE DEF j
<1>2. ASSUME NEW c, InPacket(j, c) PROVE InPacket(p, c) \/ InPacket(r, c)
    <2>1. PICK i \in 1 .. Len(p) + Len(r) : j[i] = c
        BY <1>1, <1>2 DEF InPacket
    <2>2. CASE i \in 1 .. Len(p)
        BY <1>1, <2>1, <2>2 DEF InPacket
    <2>3. CASE i \notin 1 .. Len(p)
        <3>1. i - Len(p) \in 1 .. Len(r) /\ Len(p) + (i - Len(p)) = i
            BY <1>1, <2>3
        <3>2. r[i - Len(p)] = c
            BY <1>1, <2>1, <3>1
        <3> QED
            BY <1>1, <3>1, <3>2 DEF InPacket
    <2> QED
        BY <2>2, <2>3
<1>3. ASSUME NEW c, InPacket(p, c) PROVE InPacket(j, c)
    <2>1. PICK i \in 1 .. Len(p) : p[i] = c
        BY <1>1, <1>3 DEF InPacket
    <2>2. i \in 1 .. Len(p) + Len(r) /\ j[i] = c
        BY <1>1, <2>1
    <2> QED
        BY <1>1, <2>2 DEF InPacket
<1>4. ASSUME NEW c, InPacket(r, c) PROVE InPacket(j, c)
    <2>1. PICK i \in 1 .. Len(r) : r[i] = c
        BY <1>1, <1>4 DEF InPacket
    <2>2. Len(p) + i \in 1 .. Len(p) + Len(r) /\ j[Len(p) + i] = c
        BY <1>1, <2>1
    <2> QED
        BY <1>1, <2>2 DEF InPacket
<1> QED
    BY <1>2, <1>3, <1>4 DEF j

(* What a client has received after the last field of a frame.             *)
LEMMA SentAfterPop ==
    ASSUME MailIInv, PopCmac
    PROVE  \A c \in Commands :
              SentIn(delivered', c)
                 <=> SentIn(delivered, c) \/ (Arrives /\ InPacket(tx.mac, c))
<1>1. CASE ~Arrives
    BY <1>1, PopCmacFacts
<1>2. CASE Arrives
    <2>1. tx.to \in Clients
        BY <1>2 DEF Arrives
    <2>2. \A c : InPacket(delivered'[tx.to], c)
                   <=> InPacket(delivered[tx.to], c) \/ InPacket(tx.mac, c)
        <3>1. /\ delivered'[tx.to] = delivered[tx.to] \o tx.mac
              /\ delivered[tx.to] \in Seq(Commands) /\ tx.mac \in Seq(Commands)
            BY <1>2, PopCmacFacts
        <3>2. \A c : InPacket(delivered[tx.to] \o tx.mac, c)
                       <=> InPacket(delivered[tx.to], c) \/ InPacket(tx.mac, c)
            BY <3>1, JoinedPacket
        <3> QED
            BY <3>1, <3>2
    <2>3. \A a \in Clients : a # tx.to => delivered'[a] = delivered[a]
        BY <1>2, PopCmacFacts
    <2> QED
        BY <1>2, <2>1, <2>2, <2>3 DEF SentIn
<1> QED
    BY <1>1, <1>2

(* Commands wait after the pop if they waited before and were not in the    *)
(* frame it completed.                                                      *)
LEMMA PopCmacMail ==
    ASSUME MailIInv, PopCmac
    PROVE  /\ HeldOK(que', tx', made', delivered')
           /\ \A c \in Commands : Waits(c)' => Waits(c) /\ ~InPacket(tx.mac, c)
<1>1. HeldOK(que, tx, made, delivered)
    BY DEF MailIInv
<1>2. /\ tx.slot \in Slots /\ que[tx.slot].packet = <<>>
      /\ que'[tx.slot].packet = <<>>
      /\ \A s \in Slots : s # tx.slot => que'[s] = que[s]
      /\ tx'.slot = NoSlot /\ tx'.mac = <<>> /\ made' = made
    BY PopCmacFacts
<1>3. ASSUME NEW s \in Slots, NEW c \in Commands, InPacket(que'[s].packet, c)
      PROVE  s # tx.slot /\ que'[s] = que[s] /\ InPacket(que[s].packet, c)
             /\ ~InPacket(tx.mac, c)
    <2>1. s # tx.slot /\ que'[s] = que[s]
        BY <1>2, <1>3, EmptyPacket
    <2> QED
        BY <1>1, <1>3, <2>1 DEF HeldOK
<1>4. \A c \in Commands : SentIn(delivered', c)
         <=> SentIn(delivered, c) \/ (Arrives /\ InPacket(tx.mac, c))
    BY SentAfterPop
<1>5. HeldOK(que', tx', made', delivered')
    <2>1. \A s \in Slots, c \in Commands :
             InPacket(que'[s].packet, c) => c \in made' /\ ~SentIn(delivered', c)
        BY <1>1, <1>2, <1>3, <1>4 DEF HeldOK
    <2>2. \A c \in Commands : ~InPacket(tx'.mac, c)
        BY <1>2, EmptyPacket
    <2>3. \A s \in Slots : Once(que'[s].packet)
        BY <1>1, <1>2, EmptyPacket DEF HeldOK
    <2>4. Once(tx'.mac)
        BY <1>2, EmptyPacket
    <2>5. \A s, r \in Slots, c \in Commands :
             InPacket(que'[s].packet, c) /\ InPacket(que'[r].packet, c) => s = r
        BY <1>1, <1>3 DEF HeldOK
    <2>6. \A c \in Commands : SentIn(delivered', c) => c \in made'
        BY <1>1, <1>2, <1>4 DEF HeldOK
    <2> QED
        BY <1>2, <2>1, <2>2, <2>3, <2>4, <2>5, <2>6 DEF HeldOK
<1>6. \A c \in Commands : Waits(c)' => Waits(c) /\ ~InPacket(tx.mac, c)
    BY <1>2, <1>3 DEF Waits
<1> QED
    BY <1>5, <1>6

(* The strengthened invariant is inductive.                                *)
LEMMA NextMail == MailIInv /\ [Next]_vars => MailIInv'
<1> SUFFICES ASSUME MailIInv, [Next]_vars PROVE HeldOK(que', tx', made', delivered')
    BY NextIInv DEF MailIInv
<1>1. CASE \E a \in Clients : StartExchange(a)
    BY <1>1 DEF MailIInv, HeldOK, StartExchange
<1>2. CASE \E c \in Commands : Send(c)
    BY <1>2, SendMail
<1>3. CASE EndExchange
    BY <1>3, EndExchangeMail
<1>4. CASE SomeSecond
    BY <1>4, NewSecondMail DEF SomeSecond
<1>5. CASE Pop
    BY <1>5, PopPrologueMail, PopPacketMail, PopCmacMail DEF Pop
<1>6. CASE UNCHANGED vars
    BY <1>6 DEF vars, MailIInv, HeldOK
<1> QED
    BY <1>1, <1>2, <1>3, <1>4, <1>5, <1>6 DEF Next

(* It holds throughout.                                                    *)
LEMMA MailInvariance == Spec => []MailIInv
BY InitMail, NextMail, PTL DEF Spec
-----------------------------------------------------------------------------
(***************************************************************************)
(* The refinement: the mailbox's view of every command.                    *)
(***************************************************************************)
Post == [c \in Commands |-> StatusOf(c)]

(* How the status of a command follows from the queue: the four cases      *)
(* exclude each other because a command that waits was made and not        *)
(* received.                                                               *)
LEMMA PostFacts ==
    ASSUME MailIInv, NEW c \in Commands
    PROVE  /\ Post[c] = "sent" <=> SentIn(delivered, c)
           /\ Post[c] = "new" <=> c \notin made
           /\ Post[c] = "waiting" <=> Waits(c)
           /\ Post[c] = "lost" <=> c \in made /\ ~SentIn(delivered, c) /\ ~Waits(c)
           /\ Post[c] \in {"sent", "new", "waiting", "lost"}
<1>1. HeldOK(que, tx, made, delivered)
    BY DEF MailIInv
<1>2. Waits(c) => c \in made /\ ~SentIn(delivered, c)
    BY <1>1 DEF HeldOK, Waits
<1>3. SentIn(delivered, c) => c \in made
    BY <1>1 DEF HeldOK
<1>4. Post[c] = IF SentIn(delivered, c) THEN "sent"
                ELSE IF c \notin made THEN "new"
                ELSE IF Waits(c) THEN "waiting" ELSE "lost"
    BY DEF Post, StatusOf, SentIn
<1> HIDE DEF Post
<1> QED
    BY <1>2, <1>3, <1>4

(* The same in the next state.                                             *)
LEMMA PostFactsNext == MailIInv' =>
    \A c \in Commands :
       /\ Post'[c] = "sent" <=> SentIn(delivered', c)
       /\ Post'[c] = "new" <=> c \notin made'
       /\ Post'[c] = "waiting" <=> Waits(c)'
       /\ Post'[c] = "lost" <=> c \in made' /\ ~SentIn(delivered', c) /\ ~Waits(c)'
       /\ Post'[c] \in {"sent", "new", "waiting", "lost"}
<1>1. MailIInv =>
       \A c \in Commands :
       /\ Post[c] = "sent" <=> SentIn(delivered, c)
       /\ Post[c] = "new" <=> c \notin made
       /\ Post[c] = "waiting" <=> Waits(c)
       /\ Post[c] = "lost" <=> c \in made /\ ~SentIn(delivered, c) /\ ~Waits(c)
       /\ Post[c] \in {"sent", "new", "waiting", "lost"}
    BY PostFacts
<1>2. (MailIInv =>
       \A c \in Commands :
       /\ Post[c] = "sent" <=> SentIn(delivered, c)
       /\ Post[c] = "new" <=> c \notin made
       /\ Post[c] = "waiting" <=> Waits(c)
       /\ Post[c] = "lost" <=> c \in made /\ ~SentIn(delivered, c) /\ ~Waits(c)
       /\ Post[c] \in {"sent", "new", "waiting", "lost"})'
    BY <1>1, PTL
<1> QED
    BY <1>2 DEF SentIn

(* The empty queue is the empty mailbox.                                   *)
LEMMA InitPost == Init => MB!Init
<1> SUFFICES ASSUME Init PROVE MB!Init
    OBVIOUS
<1>1. \A a \in Clients : delivered[a] = <<>>
    BY DEF Init
<1>2. \A c \in Commands : ~SentIn(delivered, c) /\ c \notin made
    BY <1>1, EmptyPacket DEF Init, SentIn
<1>3. [c \in Commands |-> StatusOf(c)] = [c \in Commands |-> "new"]
    BY <1>2 DEF StatusOf, SentIn
<1> QED
    BY <1>3 DEF Init, MB!Init

(* Whatever makes no command wait and delivers nothing loses some at most. *)
LEMMA LosesOnly ==
    ASSUME MailIInv, MailIInv', UNCHANGED <<made, delivered>>,
           \A c \in Commands : Waits(c)' => Waits(c)
    PROVE  MB!Lose
<1> DEFINE S == {c \in Commands : Waits(c) /\ ~Waits(c)'}
<1>1. S \in SUBSET MB!Waiting
    BY PostFacts DEF MB!Waiting, Post
<1>2. Post' = [c \in Commands |-> IF c \in S THEN "lost" ELSE Post[c]]
    <2>1. \A c \in Commands :
             Post'[c] = IF c \in S THEN "lost" ELSE Post[c]
        BY PostFacts, PostFactsNext
    <2>2. Post' = [c \in Commands |-> Post'[c]]
        BY DEF Post
    <2> HIDE DEF S
    <2> QED
        BY <2>1, <2>2
<1> HIDE DEF S
<1> QED
    BY <1>1, <1>2 DEF MB!Lose, Post

(* A send_* call is a Put: its command waits afterwards, or was refused,   *)
(* and those whose packet it pushed out are lost.                          *)
LEMMA SendPuts ==
    ASSUME MailIInv, MailIInv', NEW c \in Commands, Send(c)
    PROVE  MB!Put(c)
<1> DEFINE S  == {d \in Commands : d # c /\ Waits(d) /\ ~Waits(d)'}
           st == IF Waits(c)' THEN "waiting" ELSE "lost"
<1>1. \A d \in Commands : d # c /\ Waits(d)' => Waits(d)
    BY SendMail
<1>2. c \notin made /\ made' = made \cup {c} /\ delivered' = delivered
    BY DEF Send
<1>3. S \in SUBSET MB!Waiting /\ st \in {"waiting", "lost"}
    BY PostFacts DEF MB!Waiting, Post
<1>4. ~SentIn(delivered, c) /\ Post[c] = "new"
    BY <1>2, PostFacts DEF MailIInv, HeldOK
<1>5. Post' = [d \in Commands |-> IF d = c THEN st
                                  ELSE IF d \in S THEN "lost" ELSE Post[d]]
    <2>1. ASSUME NEW d \in Commands
          PROVE  Post'[d] = IF d = c THEN st
                            ELSE IF d \in S THEN "lost" ELSE Post[d]
        <3>1. CASE d = c
            BY <1>2, <1>4, <3>1, PostFactsNext
        <3>2. CASE d # c
            BY <1>1, <1>2, <3>2, PostFacts, PostFactsNext
        <3> QED
            BY <3>1, <3>2
    <2>2. Post' = [d \in Commands |-> Post'[d]]
        BY DEF Post
    <2> HIDE DEF S, st
    <2> QED
        BY <2>1, <2>2
<1> HIDE DEF S, st
<1> QED
    BY <1>2, <1>3, <1>4, <1>5 DEF MB!Put, MB!Lost, Post

(* The last field of a valid frame is a Deliver of the commands in it.     *)
LEMMA PopCmacDelivers ==
    ASSUME MailIInv, MailIInv', PopCmac, Arrives, tx.mac # <<>>
    PROVE  MB!Deliver(tx.to, MB!NewlyDelivered(tx.to))
<1> DEFINE p == tx.mac
           a == tx.to
<1>1. /\ a \in Clients /\ p \in Seq(Commands) /\ PacketFor(p, a)
      /\ delivered[a] \in Seq(Commands)
      /\ delivered' = [delivered EXCEPT ![a] = @ \o p]
      /\ delivered'[a] = delivered[a] \o p
    BY PopCmacFacts DEF Arrives
<1>2. MB!NewlyDelivered(a) = p
    <2> DEFINE d == delivered[a]
    <2>1. SubSeq(d \o p, Len(d) + 1, Len(d \o p)) = p
        <3> HIDE DEF d, p
        <3>0. d \in Seq(Commands) /\ p \in Seq(Commands)
            BY <1>1 DEF d, p
        <3>1. Len(d) \in Nat /\ Len(p) \in Nat /\ Len(d \o p) = Len(d) + Len(p)
            BY <3>0
        <3> DEFINE r == SubSeq(d \o p, Len(d) + 1, Len(d \o p))
        <3>2. Len(r) = Len(p) /\ r \in Seq(Commands)
            BY <3>0, <3>1
        <3>3. \A i \in 1 .. Len(p) : r[i] = p[i]
            BY <3>0, <3>1
        <3> HIDE DEF r
        <3>4. r = p
            BY <3>0, <3>2, <3>3
        <3> QED
            BY <3>4 DEF r
    <2> QED
        BY <1>1, <2>1 DEF MB!NewlyDelivered
<1> HIDE DEF p, a
<1>3. ASSUME NEW i \in DOMAIN p
      PROVE  /\ p[i] \in MB!Waiting /\ Dest[p[i]] = a
             /\ \A j \in DOMAIN p : p[i] = p[j] => i = j
    <2>1. p[i] \in Commands /\ Dest[p[i]] = a
        BY <1>1, <1>3 DEF PacketFor
    <2>2. InPacket(p, p[i])
        BY <1>3 DEF InPacket
    <2>3. Waits(p[i])
        BY <2>1, <2>2, PopCmacFacts, AddressesDiffer DEF Waits, p
    <2>4. Post[p[i]] = "waiting"
        BY <2>1, <2>3, PostFacts
    <2>5. Once(p)
        BY DEF MailIInv, HeldOK, p
    <2> QED
        BY <2>1, <2>4, <2>5 DEF MB!Waiting, Post, Once
<1>4. Post' = [c \in Commands |-> IF \E i \in DOMAIN p : p[i] = c THEN "sent"
                                  ELSE Post[c]]
    <2>1. ASSUME NEW c \in Commands
          PROVE  Post'[c] = IF \E i \in DOMAIN p : p[i] = c THEN "sent" ELSE Post[c]
        <3>1. SentIn(delivered', c) <=> SentIn(delivered, c) \/ InPacket(p, c)
            BY SentAfterPop DEF p
        <3>2. CASE InPacket(p, c)
            BY <3>1, <3>2, PostFactsNext DEF InPacket
        <3>3. CASE ~InPacket(p, c)
            <4>1. Waits(c)' => Waits(c)
                BY PopCmacMail
            <4>2. Waits(c) => Waits(c)'
                BY <3>3, PopCmacFacts, EmptyPacket DEF Waits, p
            <4>3. made' = made
                BY PopCmacFacts
            <4>4. Post'[c] = Post[c]
                BY <3>1, <3>3, <4>1, <4>2, <4>3, PostFacts, PostFactsNext
            <4> QED
                BY <3>3, <4>4 DEF InPacket
        <3> QED
            BY <3>2, <3>3
    <2>2. Post' = [c \in Commands |-> Post'[c]]
        BY DEF Post
    <2> HIDE DEF Post
    <2> QED
        BY <2>1, <2>2
<1>5. p # <<>>
    BY DEF p
<1>6. MB!Deliver(a, p)
    BY <1>1, <1>3, <1>4, <1>5 DEF MB!Deliver, Post
<1> QED
    BY <1>2, <1>6 DEF a

(* Every step is a step of the mailbox or changes nothing it sees.         *)
LEMMA NextPost == MailIInv /\ MailIInv' /\ [Next]_vars => [MB!Next]_(MB!mailVars)
<1> SUFFICES ASSUME MailIInv, MailIInv', [Next]_vars
             PROVE  MB!Next \/ UNCHANGED MB!mailVars
    OBVIOUS
<1>1. CASE \E a \in Clients : StartExchange(a)
    <2>1. UNCHANGED <<que, tx, made, delivered>>
        BY <1>1 DEF StartExchange
    <2>2. MB!Lose
        BY <2>1, LosesOnly DEF Waits
    <2> QED
        BY <2>2 DEF MB!Next
<1>2. CASE \E c \in Commands : Send(c)
    BY <1>2, SendPuts DEF MB!Next
<1>3. CASE EndExchange
    <2>1. UNCHANGED <<made, delivered>>
        BY <1>3 DEF EndExchange
    <2> QED
        BY <1>3, <2>1, EndExchangeMail, LosesOnly DEF MB!Next
<1>4. CASE SomeSecond
    <2>1. PICK k \in 1 .. MaxStall : NewSecond(k)
        BY <1>4 DEF SomeSecond
    <2>2. UNCHANGED <<made, delivered>>
        BY <2>1 DEF NewSecond
    <2> QED
        BY <2>1, <2>2, NewSecondMail, LosesOnly DEF MB!Next
<1>5. CASE PopPrologue
    <2>1. UNCHANGED <<made, delivered>>
        BY <1>5 DEF PopPrologue
    <2> QED
        BY <1>5, <2>1, PopPrologueMail, LosesOnly DEF MB!Next
<1>6. CASE PopPacket
    <2>1. UNCHANGED <<made, delivered>>
        BY <1>6 DEF PopPacket
    <2> QED
        BY <1>6, <2>1, PopPacketMail, LosesOnly DEF MB!Next
<1>7. CASE PopCmac
    <2>1. CASE Arrives /\ tx.mac # <<>>
        <3>1. tx.to \in Clients
            BY <2>1 DEF Arrives
        <3>2. MB!Deliver(tx.to, MB!NewlyDelivered(tx.to))
            BY <1>7, <2>1, PopCmacDelivers
        <3> QED
            BY <3>1, <3>2 DEF MB!Next
    <2>2. CASE ~(Arrives /\ tx.mac # <<>>)
        <3>1. UNCHANGED <<made, delivered>>
            <4>1. CASE ~Arrives
                BY <1>7, <4>1, PopCmacFacts
            <4>2. CASE Arrives
                <5>1. tx.mac = <<>>
                    BY <2>2, <4>2
                <5>2. /\ delivered' = [delivered EXCEPT ![tx.to] = @ \o tx.mac]
                      /\ delivered[tx.to] \in Seq(Commands)
                      /\ made' = made
                    BY <1>7, <4>2, PopCmacFacts
                <5>3. delivered[tx.to] \o <<>> = delivered[tx.to]
                    BY <5>2
                <5>4. delivered \in [Clients -> Seq(Commands)] /\ tx.to \in Clients
                    BY <4>2 DEF MailIInv, IInv, TypeOK, Arrives
                <5> QED
                    BY <5>1, <5>2, <5>3, <5>4
            <4> QED
                BY <4>1, <4>2
        <3> QED
            BY <1>7, <3>1, PopCmacMail, LosesOnly DEF MB!Next
    <2> QED
        BY <2>1, <2>2
<1>8. CASE UNCHANGED vars
    <2>1. UNCHANGED <<que, tx, made, delivered>>
        BY <1>8 DEF vars
    <2> QED
        BY <2>1, LosesOnly DEF Waits, MB!Next
<1> QED
    BY <1>1, <1>2, <1>3, <1>4, <1>5, <1>6, <1>7, <1>8 DEF Next, Pop

(* The queue with its clients is a mailbox: what the callers of the send_*  *)
(* methods hand over reaches its addressee at most once, in one piece, or   *)
(* is lost, whatever is evicted, cleared or refused while it is on its way. *)
THEOREM QueueIsMailbox == Spec => ImplementsMailbox
BY InitPost, NextPost, MailInvariance, PTL DEF Spec, ImplementsMailbox, MB!Spec
-----------------------------------------------------------------------------
(* While a client is served, want_to_send_for pushes no packet of a client  *)
(* out of the queue before it is too old: the calls of an exchange are made *)
(* at rd_time 0, and the packet's own stamp is what decides.                *)
THEOREM FreshPacketsStay == Spec => ServingKeepsFresh
<1> DEFINE Kept == \A s \in Slots :
                      (que[s].addr # Free /\ que[s].time + MaxAge >= 0)
                         => que'[s].addr \in {que[s].addr, InFlight}
<1>1. IInv /\ [Next]_vars => [talking # Nobody => Kept]_vars
    <2> SUFFICES ASSUME IInv, Next, talking # Nobody PROVE Kept
        OBVIOUS
    <2>1. ASSUME NEW c \in Commands, Send(c) PROVE Kept
        <3> SUFFICES ASSUME NEW s \in Slots, que[s].addr # Free,
                            que[s].time + MaxAge >= 0
                     PROVE  que'[s].addr = que[s].addr
            OBVIOUS
        <3> DEFINE r == Queued(que, talking, c, Asked[c], Pushed[c], 0)
        <3>1. que' = r /\ QueueOK(que, tx) /\ Pushed[c] \in Nat
            BY <2>1, BytesAssumption DEF Send, IInv
        <3>2. CASE Usable(que, talking, Asked[c], 0) = {}
            BY <3>1, <3>2 DEF Queued
        <3>3. CASE Usable(que, talking, Asked[c], 0) # {}
            <4> DEFINE slot == TopMost(Usable(que, talking, Asked[c], 0))
                       item == Opened(que, talking, Asked[c], 0, slot)
                       new  == [item EXCEPT !.top = @ + Pushed[c],
                                            !.packet = IF Pushed[c] = 0 THEN @
                                                       ELSE Append(@, c)]
            <4>1. slot \in Usable(que, talking, Asked[c], 0) /\ slot \in Slots
                BY <3>3, TopMostInSet DEF Usable
            <4>2. que' = [que EXCEPT ![slot] = new]
                BY <3>1, <3>3 DEF Queued
            <4>3. CASE s = slot
                <5>1. que[s].time \in Int
                    <6>1. que[s] \in ItemType
                        BY <3>1 DEF QueueOK
                    <6> QED
                        BY <6>1, QueueAssumption DEF ItemType
                <5>2. ~Reusable(que, 0, s)
                    BY <5>1, QueueAssumption DEF Reusable
                <5>3. Appendable(que, talking, Asked[c], s)
                    BY <4>1, <4>3, <5>2 DEF Usable
                <5>4. item = que[s] /\ que[s] \in ItemType
                    BY <3>1, <4>3, <5>3 DEF Opened, QueueOK
                <5> HIDE DEF item, slot
                <5>5. new.addr = que[s].addr
                    BY <5>4 DEF ItemType
                <5> HIDE DEF new
                <5> QED
                    BY <3>1, <4>1, <4>2, <4>3, <5>5 DEF QueueOK
            <4>4. CASE s # slot
                <5> HIDE DEF new, slot
                <5> QED
                    BY <3>1, <4>2, <4>4 DEF QueueOK
            <4> QED
                BY <4>3, <4>4
        <3> QED
            BY <3>2, <3>3
    <2>2. CASE EndExchange
        <3>1. QueueOK(que, tx) /\ talking \in Clients \cup {SyncAddr}
              /\ que' = PreparedQueue(que, tx, talking)
            BY <2>2 DEF IInv, TypeOK, EndExchange
        <3>2. CASE CanPrepare(que, tx, talking)
            BY <3>1, <3>2, PreparedContents
        <3>3. CASE ~CanPrepare(que, tx, talking)
            BY <3>1, <3>3 DEF PreparedQueue
        <3> QED
            BY <3>2, <3>3
    <2> QED
        BY <2>1, <2>2 DEF Next, StartExchange, SomeSecond, NewSecond, Pop,
                          PopPrologue, PopPacket, PopCmac
<1> QED
    BY <1>1, IInvariance, PTL DEF Spec, ServingKeepsFresh
=============================================================================
