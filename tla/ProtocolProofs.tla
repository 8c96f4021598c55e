--------------------------- MODULE ProtocolProofs ---------------------------
(***************************************************************************)
(* Proofs about Protocol for any clients, any values and any timing.       *)
(***************************************************************************)
EXTENDS Protocol, TLAPS, WellFoundedInduction

(* A set of natural numbers that is not empty has a least element. *)
LEMMA LeastElement ==
    ASSUME NEW S, S \subseteq Nat, S # {}
    PROVE  \E s \in S : \A t \in S : s <= t
<1>1. PICK s \in S : \A t \in S : ~ (<<t, s>> \in OpToRel(<, Nat))
    BY NatLessThanWellFounded, WFMin
<1>2. ASSUME NEW t \in S PROVE s <= t
    <2>1. s \in Nat /\ t \in Nat
        OBVIOUS
    <2>2. ~ (t < s)
        BY <1>1, <2>1 DEF OpToRel
    <2> QED
        BY <2>1, <2>2
<1> QED
    BY <1>2

(* want_to_send_for takes a slot of those it can use. *)
LEMMA TopMostInSet ==
    ASSUME NEW S, S \subseteq Slots, S # {}
    PROVE  TopMost(S) \in S
<1> DEFINE M == {QueueLen - 1 - s : s \in S}
<1>1. M \subseteq Nat /\ M # {}
    <2>1. ASSUME NEW s \in S PROVE QueueLen - 1 - s \in Nat
        BY QueueAssumption DEF Slots
    <2> QED
        BY <2>1
<1>2. PICK m \in M : \A n \in M : m <= n
    BY <1>1, LeastElement
<1>3. PICK s \in S : m = QueueLen - 1 - s
    OBVIOUS
<1>4. ASSUME NEW t \in S PROVE t <= s
    <2>1. QueueLen - 1 - s <= QueueLen - 1 - t
        BY <1>2, <1>3
    <2> QED
        BY <2>1, QueueAssumption DEF Slots
<1> QED
    BY <1>4 DEF TopMost

(* prepare_to_send_to takes a slot of those addressed to the client. *)
LEMMA BottomMostInSet ==
    ASSUME NEW S, S \subseteq Slots, S # {}
    PROVE  BottomMost(S) \in S
<1>1. S \subseteq Nat
    BY QueueAssumption DEF Slots
<1> QED
    BY <1>1, LeastElement DEF BottomMost
-----------------------------------------------------------------------------
(***************************************************************************)
(* The loops.  Each is a recursive function on the number of rounds done;  *)
(* such a function exists when every round keeps the state in a set D, and *)
(* then its value after the last round is in D.                            *)
(***************************************************************************)
Rounds(f, n, base, G) ==
    f = [i \in 0 .. n |-> IF i = 0 THEN base ELSE G[i][f[i - 1]]]

(* Any number of rounds, each of them a function of D to D, has a table of *)
(* its intermediate results.                                               *)
LEMMA LoopExists ==
    ASSUME NEW n \in Nat, NEW D, NEW base \in D, NEW G \in [1 .. n -> [D -> D]]
    PROVE  \E f \in [0 .. n -> D] : Rounds(f, n, base, G)
<1> USE DEF Rounds
<1> DEFINE Done(m) ==
             \E f \in [0 .. m -> D] :
                f = [i \in 0 .. m |-> IF i = 0 THEN base ELSE G[i][f[i - 1]]]
           Bad == {m \in 0 .. n : ~Done(m)}
<1>1. CASE Bad = {}
    <2>1. n \in 0 .. n
        OBVIOUS
    <2>2. Done(n)
        BY <1>1, <2>1
    <2> QED
        BY <2>2
<1>2. CASE Bad # {}
    <2>1. PICK m \in Bad : \A k \in Bad : m <= k
        <3>1. Bad \subseteq Nat
            OBVIOUS
        <3> HIDE DEF Bad
        <3> QED
            BY <1>2, <3>1, LeastElement
    <2>2. m \in 0 .. n /\ ~Done(m)
        OBVIOUS
    <2>3. m # 0
        <3> SUFFICES ASSUME m = 0 PROVE FALSE
            OBVIOUS
        <3> DEFINE f == [i \in 0 .. 0 |-> base]
        <3>1. f \in [0 .. m -> D]
            OBVIOUS
        <3>2. \A i \in 0 .. 0 : i = 0
            OBVIOUS
        <3>3. f = [i \in 0 .. m |-> IF i = 0 THEN base ELSE G[i][f[i - 1]]]
            BY <3>2
        <3> QED
            BY <2>2, <3>1, <3>3
    <2>4. m \in 1 .. n /\ m - 1 \in 0 .. n /\ m \in Nat
        BY <2>2, <2>3
    <2>5. Done(m - 1)
        <3>1. m - 1 \notin Bad
            <4> HIDE DEF Bad
            <4> QED
                BY <2>1, <2>4
        <3> HIDE DEF Done
        <3> QED
            BY <2>4, <3>1
    <2>6. PICK f \in [0 .. m - 1 -> D] :
             f = [i \in 0 .. m - 1 |-> IF i = 0 THEN base ELSE G[i][f[i - 1]]]
        BY <2>5
    <2> DEFINE g == [i \in 0 .. m |-> IF i = m THEN G[m][f[m - 1]] ELSE f[i]]
    <2>7. G[m][f[m - 1]] \in D
        BY <2>4
    <2>8. g \in [0 .. m -> D]
        BY <2>4, <2>7
    <2>9. ASSUME NEW i \in 0 .. m
          PROVE  g[i] = IF i = 0 THEN base ELSE G[i][g[i - 1]]
        <3>1. CASE i = m
            <4>1. g[i - 1] = f[m - 1] /\ g[i] = G[m][f[m - 1]]
                BY <2>4, <3>1
            <4> QED
                BY <2>3, <3>1, <4>1
        <3>2. CASE i # m
            <4>1. i \in 0 .. m - 1 /\ g[i] = f[i]
                BY <2>4, <3>2
            <4>2. i # 0 => g[i - 1] = f[i - 1]
                BY <2>4, <4>1
            <4>3. f[i] = IF i = 0 THEN base ELSE G[i][f[i - 1]]
                BY <2>6, <4>1
            <4> HIDE DEF g
            <4> QED
                BY <4>1, <4>2, <4>3
        <3> QED
            BY <3>1, <3>2
    <2>10. g = [i \in 0 .. m |-> IF i = 0 THEN base ELSE G[i][g[i - 1]]]
        <3>1. g = [i \in 0 .. m |-> g[i]]
            OBVIOUS
        <3> HIDE DEF g
        <3> QED
            BY <2>9, <3>1
    <2>11. Done(m)
        <3> HIDE DEF g
        <3> QED
            BY <2>8, <2>10
    <2> QED
        BY <2>2, <2>11
<1> QED
    BY <1>1, <1>2

(* A loop whose rounds stay in D ends in D.                                *)
LEMMA LoopStays ==
    ASSUME NEW n \in Nat, NEW D, NEW f,
           f[0] \in D, \A i \in 1 .. n : f[i - 1] \in D => f[i] \in D
    PROVE  f[n] \in D
<1> DEFINE Bad == {m \in 0 .. n : f[m] \notin D}
<1>1. CASE Bad = {}
    <2>1. n \in 0 .. n
        OBVIOUS
    <2> QED
        BY <1>1, <2>1
<1>2. CASE Bad # {}
    <2>1. PICK m \in Bad : \A k \in Bad : m <= k
        <3>1. Bad \subseteq Nat
            OBVIOUS
        <3> HIDE DEF Bad
        <3> QED
            BY <1>2, <3>1, LeastElement
    <2>2. m \in 1 .. n /\ m - 1 \in 0 .. n /\ f[m] \notin D
        OBVIOUS
    <2>3. m - 1 \notin Bad
        <3> HIDE DEF Bad
        <3> QED
            BY <2>1, <2>2
    <2> QED
        BY <2>2, <2>3
<1> QED
    BY <1>1, <1>2

(* The reports of a packet. *)
ReportRounds(f, h, packet) ==
    f = [i \in 0 .. Len(packet) |->
           IF i = 0 THEN [ok |-> TRUE, cells |-> h.cells]
                    ELSE OnReport(f[i - 1], packet[i])]

(* The loop over the reports of a packet (Protocol::process_packet) ends in*)
(* any set that holds its start and that no report leads out of; with one  *)
(* report it is that report's effect.                                      *)
LEMMA ReportedLoop ==
    ASSUME NEW h, NEW R, NEW packet \in Seq(R), NEW D,
           [ok |-> TRUE, cells |-> h.cells] \in D,
           \A st \in D, i \in 1 .. Len(packet) : OnReport(st, packet[i]) \in D
    PROVE  /\ Reported(h, packet) \in D
           /\ Len(packet) = 1 =>
                Reported(h, packet) =
                   OnReport([ok |-> TRUE, cells |-> h.cells], packet[1])
<1> DEFINE n    == Len(packet)
           base == [ok |-> TRUE, cells |-> h.cells]
           G    == [i \in 1 .. n |-> [st \in D |-> OnReport(st, packet[i])]]
<1>1. n \in Nat /\ G \in [1 .. n -> [D -> D]] /\ base \in D
    OBVIOUS
<1> HIDE DEF base
<1>2. PICK f \in [0 .. n -> D] : Rounds(f, n, base, G)
    <2> HIDE DEF n, G
    <2> QED
        BY <1>1, LoopExists
<1>3. \A i \in 1 .. n :
         i - 1 \in 0 .. n /\ G[i][f[i - 1]] = OnReport(f[i - 1], packet[i])
    <2>1. \A i \in 1 .. n : i - 1 \in 0 .. n /\ f[i - 1] \in D
        BY <1>1
    <2> QED
        BY <2>1
<1>4. ReportRounds(f, h, packet)
    <2> HIDE DEF G
    <2>1. \A i \in 0 .. n : i # 0 => i \in 1 .. n
        BY <1>1
    <2>2. [i \in 0 .. n |-> IF i = 0 THEN base ELSE G[i][f[i - 1]]]
            = [i \in 0 .. n |-> IF i = 0 THEN base
                               ELSE OnReport(f[i - 1], packet[i])]
        BY <1>3, <2>1
    <2> QED
        BY <1>2, <2>2 DEF Rounds, ReportRounds, base
<1> DEFINE after == CHOOSE g : ReportRounds(g, h, packet)
<1>5. ReportRounds(after, h, packet)
    BY <1>4
<1>6. Reported(h, packet) = after[n]
    BY Zenon DEF Reported, ReportRounds
<1> HIDE DEF after, G
<1>7. /\ after[0] = base
      /\ \A i \in 1 .. n : after[i] = OnReport(after[i - 1], packet[i])
    <2>1. after = [i \in 0 .. n |-> IF i = 0 THEN base
                                   ELSE OnReport(after[i - 1], packet[i])]
        BY <1>5 DEF ReportRounds, base
    <2>2. \A i \in 1 .. n : i \in 0 .. n /\ i # 0
        BY <1>1
    <2>3. 0 \in 0 .. n
        BY <1>1
    <2> HIDE DEF n
    <2> QED
        BY <2>1, <2>2, <2>3
<1>8. after[n] \in D
    <2>1. \A i \in 1 .. n : after[i - 1] \in D => after[i] \in D
        BY <1>7
    <2> HIDE DEF n
    <2> QED
        BY <1>1, <1>7, <2>1, LoopStays
<1> QED
    BY <1>6, <1>7, <1>8 DEF base

(* The basic values of a client. *)
BasicRounds(f, a, base0) ==
    f = [i \in 0 .. Len(BasicSeq) |->
           IF i = 0 THEN base0
                    ELSE BasicUpdate(a, f[i - 1], BasicSeq[i])]

(* The loop over temperature, mode and lock of queue_updates_for ends in   *)
(* any set that holds its start and that no round leads out of.            *)
LEMMA BasicLoop ==
    ASSUME NEW a, NEW base0, NEW D, base0 \in D,
           \A st \in D, i \in 1 .. Len(BasicSeq) : BasicUpdate(a, st, BasicSeq[i]) \in D
    PROVE  BasicPass(a, base0) \in D
<1> DEFINE n    == Len(BasicSeq)
           base == base0
           G    == [i \in 1 .. n |-> [st \in D |-> BasicUpdate(a, st, BasicSeq[i])]]
<1>1. n \in Nat /\ G \in [1 .. n -> [D -> D]] /\ base \in D
    BY ProtocolAssumption
<1> HIDE DEF base
<1>2. PICK f \in [0 .. n -> D] : Rounds(f, n, base, G)
    <2> HIDE DEF n, G
    <2> QED
        BY <1>1, LoopExists
<1>3. \A i \in 1 .. n :
         i - 1 \in 0 .. n /\ G[i][f[i - 1]] = BasicUpdate(a, f[i - 1], BasicSeq[i])
    <2>1. \A i \in 1 .. n : i - 1 \in 0 .. n /\ f[i - 1] \in D
        BY <1>1
    <2> QED
        BY <2>1
<1>4. BasicRounds(f, a, base0)
    <2> HIDE DEF G
    <2>1. \A i \in 0 .. n : i # 0 => i \in 1 .. n
        BY <1>1
    <2>2. [i \in 0 .. n |-> IF i = 0 THEN base ELSE G[i][f[i - 1]]]
            = [i \in 0 .. n |-> IF i = 0 THEN base
                               ELSE BasicUpdate(a, f[i - 1], BasicSeq[i])]
        BY <1>3, <2>1
    <2> QED
        BY <1>2, <2>2 DEF Rounds, BasicRounds, base
<1> DEFINE after == CHOOSE g : BasicRounds(g, a, base0)
<1>5. BasicRounds(after, a, base0)
    BY <1>4
<1>6. BasicPass(a, base0) = after[n]
    BY Zenon DEF BasicPass, BasicRounds
<1> HIDE DEF after, G
<1>7. /\ after[0] = base
      /\ \A i \in 1 .. n : after[i] = BasicUpdate(a, after[i - 1], BasicSeq[i])
    <2>1. after = [i \in 0 .. n |-> IF i = 0 THEN base
                                   ELSE BasicUpdate(a, after[i - 1], BasicSeq[i])]
        BY <1>5 DEF BasicRounds, base
    <2>2. \A i \in 1 .. n : i \in 0 .. n /\ i # 0
        BY <1>1
    <2>3. 0 \in 0 .. n
        BY <1>1
    <2> HIDE DEF n
    <2> QED
        BY <2>1, <2>2, <2>3
<1>8. after[n] \in D
    <2>1. \A i \in 1 .. n : after[i - 1] \in D => after[i] \in D
        BY <1>7
    <2> HIDE DEF n
    <2> QED
        BY <1>1, <1>7, <2>1, LoopStays
<1> QED
    BY <1>6, <1>8

(* The eeprom cells of a client. *)
EepromRounds(f, a, base0) ==
    f = [i \in 0 .. Len(EepromSeq) |->
           IF i = 0 THEN base0
                    ELSE EepromUpdate(a, f[i - 1], EepromSeq[i])]

(* The same for the loop over the eeprom cells.                            *)
LEMMA EepromLoop ==
    ASSUME NEW a, NEW base0, NEW D, base0 \in D,
           \A st \in D, i \in 1 .. Len(EepromSeq) : EepromUpdate(a, st, EepromSeq[i]) \in D
    PROVE  EepromPass(a, base0) \in D
<1> DEFINE n    == Len(EepromSeq)
           base == base0
           G    == [i \in 1 .. n |-> [st \in D |-> EepromUpdate(a, st, EepromSeq[i])]]
<1>1. n \in Nat /\ G \in [1 .. n -> [D -> D]] /\ base \in D
    BY ProtocolAssumption
<1> HIDE DEF base
<1>2. PICK f \in [0 .. n -> D] : Rounds(f, n, base, G)
    <2> HIDE DEF n, G
    <2> QED
        BY <1>1, LoopExists
<1>3. \A i \in 1 .. n :
         i - 1 \in 0 .. n /\ G[i][f[i - 1]] = EepromUpdate(a, f[i - 1], EepromSeq[i])
    <2>1. \A i \in 1 .. n : i - 1 \in 0 .. n /\ f[i - 1] \in D
        BY <1>1
    <2> QED
        BY <2>1
<1>4. EepromRounds(f, a, base0)
    <2> HIDE DEF G
    <2>1. \A i \in 0 .. n : i # 0 => i \in 1 .. n
        BY <1>1
    <2>2. [i \in 0 .. n |-> IF i = 0 THEN base ELSE G[i][f[i - 1]]]
            = [i \in 0 .. n |-> IF i = 0 THEN base
                               ELSE EepromUpdate(a, f[i - 1], EepromSeq[i])]
        BY <1>3, <2>1
    <2> QED
        BY <1>2, <2>2 DEF Rounds, EepromRounds, base
<1> DEFINE after == CHOOSE g : EepromRounds(g, a, base0)
<1>5. EepromRounds(after, a, base0)
    BY <1>4
<1>6. EepromPass(a, base0) = after[n]
    BY Zenon DEF EepromPass, EepromRounds
<1> HIDE DEF after, G
<1>7. /\ after[0] = base
      /\ \A i \in 1 .. n : after[i] = EepromUpdate(a, after[i - 1], EepromSeq[i])
    <2>1. after = [i \in 0 .. n |-> IF i = 0 THEN base
                                   ELSE EepromUpdate(a, after[i - 1], EepromSeq[i])]
        BY <1>5 DEF EepromRounds, base
    <2>2. \A i \in 1 .. n : i \in 0 .. n /\ i # 0
        BY <1>1
    <2>3. 0 \in 0 .. n
        BY <1>1
    <2> HIDE DEF n
    <2> QED
        BY <2>1, <2>2, <2>3
<1>8. after[n] \in D
    <2>1. \A i \in 1 .. n : after[i - 1] \in D => after[i] \in D
        BY <1>7
    <2> HIDE DEF n
    <2> QED
        BY <1>1, <1>7, <2>1, LoopStays
<1> QED
    BY <1>6, <1>8

(* The timers of a client. *)
TimerRounds(f, a, base0) ==
    f = [i \in 0 .. Len(TimerSeq) |->
           IF i = 0 THEN base0
                    ELSE TimerUpdate(a, f[i - 1], TimerSeq[i])]

(* The same for the loop over the timers.                                  *)
LEMMA TimerLoop ==
    ASSUME NEW a, NEW base0, NEW D, base0 \in D,
           \A st \in D, i \in 1 .. Len(TimerSeq) : TimerUpdate(a, st, TimerSeq[i]) \in D
    PROVE  TimerPass(a, base0) \in D
<1> DEFINE n    == Len(TimerSeq)
           base == base0
           G    == [i \in 1 .. n |-> [st \in D |-> TimerUpdate(a, st, TimerSeq[i])]]
<1>1. n \in Nat /\ G \in [1 .. n -> [D -> D]] /\ base \in D
    BY ProtocolAssumption
<1> HIDE DEF base
<1>2. PICK f \in [0 .. n -> D] : Rounds(f, n, base, G)
    <2> HIDE DEF n, G
    <2> QED
        BY <1>1, LoopExists
<1>3. \A i \in 1 .. n :
         i - 1 \in 0 .. n /\ G[i][f[i - 1]] = TimerUpdate(a, f[i - 1], TimerSeq[i])
    <2>1. \A i \in 1 .. n : i - 1 \in 0 .. n /\ f[i - 1] \in D
        BY <1>1
    <2> QED
        BY <2>1
<1>4. TimerRounds(f, a, base0)
    <2> HIDE DEF G
    <2>1. \A i \in 0 .. n : i # 0 => i \in 1 .. n
        BY <1>1
    <2>2. [i \in 0 .. n |-> IF i = 0 THEN base ELSE G[i][f[i - 1]]]
            = [i \in 0 .. n |-> IF i = 0 THEN base
                               ELSE TimerUpdate(a, f[i - 1], TimerSeq[i])]
        BY <1>3, <2>1
    <2> QED
        BY <1>2, <2>2 DEF Rounds, TimerRounds, base
<1> DEFINE after == CHOOSE g : TimerRounds(g, a, base0)
<1>5. TimerRounds(after, a, base0)
    BY <1>4
<1>6. TimerPass(a, base0) = after[n]
    BY Zenon DEF TimerPass, TimerRounds
<1> HIDE DEF after, G
<1>7. /\ after[0] = base
      /\ \A i \in 1 .. n : after[i] = TimerUpdate(a, after[i - 1], TimerSeq[i])
    <2>1. after = [i \in 0 .. n |-> IF i = 0 THEN base
                                   ELSE TimerUpdate(a, after[i - 1], TimerSeq[i])]
        BY <1>5 DEF TimerRounds, base
    <2>2. \A i \in 1 .. n : i \in 0 .. n /\ i # 0
        BY <1>1
    <2>3. 0 \in 0 .. n
        BY <1>1
    <2> HIDE DEF n
    <2> QED
        BY <2>1, <2>2, <2>3
<1>8. after[n] \in D
    <2>1. \A i \in 1 .. n : after[i - 1] \in D => after[i] \in D
        BY <1>7
    <2> HIDE DEF n
    <2> QED
        BY <1>1, <1>7, <2>1, LoopStays
<1> QED
    BY <1>6, <1>8

(* The commands of a frame, at the client. *)
CommandRounds(f, a, packet) ==
    f = [i \in 0 .. Len(packet) |->
           IF i = 0 THEN [vals |-> act[a], out |-> answers[a]]
                    ELSE OnCommand(f[i - 1], packet[i])]

(* The same for the commands of a packet at the client that hears it.      *)
LEMMA ObeyedLoop ==
    ASSUME NEW a, NEW R, NEW packet \in Seq(R), NEW D,
           [vals |-> act[a], out |-> answers[a]] \in D,
           \A st \in D, i \in 1 .. Len(packet) : OnCommand(st, packet[i]) \in D
    PROVE  Obeyed(a, packet) \in D
<1> DEFINE n    == Len(packet)
           base == [vals |-> act[a], out |-> answers[a]]
           G    == [i \in 1 .. n |-> [st \in D |-> OnCommand(st, packet[i])]]
<1>1. n \in Nat /\ G \in [1 .. n -> [D -> D]] /\ base \in D
    OBVIOUS
<1> HIDE DEF base
<1>2. PICK f \in [0 .. n -> D] : Rounds(f, n, base, G)
    <2> HIDE DEF n, G
    <2> QED
        BY <1>1, LoopExists
<1>3. \A i \in 1 .. n :
         i - 1 \in 0 .. n /\ G[i][f[i - 1]] = OnCommand(f[i - 1], packet[i])
    <2>1. \A i \in 1 .. n : i - 1 \in 0 .. n /\ f[i - 1] \in D
        BY <1>1
    <2> QED
        BY <2>1
<1>4. CommandRounds(f, a, packet)
    <2> HIDE DEF G
    <2>1. \A i \in 0 .. n : i # 0 => i \in 1 .. n
        BY <1>1
    <2>2. [i \in 0 .. n |-> IF i = 0 THEN base ELSE G[i][f[i - 1]]]
            = [i \in 0 .. n |-> IF i = 0 THEN base
                               ELSE OnCommand(f[i - 1], packet[i])]
        BY <1>3, <2>1
    <2> QED
        BY <1>2, <2>2 DEF Rounds, CommandRounds, base
<1> DEFINE after == CHOOSE g : CommandRounds(g, a, packet)
<1>5. CommandRounds(after, a, packet)
    BY <1>4
<1>6. Obeyed(a, packet) = after[n]
    BY Zenon DEF Obeyed, CommandRounds
<1> HIDE DEF after, G
<1>7. /\ after[0] = base
      /\ \A i \in 1 .. n : after[i] = OnCommand(after[i - 1], packet[i])
    <2>1. after = [i \in 0 .. n |-> IF i = 0 THEN base
                                   ELSE OnCommand(after[i - 1], packet[i])]
        BY <1>5 DEF CommandRounds, base
    <2>2. \A i \in 1 .. n : i \in 0 .. n /\ i # 0
        BY <1>1
    <2>3. 0 \in 0 .. n
        BY <1>1
    <2> HIDE DEF n
    <2> QED
        BY <2>1, <2>2, <2>3
<1>8. after[n] \in D
    <2>1. \A i \in 1 .. n : after[i - 1] \in D => after[i] \in D
        BY <1>7
    <2> HIDE DEF n
    <2> QED
        BY <1>1, <1>7, <2>1, LoopStays
<1> QED
    BY <1>6, <1>8
-----------------------------------------------------------------------------
(***************************************************************************)
(* The inductive invariant.  A request out of range is replaced by the     *)
(* last report, so that TempInRange needs every client the master talks to *)
(* to have reported a temperature, and every temperature a client has to   *)
(* be one that the master would send: StateTypes says so of the commands   *)
(* and reports under way, TempsKnown of clients and mirror, and            *)
(* AddressedAreKnown that nothing is under way to or from a client that    *)
(* was not heard yet, whose first packet can therefore only be a report.   *)
(***************************************************************************)
SafeCommands ==
    {cmd \in Commands : cmd.op = "write" /\ cmd.cell = Temp
                           => cmd.val \notin OutOfRange}

Reports ==
    {r \in [short : BOOLEAN, vals : UNION {[S -> Contents] : S \in SUBSET Cells}] :
        Temp \in DOMAIN r.vals => r.vals[Temp] \notin OutOfRange}

ItemType ==
    [addr : Clients \cup {Free, InFlight, SyncAddr}, time : Int, top : Nat,
     packet : Seq(SafeCommands)]

TxType ==
    [slot : Slots \cup {NoSlot}, to : Clients \cup {Free, SyncAddr},
     head : BOOLEAN, mac : Seq(SafeCommands)]

StateTypes ==
    /\ hr \in [Clients -> HR]
    /\ que \in [Slots -> ItemType]
    /\ tx \in TxType
    /\ ss \in 0 .. Minute - 1
    /\ lastAddr \in Clients \cup {NoClient}
    /\ forced \subseteq Clients
    /\ act \in [Clients -> [Cells -> Contents]]
    /\ answers \in [Clients -> Seq(Reports)]
    /\ turn \in [Clients -> BOOLEAN]

TempsKnown ==
    \A a \in Clients :
       /\ act[a][Temp] \notin OutOfRange
       /\ hr[a].contacted => hr[a].cells[Temp].remote \notin OutOfRange

AddressedAreKnown ==
    \A a \in Clients :
       ~hr[a].contacted => /\ answers[a] = <<>>
                           /\ tx.to # a
                           /\ \A s \in Slots : que[s].addr # a

IInv == StateTypes /\ TempsKnown /\ AddressedAreKnown
-----------------------------------------------------------------------------
(* What the assumptions say of cells and contents, in the form the proofs  *)
(* need.                                                                   *)
LEMMA ProtocolFacts ==
    /\ Temp \in Cells /\ Temp \in Basics /\ Temp \notin Eeproms /\ Temp \notin Timers
    /\ Zero \in Contents /\ 0 \in Contents /\ 1 \in Contents
    /\ TempOff \in Contents /\ TempOpen \in Contents
    /\ RetrySteps \in Nat /\ MaxEeprom \in Nat /\ MaxTimers \in Nat
    /\ Basics \subseteq Cells /\ Eeproms \subseteq Cells /\ Timers \subseteq Cells
BY ProtocolAssumption, ValuesAssumption DEF Cells, Zero

(* Client addresses (0 .. 29) are none of the special addresses of the     *)
(* queue and none that last_addr starts from.                              *)
LEMMA AddressesDiffer ==
    /\ Free \notin Clients /\ InFlight \notin Clients
    /\ SyncAddr \notin Clients /\ NoClient \notin Clients
BY ProtocolAssumption DEF Free, InFlight, SyncAddr, NoClient

(* The values of SyncedValue: every operation keeps their shape, and        *)
(* changes of remote, requested and wanted only what it is meant to.        *)
LEMMA RetryValue ==
    ASSUME NEW v \in Value
    PROVE  /\ AfterRetry(v) \in Value
           /\ AfterRetry(v).remote = v.remote
           /\ AfterRetry(v).requested = v.requested
           /\ AfterRetry(v).wanted = v.wanted
<1>1. v.ctr \in 0 .. RetrySteps /\ RetrySteps \in Nat
    BY ProtocolFacts DEF Value
<1>2. (IF v.ctr = 0 THEN RetrySteps ELSE v.ctr - 1) \in 0 .. RetrySteps
    BY <1>1
<1> DEFINE k == IF v.ctr = 0 THEN RetrySteps ELSE v.ctr - 1
<1>3. AfterRetry(v) = [v EXCEPT !.ctr = k]
    BY DEF AfterRetry
<1> HIDE DEF k
<1> QED
    BY <1>2, <1>3 DEF Value, k

(* needs_read and needs_write only count down: the value, the request and  *)
(* whether there is one stay.                                              *)
LEMMA AskedValue ==
    ASSUME NEW v \in Value
    PROVE  /\ AfterNeedsRead(v) \in Value
           /\ AfterNeedsRead(v).remote = v.remote
           /\ AfterNeedsRead(v).requested = v.requested
           /\ AfterNeedsRead(v).wanted = v.wanted
           /\ AfterNeedsWrite(v) \in Value
           /\ AfterNeedsWrite(v).remote = v.remote
           /\ AfterNeedsWrite(v).requested = v.requested
           /\ AfterNeedsWrite(v).wanted = v.wanted
BY RetryValue DEF AfterNeedsRead, AfterNeedsWrite

(* A reset takes the request away and nothing else.                        *)
LEMMA ResetValue ==
    ASSUME NEW v \in Value
    PROVE  /\ ResetRequested(v) \in Value
           /\ ResetRequested(v).remote = v.remote
           /\ ResetRequested(v).requested = v.remote
           /\ ResetRequested(v).wanted = FALSE
BY DEF ResetRequested, Value

(* set_requested leaves the value last reported alone.                     *)
LEMMA RequestedValue ==
    ASSUME NEW v \in Value, NEW x \in Contents
    PROVE  /\ SetRequested(v, x) \in Value
           /\ SetRequested(v, x).remote = v.remote
           /\ SetRequested(v, x).requested = x
           /\ SetRequested(v, x).wanted = TRUE
<1>1. 0 \in 0 .. RetrySteps
    BY ProtocolFacts
<1> QED
    BY <1>1 DEF SetRequested, Value

(* A request to read leaves value and request alone.                       *)
LEMMA ReadAgainValue ==
    ASSUME NEW v \in Value
    PROVE  /\ AskRead(v) \in Value
           /\ AskRead(v).remote = v.remote
           /\ AskRead(v).requested = v.requested
           /\ AskRead(v).wanted = v.wanted
BY DEF AskRead, Value

(* set_remote ends a request just when the value reported is the one       *)
(* requested.                                                              *)
LEMMA ReportedValue ==
    ASSUME NEW v \in Value, NEW x \in Contents
    PROVE  /\ SetRemote(v, x) \in Value
           /\ SetRemote(v, x).remote = x
           /\ v.wanted /\ x = v.requested => ~SetRemote(v, x).wanted
           /\ ~(v.wanted /\ x = v.requested) =>
                 /\ SetRemote(v, x).wanted = v.wanted
                 /\ SetRemote(v, x).requested = v.requested
<1> DEFINE h == [v EXCEPT !.remote = x, !.valid = TRUE,
                          !.published = FALSE, !.ctr = 0]
<1>0. 0 \in 0 .. RetrySteps
    BY ProtocolFacts
<1>1. /\ h \in Value /\ h.remote = x
      /\ h.wanted = v.wanted /\ h.requested = v.requested
    BY <1>0 DEF Value
<1>2. SetRemote(v, x) = IF v.wanted /\ x = v.requested
                        THEN ResetRequested(h) ELSE h
    BY DEF SetRemote
<1> HIDE DEF h
<1> QED
    BY <1>1, <1>2, ResetValue

(* The commands and reports that may be under way. *)
LEMMA CommandsSafe ==
    /\ \A c \in Cells : c # Temp =>
          \A x \in Contents : Write(c, x) \in SafeCommands
    /\ \A x \in Contents : x \notin OutOfRange => Write(Temp, x) \in SafeCommands
    /\ \A c \in Cells : Read(c) \in SafeCommands
    /\ SyncCmd \in SafeCommands
BY ProtocolFacts DEF Write, Read, SyncCmd, SafeCommands, Commands

(* A free slot is a queue item.                                            *)
LEMMA FreeItemType ==
    FreeItem \in ItemType /\ FreeItem.addr = Free /\ FreeItem.packet = <<>>
BY DEF FreeItem, ItemType

(* An idle transmitter is in its type.                                     *)
LEMMA NotSendingType == NotSending \in TxType /\ NotSending.to = Free
BY DEF NotSending, TxType

(* A cleared queue is in its type, and all its slots are free.             *)
LEMMA EmptyQueueType ==
    /\ EmptyQueue \in [Slots -> ItemType]
    /\ \A s \in Slots : EmptyQueue[s].addr = Free
BY FreeItemType DEF EmptyQueue

(* want_to_send_for and the pushes. *)
LEMMA QueuedType ==
    ASSUME NEW q \in [Slots -> ItemType], NEW addr \in Clients \cup {SyncAddr},
           NEW cmd, NEW asked \in Nat, NEW pushed \in Nat, NEW curtime \in Int,
           pushed # 0 => cmd \in SafeCommands
    PROVE  /\ Queued(q, addr, cmd, asked, pushed, curtime) \in [Slots -> ItemType]
           /\ \A s \in Slots :
                 Queued(q, addr, cmd, asked, pushed, curtime)[s].addr
                    \in {q[s].addr, addr}
<1> DEFINE usable == Usable(q, addr, asked, curtime)
           slot   == TopMost(usable)
           item   == Opened(q, addr, asked, curtime, slot)
           packet == IF pushed = 0 THEN item.packet ELSE Append(item.packet, cmd)
           new    == [item EXCEPT !.top = @ + pushed, !.packet = packet]
           r      == Queued(q, addr, cmd, asked, pushed, curtime)
<1>1. CASE usable = {}
    BY <1>1 DEF Queued
<1>2. CASE usable # {}
    <2>1. slot \in Slots
        BY <1>2, TopMostInSet DEF Usable
    <2>2. item \in ItemType /\ item.addr = addr
        <3>1. CASE Appendable(q, addr, asked, slot)
            <4>1. item = q[slot]
                BY <3>1 DEF Opened
            <4> QED
                BY <2>1, <3>1, <4>1 DEF Appendable
        <3>2. CASE ~Appendable(q, addr, asked, slot)
            <4>1. item = [addr |-> addr, time |-> curtime, top |-> 0,
                          packet |-> <<>>]
                BY <3>2 DEF Opened
            <4> QED
                BY <4>1 DEF ItemType
        <3> QED
            BY <3>1, <3>2
    <2>3. item.packet \in Seq(SafeCommands) /\ item.top \in Nat
        BY <2>2 DEF ItemType
    <2> HIDE DEF item, slot
    <2>4. packet \in Seq(SafeCommands)
        BY <2>3
    <2>5. item.top + pushed \in Nat
        BY <2>3
    <2> HIDE DEF packet
    <2>6. new \in ItemType /\ new.addr = addr
        BY <2>2, <2>4, <2>5 DEF ItemType
    <2>7. r = [q EXCEPT ![slot] = new]
        BY <1>2 DEF Queued, slot, item, packet
    <2> HIDE DEF new, r
    <2> QED
        BY <2>1, <2>6, <2>7 DEF r
<1> QED
    BY <1>1, <1>2

(* prepare_to_send_to keeps the types; it re-addresses only the slot it    *)
(* puts in flight, and the frame is for whom it was prepared.              *)
LEMMA PreparedType ==
    ASSUME NEW q \in [Slots -> ItemType], NEW t \in TxType,
           NEW addr \in Clients \cup {SyncAddr}
    PROVE  /\ PreparedQueue(q, t, addr) \in [Slots -> ItemType]
           /\ PreparedTx(q, t, addr) \in TxType
           /\ \A s \in Slots :
                 PreparedQueue(q, t, addr)[s].addr \in {q[s].addr, InFlight}
           /\ PreparedTx(q, t, addr).to \in {t.to, addr}
<1> DEFINE slot == BottomMost(SlotsFor(q, addr))
           r    == PreparedQueue(q, t, addr)
           u    == PreparedTx(q, t, addr)
<1>1. CASE ~CanPrepare(q, t, addr)
    BY <1>1 DEF PreparedQueue, PreparedTx
<1>2. CASE CanPrepare(q, t, addr)
    <2>1. slot \in Slots /\ q[slot] \in ItemType
        BY <1>2, BottomMostInSet DEF CanPrepare, SlotsFor
    <2>2. q[slot].packet \in Seq(SafeCommands)
        BY <2>1 DEF ItemType
    <2>3. u = [slot |-> slot, to |-> addr, head |-> TRUE,
               mac |-> q[slot].packet]
        BY <1>2 DEF PreparedTx
    <2>4. r = [q EXCEPT ![slot] = [q[slot] EXCEPT !.addr = InFlight]]
        BY <1>2 DEF PreparedQueue
    <2> HIDE DEF slot
    <2>5. /\ [q[slot] EXCEPT !.addr = InFlight] \in ItemType
          /\ [q[slot] EXCEPT !.addr = InFlight].addr = InFlight
        BY <2>1 DEF ItemType
    <2>6. u \in TxType /\ u.to = addr
        BY <2>1, <2>2, <2>3 DEF TxType
    <2>7. r \in [Slots -> ItemType] /\ \A s \in Slots : r[s].addr \in {q[s].addr, InFlight}
        BY <2>1, <2>4, <2>5
    <2> QED
        BY <2>6, <2>7
<1> QED
    BY <1>1, <1>2

(* Ageing changes no address.                                              *)
LEMMA AgedType ==
    ASSUME NEW q \in [Slots -> ItemType]
    PROVE  /\ Aged(q, 1) \in [Slots -> ItemType]
           /\ \A s \in Slots : Aged(q, 1)[s].addr = q[s].addr
<1>1. ASSUME NEW s \in Slots
      PROVE  Aged(q, 1)[s] \in ItemType /\ Aged(q, 1)[s].addr = q[s].addr
    <2>1. q[s] \in ItemType
        OBVIOUS
    <2>2. AgedStamp(q[s].time, 1) \in Int
        BY <2>1, QueueAssumption DEF ItemType, AgedStamp
    <2> HIDE DEF AgedStamp
    <2> QED
        BY <2>1, <2>2 DEF Aged, ItemType
<1> QED
    BY <1>1 DEF Aged
-----------------------------------------------------------------------------
(***************************************************************************)
(* The reports of a packet: what they make of the values of a client.  A   *)
(* request they take away was confirmed by one of them, or was for a       *)
(* temperature and refused; they change no request they leave.             *)
(***************************************************************************)
Tells(packet, c, x) ==
    \E i \in DOMAIN packet :
       c \in DOMAIN packet[i].vals /\ packet[i].vals[c] = x

Refuses(packet) == \E i \in DOMAIN packet : packet[i].short

HeardValue(v, w, packet, c) ==
    /\ w.wanted => v.wanted /\ w.requested = v.requested
    /\ v.wanted /\ ~w.wanted => \/ Tells(packet, c, v.requested)
                                \/ c = Temp /\ Refuses(packet)
    /\ c = Temp /\ v.remote \notin OutOfRange => w.remote \notin OutOfRange

HeardStates(h, packet) ==
    {st \in [ok : BOOLEAN, cells : [Cells -> Value]] :
        \A c \in Cells : HeardValue(h.cells[c], st.cells[c], packet, c)}

(* What a report can hold: known contents, and no temperature out of range.*)
LEMMA ReportType ==
    ASSUME NEW r \in Reports
    PROVE  /\ r.short \in BOOLEAN
           /\ \A c \in DOMAIN r.vals : r.vals[c] \in Contents
           /\ Temp \in DOMAIN r.vals => r.vals[Temp] \notin OutOfRange
<1>1. r.short \in BOOLEAN /\ r.vals \in UNION {[S -> Contents] : S \in SUBSET Cells}
    BY DEF Reports
<1>2. PICK S \in SUBSET Cells : r.vals \in [S -> Contents]
    BY <1>1
<1> QED
    BY <1>1, <1>2 DEF Reports

(* One report takes the record to a state process_packet may be in.        *)
LEMMA OnReportHeard ==
    ASSUME NEW h \in HR, NEW packet \in Seq(Reports),
           NEW st \in HeardStates(h, packet), NEW i \in 1 .. Len(packet)
    PROVE  OnReport(st, packet[i]) \in HeardStates(h, packet)
<1> DEFINE r == packet[i]
<1>1. i \in DOMAIN packet /\ r \in Reports
    OBVIOUS
<1>2. /\ st \in [ok : BOOLEAN, cells : [Cells -> Value]]
      /\ \A c \in Cells : HeardValue(h.cells[c], st.cells[c], packet, c)
    BY DEF HeardStates
<1>3. st.ok \in BOOLEAN /\ st.cells \in [Cells -> Value]
    BY <1>2
<1>4. h.cells \in [Cells -> Value]
    BY DEF HR
<1>5. CASE ~st.ok
    BY <1>5 DEF OnReport
<1>6. CASE st.ok /\ r.short
    <2> DEFINE cells == [st.cells EXCEPT ![Temp] = ResetRequested(st.cells[Temp])]
    <2>1. OnReport(st, r) = [ok |-> FALSE, cells |-> cells]
        BY <1>6 DEF OnReport
    <2>2. cells \in [Cells -> Value]
        BY <1>3, ResetValue, ProtocolFacts
    <2>3. Refuses(packet)
        BY <1>1, <1>6 DEF Refuses
    <2>4. ASSUME NEW c \in Cells PROVE HeardValue(h.cells[c], cells[c], packet, c)
        <3>1. CASE c = Temp
            <4>1. cells[c] = ResetRequested(st.cells[c])
                BY <1>3, <3>1
            <4>2. /\ cells[c].remote = st.cells[c].remote
                  /\ cells[c].wanted = FALSE
                <5>1. st.cells[c] \in Value
                    BY <1>3
                <5>2. /\ ResetRequested(st.cells[c]).remote = st.cells[c].remote
                      /\ ResetRequested(st.cells[c]).wanted = FALSE
                    BY <5>1, ResetValue
                <5> HIDE DEF cells
                <5> QED
                    BY <4>1, <5>2
            <4> HIDE DEF cells
            <4> QED
                BY <1>2, <2>3, <3>1, <4>2 DEF HeardValue
        <3>2. CASE c # Temp
            BY <1>2, <1>3, <3>2
        <3> QED
            BY <3>1, <3>2
    <2> HIDE DEF cells
    <2> QED
        BY <2>1, <2>2, <2>4 DEF HeardStates
<1>7. CASE st.ok /\ ~r.short
    <2> DEFINE cells == [c \in Cells |->
                           IF c \in DOMAIN r.vals
                           THEN SetRemote(st.cells[c], r.vals[c])
                           ELSE st.cells[c]]
    <2>1. OnReport(st, r) = [st EXCEPT !.cells = cells]
        BY <1>7 DEF OnReport
    <2>2. ASSUME NEW c \in Cells
          PROVE  cells[c] \in Value /\ HeardValue(h.cells[c], cells[c], packet, c)
        <3>1. CASE c \in DOMAIN r.vals
            <4> DEFINE v == st.cells[c]
                       x == r.vals[c]
            <4>1. v \in Value /\ x \in Contents /\ cells[c] = SetRemote(v, x)
                  /\ (c = Temp => x \notin OutOfRange)
                BY <1>1, <1>3, <3>1, ReportType
            <4>2. HeardValue(h.cells[c], v, packet, c)
                BY <1>2
            <4>3. v.wanted /\ x = v.requested => Tells(packet, c, v.requested)
                BY <1>1, <3>1 DEF Tells
            <4> HIDE DEF cells, v, x, r
            <4>4. /\ cells[c] \in Value /\ cells[c].remote = x
                  /\ v.wanted /\ x = v.requested => ~cells[c].wanted
                  /\ ~(v.wanted /\ x = v.requested) =>
                        /\ cells[c].wanted = v.wanted
                        /\ cells[c].requested = v.requested
                BY <4>1, ReportedValue
            <4>5. CASE v.wanted /\ x = v.requested
                BY <4>1, <4>2, <4>3, <4>4, <4>5 DEF HeardValue
            <4>6. CASE ~(v.wanted /\ x = v.requested)
                BY <4>1, <4>2, <4>4, <4>6 DEF HeardValue
            <4> QED
                BY <4>4, <4>5, <4>6
        <3>2. CASE c \notin DOMAIN r.vals
            BY <1>2, <1>3, <3>2
        <3> QED
            BY <3>1, <3>2
    <2>3. cells \in [Cells -> Value]
        BY <2>2
    <2> HIDE DEF cells
    <2> QED
        BY <1>2, <2>1, <2>2, <2>3 DEF HeardStates
<1> QED
    BY <1>3, <1>5, <1>6, <1>7

(* So does a packet of them.                                               *)
LEMMA ReportedHeard ==
    ASSUME NEW h \in HR, NEW packet \in Seq(Reports)
    PROVE  Reported(h, packet) \in HeardStates(h, packet)
<1>1. [ok |-> TRUE, cells |-> h.cells] \in HeardStates(h, packet)
    <2>1. h.cells \in [Cells -> Value]
        BY DEF HR
    <2> QED
        BY <2>1 DEF HeardStates, HeardValue
<1> QED
    BY <1>1, OnReportHeard, ReportedLoop

(* The first packet of a client has its temperature. *)
LEMMA FirstReport ==
    ASSUME NEW h \in HR, NEW r \in Reports, ~r.short, Temp \in DOMAIN r.vals
    PROVE  Reported(h, <<r>>).cells[Temp].remote \notin OutOfRange
<1> DEFINE st == [ok |-> TRUE, cells |-> h.cells]
           got == Reported(h, <<r>>)
           packet == <<r>>
<1>1. packet \in Seq(Reports) /\ Len(packet) = 1 /\ packet[1] = r
    OBVIOUS
<1>2. h.cells \in [Cells -> Value]
    BY DEF HR
<1>3. Reported(h, packet) = OnReport(st, r)
    <2>1. st \in HeardStates(h, packet)
        BY <1>2 DEF HeardStates, HeardValue
    <2> HIDE DEF packet
    <2> QED
        BY <1>1, <2>1, OnReportHeard, ReportedLoop
<1>4. OnReport(st, r).cells[Temp] = SetRemote(h.cells[Temp], r.vals[Temp])
    BY ProtocolFacts DEF OnReport
<1>5. r.vals[Temp] \in Contents /\ r.vals[Temp] \notin OutOfRange
    BY ReportType
<1>6. h.cells[Temp] \in Value
    BY <1>2, ProtocolFacts
<1>7. SetRemote(h.cells[Temp], r.vals[Temp]).remote = r.vals[Temp]
    BY <1>5, <1>6, ReportedValue
<1> HIDE DEF st
<1> QED
    BY <1>3, <1>4, <1>5, <1>7
-----------------------------------------------------------------------------
(***************************************************************************)
(* queue_updates_for: what the pass makes of values and queue.  It takes a *)
(* request away only when that is for a temperature out of range, and it   *)
(* queues only what may be sent, for the client it serves.                 *)
(***************************************************************************)
PassedValue(v, w, c) ==
    /\ w.wanted => v.wanted /\ w.requested = v.requested
    /\ v.wanted /\ ~w.wanted => c = Temp /\ v.requested \in OutOfRange
    /\ c = Temp => w.remote \notin OutOfRange

PassStates(a, cells, q) ==
    {st \in [cells : [Cells -> Value], que : [Slots -> ItemType],
             synced : BOOLEAN, ee : Nat, tm : Nat] :
        /\ \A c \in Cells : PassedValue(cells[c], st.cells[c], c)
        /\ \A s \in Slots : st.que[s].addr \in {q[s].addr, a}}

(* A step of the pass that replaces one value and touches the counters. *)
LEMMA ValuePassed ==
    ASSUME NEW a, NEW cells, NEW q, NEW st \in PassStates(a, cells, q),
           NEW c \in Cells, NEW w \in Value, PassedValue(cells[c], w, c)
    PROVE  /\ [st EXCEPT !.cells[c] = w] \in PassStates(a, cells, q)
           /\ st.ee > 0 => [st EXCEPT !.cells[c] = w, !.ee = @ - 1]
                              \in PassStates(a, cells, q)
<1> DEFINE T == [cells : [Cells -> Value], que : [Slots -> ItemType],
                 synced : BOOLEAN, ee : Nat, tm : Nat]
           new == [st.cells EXCEPT ![c] = w]
           x == [st EXCEPT !.cells = new]
           y == [st EXCEPT !.cells = new, !.ee = st.ee - 1]
<1>1. /\ st \in T
      /\ \A d \in Cells : PassedValue(cells[d], st.cells[d], d)
      /\ \A s \in Slots : st.que[s].addr \in {q[s].addr, a}
    BY DEF PassStates
<1>2. new \in [Cells -> Value] /\ \A d \in Cells : new[d] = IF d = c THEN w ELSE st.cells[d]
    BY <1>1
<1>3. /\ [st EXCEPT !.cells[c] = w] = x
      /\ [st EXCEPT !.cells[c] = w, !.ee = @ - 1] = y
    BY <1>1
<1> HIDE DEF new
<1>4. \A d \in Cells : PassedValue(cells[d], new[d], d)
    BY <1>1, <1>2
<1>5. x \in T /\ x.cells = new /\ x.que = st.que
    BY <1>1, <1>2
<1>6. st.ee > 0 => y \in T /\ y.cells = new /\ y.que = st.que
    <2>1. st.ee \in Nat /\ (st.ee > 0 => st.ee - 1 \in Nat)
        BY <1>1
    <2> QED
        BY <1>1, <1>2, <2>1
<1> HIDE DEF x, y
<1> QED
    BY <1>1, <1>3, <1>4, <1>5, <1>6 DEF PassStates

(* A step that counts a timer. *)
LEMMA TimerCounted ==
    ASSUME NEW a, NEW cells, NEW q, NEW st \in PassStates(a, cells, q), st.tm # 0
    PROVE  [st EXCEPT !.tm = @ - 1] \in PassStates(a, cells, q)
<1> DEFINE T == [cells : [Cells -> Value], que : [Slots -> ItemType],
                 synced : BOOLEAN, ee : Nat, tm : Nat]
           x == [st EXCEPT !.tm = st.tm - 1]
<1>1. /\ st \in T
      /\ \A d \in Cells : PassedValue(cells[d], st.cells[d], d)
      /\ \A s \in Slots : st.que[s].addr \in {q[s].addr, a}
    BY DEF PassStates
<1>2. st.tm - 1 \in Nat
    BY <1>1
<1>3. x \in T /\ x.cells = st.cells /\ x.que = st.que
    BY <1>1, <1>2
<1> HIDE DEF x
<1>4. x \in PassStates(a, cells, q)
    BY <1>1, <1>3 DEF PassStates
<1> QED
    BY <1>4 DEF x

(* Pushing a safe command keeps what holds during the pass.                *)
LEMMA EnqueuePassed ==
    ASSUME NEW a \in Clients, NEW cells, NEW q, NEW st \in PassStates(a, cells, q),
           NEW cmd \in SafeCommands, NEW asked \in Nat, NEW pushed \in Nat
    PROVE  Enqueue(st, a, cmd, asked, pushed) \in PassStates(a, cells, q)
<1> DEFINE T == [cells : [Cells -> Value], que : [Slots -> ItemType],
                 synced : BOOLEAN, ee : Nat, tm : Nat]
           r == Queued(st.que, a, cmd, asked, pushed, 0)
           x == [st EXCEPT !.que = r, !.synced = FALSE]
<1>1. /\ st \in T
      /\ \A d \in Cells : PassedValue(cells[d], st.cells[d], d)
      /\ \A s \in Slots : st.que[s].addr \in {q[s].addr, a}
    BY DEF PassStates
<1>2. st.que \in [Slots -> ItemType] /\ 0 \in Int
    BY <1>1
<1>3. r \in [Slots -> ItemType] /\ \A s \in Slots : r[s].addr \in {st.que[s].addr, a}
    BY <1>2, QueuedType
<1> HIDE DEF r
<1>4. x \in T /\ x.cells = st.cells /\ x.que = r
    BY <1>1, <1>3
<1>5. Enqueue(st, a, cmd, asked, pushed) = x
    BY DEF Enqueue, r
<1> HIDE DEF x
<1> QED
    BY <1>1, <1>3, <1>4, <1>5 DEF PassStates

(* What needs_read and needs_write leave of a value is as good as before. *)
LEMMA AskedPassed ==
    ASSUME NEW v, NEW w \in Value, NEW c, PassedValue(v, w, c)
    PROVE  /\ PassedValue(v, AfterNeedsRead(w), c)
           /\ PassedValue(v, AfterNeedsWrite(w), c)
           /\ AfterNeedsRead(w) \in Value /\ AfterNeedsWrite(w) \in Value
BY AskedValue DEF PassedValue

(* What holds during the pass, field by field.                             *)
LEMMA PassTypes ==
    ASSUME NEW a, NEW cells, NEW q, NEW st \in PassStates(a, cells, q), NEW c \in Cells
    PROVE  /\ st.cells \in [Cells -> Value] /\ st.cells[c] \in Value
           /\ PassedValue(cells[c], st.cells[c], c)
           /\ st.que \in [Slots -> ItemType]
           /\ st.synced \in BOOLEAN /\ st.ee \in Nat /\ st.tm \in Nat
BY DEF PassStates

(* A round of the first loop keeps it: a temperature out of range is       *)
(* replaced before it is sent.                                             *)
LEMMA BasicPassed ==
    ASSUME NEW a \in Clients, NEW cells, NEW q, NEW st \in PassStates(a, cells, q),
           NEW c \in Basics
    PROVE  BasicUpdate(a, st, c) \in PassStates(a, cells, q)
<1> DEFINE v == st.cells[c]
           n == AfterNeedsWrite(v)
           w == CheckedTemp(c, n)
<1>1. c \in Cells
    BY ProtocolFacts
<1>2. v \in Value /\ PassedValue(cells[c], v, c)
    BY <1>1, PassTypes
<1>3. n \in Value /\ PassedValue(cells[c], n, c)
    BY <1>2, AskedPassed
<1> HIDE DEF n, v
<1>4. /\ w \in Value /\ PassedValue(cells[c], w, c)
      /\ c = Temp => w.requested \notin OutOfRange
    <2>1. CASE c = Temp /\ n.requested \in OutOfRange
        <3>1. w = ResetRequested(n)
            BY <2>1 DEF CheckedTemp
        <3>2. /\ w \in Value /\ w.remote = n.remote
              /\ w.requested = n.remote /\ w.wanted = FALSE
            BY <1>3, <3>1, ResetValue
        <3> HIDE DEF w
        <3> QED
            BY <1>3, <2>1, <3>2 DEF PassedValue
    <2>2. CASE ~(c = Temp /\ n.requested \in OutOfRange)
        BY <1>3, <2>2 DEF CheckedTemp
    <2> QED
        BY <2>1, <2>2
<1> HIDE DEF w
<1>5. w.requested \in Contents
    BY <1>4 DEF Value
<1>6. Write(c, w.requested) \in SafeCommands
    BY <1>1, <1>4, <1>5, CommandsSafe
<1> DEFINE s == [st EXCEPT !.cells[c] = w]
<1>7. s \in PassStates(a, cells, q) /\ [st EXCEPT !.cells[c] = n] \in PassStates(a, cells, q)
    BY <1>1, <1>3, <1>4, ValuePassed
<1>8. BasicBytes \in Nat
    BY DEF BasicBytes
<1>9. Enqueue(s, a, Write(c, w.requested), BasicBytes, BasicBytes) \in PassStates(a, cells, q)
    <2> HIDE DEF s
    <2> QED
        BY <1>6, <1>7, <1>8, EnqueuePassed
<1> QED
    BY <1>7, <1>9 DEF BasicUpdate, v, n, w

(* A round of the second loop keeps it.                                    *)
LEMMA EepromPassed ==
    ASSUME NEW a \in Clients, NEW cells, NEW q, NEW st \in PassStates(a, cells, q),
           NEW c \in Eeproms
    PROVE  EepromUpdate(a, st, c) \in PassStates(a, cells, q)
<1> DEFINE v == st.cells[c]
           w == AfterNeedsRead(v)
           n == AfterNeedsWrite(w)
<1>1. c \in Cells /\ c # Temp
    BY ProtocolFacts
<1>2. v \in Value /\ PassedValue(cells[c], v, c) /\ st.ee \in Nat
    BY <1>1, PassTypes
<1>3. w \in Value /\ PassedValue(cells[c], w, c)
    BY <1>2, AskedPassed
<1>4. n \in Value /\ PassedValue(cells[c], n, c)
    BY <1>3, AskedPassed
<1> HIDE DEF n, w
<1>5. w.requested \in Contents
    BY <1>3 DEF Value
<1>6. Write(c, w.requested) \in SafeCommands /\ Read(c) \in SafeCommands
    BY <1>1, <1>5, CommandsSafe
<1>7. /\ [st EXCEPT !.cells[c] = n] \in PassStates(a, cells, q)
      /\ st.ee > 0 => /\ [st EXCEPT !.cells[c] = n, !.ee = @ - 1] \in PassStates(a, cells, q)
                      /\ [st EXCEPT !.cells[c] = w, !.ee = @ - 1] \in PassStates(a, cells, q)
    BY <1>1, <1>3, <1>4, ValuePassed
<1>8. EepromAsked \in Nat /\ EepromReadBytes \in Nat
    BY DEF EepromAsked, EepromReadBytes
<1>9. CASE st.ee = 0
    BY <1>9 DEF EepromUpdate
<1>10. CASE st.ee > 0 /\ NeedsRead(v)
    <2>1. EepromUpdate(a, st, c) =
             Enqueue([st EXCEPT !.cells[c] = w, !.ee = @ - 1], a, Read(c),
                     EepromAsked, EepromReadBytes)
        BY <1>2, <1>10 DEF EepromUpdate, w
    <2> QED
        BY <1>6, <1>7, <1>8, <1>10, <2>1, EnqueuePassed
<1>11. CASE st.ee > 0 /\ ~NeedsRead(v) /\ NeedsWrite(w)
    <2>1. EepromUpdate(a, st, c) =
             Enqueue([st EXCEPT !.cells[c] = n, !.ee = @ - 1], a,
                     Write(c, w.requested), EepromAsked, EepromAsked)
        BY <1>2, <1>11 DEF EepromUpdate, w, n
    <2> QED
        BY <1>6, <1>7, <1>8, <1>11, <2>1, EnqueuePassed
<1>12. CASE st.ee > 0 /\ ~NeedsRead(v) /\ ~NeedsWrite(w)
    <2>1. EepromUpdate(a, st, c) = [st EXCEPT !.cells[c] = n]
        BY <1>2, <1>12 DEF EepromUpdate, w, n
    <2> QED
        BY <1>7, <2>1
<1> QED
    BY <1>2, <1>9, <1>10, <1>11, <1>12

(* A round of the third loop keeps it.                                     *)
LEMMA TimerPassed ==
    ASSUME NEW a \in Clients, NEW cells, NEW q, NEW st \in PassStates(a, cells, q),
           NEW c \in Timers
    PROVE  TimerUpdate(a, st, c) \in PassStates(a, cells, q)
<1>1. c \in Cells /\ c # Temp
    BY ProtocolFacts
<1>2. TimerReadBytes \in Nat /\ TimerWriteBytes \in Nat
    BY DEF TimerReadBytes, TimerWriteBytes
<1>3. ASSUME st.tm # 0
      PROVE  TimerRead(a, st, c) \in PassStates(a, cells, q)
    <2> DEFINE v == st.cells[c]
               s == [st EXCEPT !.cells[c] = AfterNeedsRead(v)]
    <2>1. v \in Value /\ PassedValue(cells[c], v, c)
        BY <1>1, PassTypes
    <2>2. s \in PassStates(a, cells, q)
        BY <1>1, <2>1, AskedPassed, ValuePassed
    <2>3. s.tm = st.tm
        BY DEF PassStates
    <2>4. TimerRead(a, st, c) =
             IF NeedsRead(v) THEN Enqueue([s EXCEPT !.tm = @ - 1], a, Read(c),
                                          TimerReadBytes, TimerReadBytes)
             ELSE s
        BY DEF TimerRead
    <2> HIDE DEF s
    <2>5. [s EXCEPT !.tm = @ - 1] \in PassStates(a, cells, q)
        BY <1>3, <2>2, <2>3, TimerCounted
    <2>6. Read(c) \in SafeCommands
        BY <1>1, CommandsSafe
    <2> QED
        BY <1>2, <2>2, <2>4, <2>5, <2>6, EnqueuePassed
<1>4. ASSUME NEW u \in PassStates(a, cells, q), u.tm # 0
      PROVE  TimerWrite(a, u, c) \in PassStates(a, cells, q)
    <2> DEFINE v == u.cells[c]
               s == [u EXCEPT !.cells[c] = AfterNeedsWrite(v)]
    <2>1. v \in Value /\ PassedValue(cells[c], v, c)
        BY <1>1, PassTypes
    <2>2. s \in PassStates(a, cells, q)
        BY <1>1, <2>1, AskedPassed, ValuePassed
    <2>3. s.tm = u.tm
        BY DEF PassStates
    <2>4. TimerWrite(a, u, c) =
             IF NeedsWrite(v)
             THEN Enqueue([s EXCEPT !.tm = @ - 1], a,
                          Write(c, PushedByte(v.requested)),
                          TimerWriteBytes, TimerWriteBytes)
             ELSE s
        BY DEF TimerWrite
    <2> HIDE DEF s
    <2>5. [s EXCEPT !.tm = @ - 1] \in PassStates(a, cells, q)
        BY <1>4, <2>2, <2>3, TimerCounted
    <2>6. Write(c, PushedByte(v.requested)) \in SafeCommands
        <3>1. PushedByte(v.requested) \in Contents
            BY ProtocolFacts DEF PushedByte
        <3> QED
            BY <1>1, <3>1, CommandsSafe
    <2> QED
        BY <1>2, <2>2, <2>4, <2>5, <2>6, EnqueuePassed
<1> QED
    BY <1>3, <1>4 DEF TimerUpdate

(* So the whole of queue_updates_for keeps it.                             *)
LEMMA UpdatesPassed ==
    ASSUME NEW a \in Clients, NEW cells \in [Cells -> Value],
           NEW q \in [Slots -> ItemType], cells[Temp].remote \notin OutOfRange
    PROVE  Updates(a, cells, q) \in PassStates(a, cells, q)
<1> DEFINE D     == PassStates(a, cells, q)
           start == [cells |-> cells, que |-> q, synced |-> TRUE,
                     ee |-> MaxEeprom, tm |-> MaxTimers]
           read  == EepromPass(a, BasicPass(a, start))
           done  == IF read.ee = MaxEeprom THEN TimerPass(a, read) ELSE read
<1>1. start \in D
    BY ProtocolFacts DEF PassStates, PassedValue
<1> HIDE DEF D, start
<1>2. BasicPass(a, start) \in D
    <2>1. \A st \in D, i \in 1 .. Len(BasicSeq) : BasicUpdate(a, st, BasicSeq[i]) \in D
        <3>1. \A i \in 1 .. Len(BasicSeq) : BasicSeq[i] \in Basics
            BY ProtocolAssumption
        <3> QED
            BY <3>1, BasicPassed DEF D
    <2> QED
        BY <1>1, <2>1, BasicLoop
<1>3. read \in D
    <2>1. \A st \in D, i \in 1 .. Len(EepromSeq) : EepromUpdate(a, st, EepromSeq[i]) \in D
        <3>1. \A i \in 1 .. Len(EepromSeq) : EepromSeq[i] \in Eeproms
            BY ProtocolAssumption
        <3> QED
            BY <3>1, EepromPassed DEF D
    <2> QED
        BY <1>2, <2>1, EepromLoop
<1> HIDE DEF read
<1>4. TimerPass(a, read) \in D
    <2>1. \A st \in D, i \in 1 .. Len(TimerSeq) : TimerUpdate(a, st, TimerSeq[i]) \in D
        <3>1. \A i \in 1 .. Len(TimerSeq) : TimerSeq[i] \in Timers
            BY ProtocolAssumption
        <3> QED
            BY <3>1, TimerPassed DEF D
    <2> QED
        BY <1>3, <2>1, TimerLoop
<1>5. done \in D
    BY <1>3, <1>4
<1>6. Updates(a, cells, q) =
         IF done.synced THEN [done EXCEPT !.que = Queued(done.que, a, AckCmd, 0, 0, 0)]
         ELSE done
    BY DEF Updates, start, read
<1> HIDE DEF done
<1> DEFINE T == [cells : [Cells -> Value], que : [Slots -> ItemType],
                 synced : BOOLEAN, ee : Nat, tm : Nat]
           r == Queued(done.que, a, AckCmd, 0, 0, 0)
           x == [done EXCEPT !.que = r]
<1>7. /\ done \in T
      /\ \A d \in Cells : PassedValue(cells[d], done.cells[d], d)
      /\ \A s \in Slots : done.que[s].addr \in {q[s].addr, a}
    BY <1>5 DEF PassStates, D
<1>8. r \in [Slots -> ItemType] /\ \A s \in Slots : r[s].addr \in {done.que[s].addr, a}
    <2>1. done.que \in [Slots -> ItemType] /\ 0 \in Int /\ 0 \in Nat
        BY <1>7
    <2> QED
        BY <2>1, QueuedType
<1> HIDE DEF r
<1>9. x \in T /\ x.cells = done.cells /\ x.que = r
    BY <1>7, <1>8
<1> HIDE DEF x
<1>10. x \in D
    BY <1>7, <1>8, <1>9 DEF PassStates, D
<1> QED
    BY <1>5, <1>6, <1>10 DEF x, r, D
-----------------------------------------------------------------------------
(***************************************************************************)
(* The clients: what they have and tell stays in range as long as they are *)
(* told nothing that is not.                                               *)
(***************************************************************************)
ClientStates ==
    [vals : {v \in [Cells -> Contents] : v[Temp] \notin OutOfRange},
     out : Seq(Reports)]

(* What a client with a temperature in range tells of itself is a report.  *)
LEMMA ReportsMade ==
    /\ ShortAnswer \in Reports
    /\ \A vals \in [Cells -> Contents], S \in SUBSET Cells :
          vals[Temp] \notin OutOfRange =>
             [short |-> FALSE, vals |-> [d \in S |-> vals[d]]] \in Reports
<1>1. ShortAnswer \in Reports
    <2>1. <<>> \in [{} -> Contents] /\ DOMAIN <<>> = {}
        OBVIOUS
    <2>2. <<>> \in UNION {[S -> Contents] : S \in SUBSET Cells}
        BY <2>1
    <2> QED
        BY <2>1, <2>2 DEF ShortAnswer, Reports
<1>2. ASSUME NEW vals \in [Cells -> Contents], NEW S \in SUBSET Cells,
             vals[Temp] \notin OutOfRange
      PROVE  [short |-> FALSE, vals |-> [d \in S |-> vals[d]]] \in Reports
    <2> DEFINE f == [d \in S |-> vals[d]]
    <2>1. f \in [S -> Contents] /\ (Temp \in DOMAIN f => f[Temp] = vals[Temp])
        OBVIOUS
    <2> HIDE DEF f
    <2>2. f \in UNION {[R -> Contents] : R \in SUBSET Cells}
        BY <2>1
    <2>3. [short |-> FALSE, vals |-> f] \in Reports
        BY <1>2, <2>1, <2>2 DEF Reports
    <2> QED
        BY <2>3 DEF f
<1> QED
    BY <1>1, <1>2

(* A safe command leaves the client's temperature in range.                *)
LEMMA CommandObeyed ==
    ASSUME NEW st \in ClientStates, NEW cmd \in SafeCommands
    PROVE  OnCommand(st, cmd) \in ClientStates
<1> DEFINE vals == IF cmd.op = "write" THEN [st.vals EXCEPT ![cmd.cell] = cmd.val]
                                      ELSE st.vals
           told == Told(vals, cmd.cell)
<1>1. /\ st.vals \in [Cells -> Contents] /\ st.vals[Temp] \notin OutOfRange
      /\ st.out \in Seq(Reports)
    BY DEF ClientStates
<1>2. /\ cmd.cell \in Cells /\ cmd.val \in Contents
      /\ cmd.op = "write" /\ cmd.cell = Temp => cmd.val \notin OutOfRange
    BY DEF SafeCommands, Commands
<1>3. vals \in [Cells -> Contents] /\ vals[Temp] \notin OutOfRange
    BY <1>1, <1>2, ProtocolFacts
<1>4. OnCommand(st, cmd) =
         IF cmd = Write(Temp, cmd.val) /\ cmd.val \in Refused
         THEN [st EXCEPT !.out = Append(st.out, ShortAnswer)]
         ELSE [vals |-> vals, out |-> Append(st.out, told)]
    BY DEF OnCommand
<1> HIDE DEF vals
<1>5. told \in Reports
    <2> DEFINE S == IF cmd.cell \in {Temp, AutoMode} THEN Basics ELSE {cmd.cell}
    <2>1. S \in SUBSET Cells
        BY <1>2, ProtocolFacts
    <2>2. told = [short |-> FALSE, vals |-> [d \in S |-> vals[d]]]
        BY DEF Told
    <2> HIDE DEF S, told
    <2> QED
        BY <1>3, <2>1, <2>2, ReportsMade
<1> HIDE DEF told
<1>6. Append(st.out, ShortAnswer) \in Seq(Reports) /\ Append(st.out, told) \in Seq(Reports)
    BY <1>1, <1>5, ReportsMade
<1>7. [st EXCEPT !.out = Append(st.out, ShortAnswer)] \in ClientStates
    BY <1>6 DEF ClientStates
<1>8. [vals |-> vals, out |-> Append(st.out, told)] \in ClientStates
    BY <1>3, <1>6 DEF ClientStates
<1> QED
    BY <1>4, <1>7, <1>8

(* So does a frame of them.                                                *)
LEMMA FrameObeyed ==
    ASSUME StateTypes, TempsKnown, NEW a \in Clients, NEW packet \in Seq(SafeCommands)
    PROVE  Obeyed(a, packet) \in ClientStates
<1>1. [vals |-> act[a], out |-> answers[a]] \in ClientStates
    BY DEF StateTypes, TempsKnown, ClientStates
<1>2. \A st \in ClientStates, i \in 1 .. Len(packet) :
         OnCommand(st, packet[i]) \in ClientStates
    BY CommandObeyed
<1> QED
    BY <1>1, <1>2, ObeyedLoop
-----------------------------------------------------------------------------
(* The invariant holds at the start.                                       *)
LEMMA InitIInv == Init => IInv
<1> SUFFICES ASSUME Init PROVE IInv
    OBVIOUS
<1>1. NewValue \in Value /\ NewEepromValue \in Value
    <2>1. 0 \in 0 .. RetrySteps
        BY ProtocolFacts
    <2> QED
        BY <2>1, ProtocolFacts DEF NewValue, NewEepromValue, Value
<1>2. NewHR \in HR /\ NewHR.contacted = FALSE
    BY <1>1 DEF NewHR, HR
<1> DEFINE x == CHOOSE y \in Contents : y \notin NotTaken
<1>3. x \in Contents /\ x \notin OutOfRange
    <2>1. \E y \in Contents : y \notin NotTaken
        BY ProtocolAssumption DEF NotTaken
    <2> QED
        BY <2>1 DEF NotTaken
<1>4. act = [a \in Clients |-> [c \in Cells |-> x]]
    BY DEF Init
<1> HIDE DEF x
<1>5. /\ act \in [Clients -> [Cells -> Contents]]
      /\ \A a \in Clients : act[a][Temp] \notin OutOfRange
    BY <1>3, <1>4, ProtocolFacts
<1>6. hr \in [Clients -> HR] /\ \A a \in Clients : ~hr[a].contacted
    BY <1>2 DEF Init
<1>7. /\ answers \in [Clients -> Seq(Reports)]
      /\ \A a \in Clients : answers[a] = <<>>
    BY DEF Init
<1>8. /\ que \in [Slots -> ItemType] /\ tx \in TxType
      /\ \A a \in Clients : tx.to # a /\ \A s \in Slots : que[s].addr # a
    BY EmptyQueueType, NotSendingType, AddressesDiffer DEF Init
<1>9. /\ ss \in 0 .. Minute - 1 /\ lastAddr \in Clients \cup {NoClient}
      /\ forced \subseteq Clients /\ turn \in [Clients -> BOOLEAN]
    BY ProtocolAssumption DEF Init
<1> QED
    BY <1>5, <1>6, <1>7, <1>8, <1>9
       DEF IInv, StateTypes, TempsKnown, AddressedAreKnown

(* A valid packet, once its temperature is known to be in range. *)
LEMMA ReceiveFacts ==
    ASSUME IInv, NEW a \in Clients, NEW packet \in Seq(Reports),
           Receive(a, packet),
           Reported(hr[a], packet).cells[Temp].remote \notin OutOfRange
    PROVE  /\ hr' \in [Clients -> HR]
           /\ que' \in [Slots -> ItemType]
           /\ tx' \in TxType
           /\ lastAddr' \in Clients \cup {NoClient}
           /\ \A b \in Clients : b # a => hr'[b] = hr[b]
           /\ hr'[a].contacted
           /\ hr'[a].cells[Temp].remote \notin OutOfRange
           /\ \A c \in Cells :
                 hr[a].cells[c].wanted /\ ~hr'[a].cells[c].wanted =>
                    \/ Tells(packet, c, hr[a].cells[c].requested)
                    \/ c = Temp /\ Refuses(packet)
                    \/ c = Temp /\ hr[a].cells[c].requested \in OutOfRange
           /\ \A s \in Slots : que'[s].addr \in {que[s].addr, a, InFlight}
           /\ tx'.to \in {tx.to, a}
<1> DEFINE h    == hr[a]
           got  == Reported(h, packet)
           upd  == Updates(a, got.cells, que)
           more == \E s, t \in UpdateCount(upd.que, a) : s # t
           new  == [contacted |-> TRUE, synced |-> upd.synced,
                    fat |-> more, cells |-> upd.cells]
           old  == [h EXCEPT !.contacted = TRUE, !.cells = got.cells]
<1>1. /\ hr \in [Clients -> HR] /\ que \in [Slots -> ItemType] /\ tx \in TxType
      /\ lastAddr \in Clients \cup {NoClient} /\ h \in HR
    BY DEF IInv, StateTypes
<1>2. got \in HeardStates(h, packet)
    BY <1>1, ReportedHeard
<1>3. /\ got.cells \in [Cells -> Value] /\ got.cells[Temp].remote \notin OutOfRange
      /\ \A c \in Cells : HeardValue(h.cells[c], got.cells[c], packet, c)
    BY <1>2 DEF HeardStates
<1>4. \/ /\ hr' = [hr EXCEPT ![a] = new]
         /\ que' = PreparedQueue(upd.que, tx, a)
         /\ tx' = PreparedTx(upd.que, tx, a)
         /\ lastAddr' = a
      \/ /\ hr' = [hr EXCEPT ![a] = old]
         /\ UNCHANGED <<que, tx, lastAddr>>
    <2>1. [hr EXCEPT ![a].contacted = TRUE, ![a].cells = got.cells]
             = [hr EXCEPT ![a] = old]
        BY <1>1
    <2> QED
        BY <2>1 DEF Receive
<1> HIDE DEF got, h
<1>5. CASE /\ hr' = [hr EXCEPT ![a] = new]
           /\ que' = PreparedQueue(upd.que, tx, a)
           /\ tx' = PreparedTx(upd.que, tx, a)
           /\ lastAddr' = a
    <2>1. upd \in PassStates(a, got.cells, que)
        BY <1>1, <1>3, UpdatesPassed
    <2> HIDE DEF upd
    <2>2. /\ upd.cells \in [Cells -> Value] /\ upd.que \in [Slots -> ItemType]
          /\ upd.synced \in BOOLEAN
          /\ \A c \in Cells : PassedValue(got.cells[c], upd.cells[c], c)
          /\ \A s \in Slots : upd.que[s].addr \in {que[s].addr, a}
        BY <2>1 DEF PassStates
    <2>3. more \in BOOLEAN
        OBVIOUS
    <2> HIDE DEF more
    <2>4. new \in HR /\ new.contacted = TRUE /\ new.cells = upd.cells
        BY <2>2, <2>3 DEF HR
    <2> HIDE DEF new
    <2>5. /\ que' \in [Slots -> ItemType] /\ tx' \in TxType
          /\ \A s \in Slots : que'[s].addr \in {upd.que[s].addr, InFlight}
          /\ tx'.to \in {tx.to, a}
        BY <1>1, <1>5, <2>2, PreparedType
    <2>6. \A s \in Slots : que'[s].addr \in {que[s].addr, a, InFlight}
        BY <2>2, <2>5
    <2>7. hr' \in [Clients -> HR] /\ hr'[a] = new
          /\ \A b \in Clients : b # a => hr'[b] = hr[b]
        BY <1>1, <1>5, <2>4
    <2>8. hr'[a].cells[Temp].remote \notin OutOfRange
        BY <2>2, <2>4, <2>7, ProtocolFacts DEF PassedValue
    <2>9. ASSUME NEW c \in Cells, h.cells[c].wanted, ~hr'[a].cells[c].wanted
          PROVE  \/ Tells(packet, c, h.cells[c].requested)
                 \/ c = Temp /\ Refuses(packet)
                 \/ c = Temp /\ h.cells[c].requested \in OutOfRange
        <3>1. ~upd.cells[c].wanted
            BY <2>4, <2>7, <2>9
        <3>2. CASE got.cells[c].wanted
            BY <1>3, <2>2, <3>1, <3>2 DEF HeardValue, PassedValue
        <3>3. CASE ~got.cells[c].wanted
            BY <1>3, <2>9, <3>3 DEF HeardValue
        <3> QED
            BY <3>2, <3>3
    <2> QED
        BY <1>5, <2>4, <2>5, <2>6, <2>7, <2>8, <2>9 DEF h
<1>6. CASE /\ hr' = [hr EXCEPT ![a] = old]
           /\ UNCHANGED <<que, tx, lastAddr>>
    <2>1. old \in HR /\ old.contacted = TRUE /\ old.cells = got.cells
        BY <1>1, <1>3 DEF HR
    <2> HIDE DEF old
    <2>2. hr' \in [Clients -> HR] /\ hr'[a] = old
          /\ \A b \in Clients : b # a => hr'[b] = hr[b]
        BY <1>1, <1>6, <2>1
    <2>3. ASSUME NEW c \in Cells, h.cells[c].wanted, ~hr'[a].cells[c].wanted
          PROVE  \/ Tells(packet, c, h.cells[c].requested)
                 \/ c = Temp /\ Refuses(packet)
        BY <1>3, <2>1, <2>2, <2>3 DEF HeardValue
    <2> QED
        BY <1>1, <1>3, <1>6, <2>1, <2>2, <2>3 DEF h
<1> QED
    BY <1>4, <1>5, <1>6

(* What a client sends is reports, and the temperature the master has of it *)
(* afterwards is in range.                                                  *)
LEMMA PacketHeard ==
    ASSUME IInv, NEW a \in Clients
    PROVE  /\ answers[a] \in Seq(Reports)
           /\ Append(answers[a], Values(a, Basics)) \in Seq(Reports)
           /\ answers[a] # <<>> =>
                 Reported(hr[a], answers[a]).cells[Temp].remote \notin OutOfRange
           /\ Reported(hr[a], Append(answers[a], Values(a, Basics))).cells[Temp].remote
                 \notin OutOfRange
<1> DEFINE r == Values(a, Basics)
           p == Append(answers[a], r)
<1>1. /\ hr[a] \in HR /\ answers[a] \in Seq(Reports)
      /\ act[a] \in [Cells -> Contents] /\ act[a][Temp] \notin OutOfRange
    BY DEF IInv, StateTypes, TempsKnown
<1>2. r \in Reports /\ ~r.short /\ Temp \in DOMAIN r.vals
    <2>1. r = [short |-> FALSE, vals |-> [c \in Basics |-> act[a][c]]]
        BY DEF Values
    <2>2. r \in Reports
        BY <1>1, <2>1, ReportsMade, ProtocolFacts
    <2> QED
        BY <2>1, <2>2, ProtocolFacts
<1>3. p \in Seq(Reports)
    BY <1>1, <1>2
<1> HIDE DEF r
<1>4. ASSUME hr[a].contacted, NEW packet \in Seq(Reports)
      PROVE  Reported(hr[a], packet).cells[Temp].remote \notin OutOfRange
    <2>1. hr[a].cells[Temp].remote \notin OutOfRange
        BY <1>4 DEF IInv, TempsKnown
    <2>2. Reported(hr[a], packet) \in HeardStates(hr[a], packet)
        BY <1>1, ReportedHeard
    <2> QED
        BY <2>1, <2>2, ProtocolFacts DEF HeardStates, HeardValue
<1>5. CASE hr[a].contacted
    BY <1>1, <1>3, <1>4, <1>5 DEF r
<1>6. CASE ~hr[a].contacted
    <2>1. answers[a] = <<>>
        BY <1>6 DEF IInv, AddressedAreKnown
    <2>2. p = <<r>>
        BY <2>1
    <2>3. Reported(hr[a], <<r>>).cells[Temp].remote \notin OutOfRange
        BY <1>1, <1>2, FirstReport
    <2> QED
        BY <1>1, <1>3, <2>1, <2>2, <2>3 DEF r
<1> QED
    BY <1>5, <1>6
-----------------------------------------------------------------------------
(* Each action keeps the invariant.  A packet heard: *)
LEMMA HeardIInv ==
    ASSUME IInv, NEW a \in Clients, NEW packet \in Seq(Reports), Receive(a, packet),
           Reported(hr[a], packet).cells[Temp].remote \notin OutOfRange,
           UNCHANGED <<ss, forced, act>>, turn' \in [Clients -> BOOLEAN],
           answers' = [answers EXCEPT ![a] = <<>>]
    PROVE  IInv'
<1>1. /\ hr' \in [Clients -> HR] /\ que' \in [Slots -> ItemType]
      /\ tx' \in TxType /\ lastAddr' \in Clients \cup {NoClient}
      /\ \A b \in Clients : b # a => hr'[b] = hr[b]
      /\ hr'[a].contacted /\ hr'[a].cells[Temp].remote \notin OutOfRange
      /\ \A s \in Slots : que'[s].addr \in {que[s].addr, a, InFlight}
      /\ tx'.to \in {tx.to, a}
    BY ReceiveFacts
<1>2. /\ answers' \in [Clients -> Seq(Reports)]
      /\ \A b \in Clients : b # a => answers'[b] = answers[b]
    <2>1. answers \in [Clients -> Seq(Reports)] /\ <<>> \in Seq(Reports)
        BY DEF IInv, StateTypes
    <2> QED
        BY <2>1
<1>3. StateTypes'
    BY <1>1, <1>2 DEF IInv, StateTypes
<1>4. TempsKnown'
    BY <1>1 DEF IInv, TempsKnown
<1>5. AddressedAreKnown'
    BY <1>1, <1>2, AddressesDiffer DEF IInv, AddressedAreKnown
<1> QED
    BY <1>3, <1>4, <1>5 DEF IInv

(* A report that is heard keeps the invariant.                             *)
LEMMA ReportHeardIInv ==
    ASSUME IInv, NEW a \in Clients, ReportHeard(a) PROVE IInv'
<1>1. turn' \in [Clients -> BOOLEAN]
    BY DEF IInv, StateTypes, ReportHeard, Reporting
<1> QED
    BY <1>1, PacketHeard, HeardIInv DEF ReportHeard, Reporting, Heard

(* An answer that is heard keeps the invariant.                            *)
LEMMA AnswerHeardIInv ==
    ASSUME IInv, NEW a \in Clients, AnswerHeard(a) PROVE IInv'
<1>1. turn' \in [Clients -> BOOLEAN]
    BY DEF IInv, StateTypes, AnswerHeard, Answering
<1> QED
    BY <1>1, PacketHeard, HeardIInv DEF AnswerHeard, Answering, Heard

(* A packet lost. *)
LEMMA LostIInv ==
    ASSUME IInv, NEW a \in Clients, ReportLost(a) \/ AnswerLost(a)
    PROVE  IInv'
<1>1. /\ UNCHANGED <<hr, que, tx, ss, lastAddr, forced, act>>
      /\ turn' \in [Clients -> BOOLEAN]
      /\ answers' = [answers EXCEPT ![a] = <<>>]
    BY DEF ReportLost, AnswerLost, Reporting, Answering, NotHeard, masterVars,
           IInv, StateTypes
<1>2. /\ answers' \in [Clients -> Seq(Reports)]
      /\ \A b \in Clients : answers'[b] \in {answers[b], <<>>}
    <2>1. answers \in [Clients -> Seq(Reports)] /\ <<>> \in Seq(Reports)
        BY DEF IInv, StateTypes
    <2> QED
        BY <1>1, <2>1
<1>3. StateTypes'
    BY <1>1, <1>2 DEF IInv, StateTypes
<1>4. TempsKnown'
    BY <1>1 DEF IInv, TempsKnown
<1>5. AddressedAreKnown'
    BY <1>1, <1>2 DEF IInv, AddressedAreKnown
<1> QED
    BY <1>3, <1>4, <1>5 DEF IInv

(* A new second: only the sync packet is queued. *)
LEMMA NewSecondIInv == ASSUME IInv, NewSecond PROVE IInv'
<1>1. /\ que \in [Slots -> ItemType] /\ tx \in TxType /\ ss \in 0 .. Minute - 1
      /\ forced \subseteq Clients /\ turn \in [Clients -> BOOLEAN]
    BY DEF IInv, StateTypes
<1>2. /\ Aged(que, 1) \in [Slots -> ItemType]
      /\ \A s \in Slots : Aged(que, 1)[s].addr = que[s].addr
    BY <1>1, AgedType
<1>3. /\ que' \in [Slots -> ItemType] /\ tx' \in TxType /\ forced' \subseteq Clients
      /\ \A s \in Slots : que'[s].addr \in {que[s].addr, Free, SyncAddr, InFlight}
      /\ tx'.to \in {tx.to, Free, SyncAddr}
    <2>1. CASE NoSync
        BY <1>1, <1>2, <2>1 DEF NoSync
    <2>2. CASE SyncAt(ss')
        <3> DEFINE t == ss'
                   q == IF t = 0 THEN EmptyQueue ELSE Aged(que, 1)
                   u == TxAt(t)
                   w == QueueAt(t)
        <3>1. q \in [Slots -> ItemType] /\ \A s \in Slots : q[s].addr \in {que[s].addr, Free}
            BY <1>2, EmptyQueueType
        <3>2. u \in TxType /\ u.to \in {tx.to, Free}
            BY <1>1, NotSendingType DEF TxAt
        <3>3. w = Queued(q, SyncAddr, SyncCmd, SyncBytes, SyncBytes, TzOffset)
            BY DEF QueueAt
        <3>4. que' = PreparedQueue(w, u, SyncAddr) /\ tx' = PreparedTx(w, u, SyncAddr)
            BY <2>2 DEF SyncAt
        <3>5. forced' \subseteq Clients
            BY <2>2 DEF SyncAt
        <3> HIDE DEF q, u, w
        <3>6. /\ w \in [Slots -> ItemType]
              /\ \A s \in Slots : w[s].addr \in {q[s].addr, SyncAddr}
            <4>1. /\ SyncCmd \in SafeCommands /\ SyncBytes \in Nat /\ TzOffset \in Int
                BY CommandsSafe, QueueAssumption DEF SyncBytes
            <4> QED
                BY <3>1, <3>3, <4>1, QueuedType
        <3>7. /\ que' \in [Slots -> ItemType] /\ tx' \in TxType
              /\ \A s \in Slots : que'[s].addr \in {w[s].addr, InFlight}
              /\ tx'.to \in {u.to, SyncAddr}
            BY <3>2, <3>4, <3>6, PreparedType
        <3> QED
            BY <3>1, <3>2, <3>5, <3>6, <3>7
    <2> QED
        BY <2>1, <2>2 DEF NewSecond
<1>4. ss' \in 0 .. Minute - 1
    BY <1>1, ProtocolAssumption DEF NewSecond
<1>5. turn' \in [Clients -> BOOLEAN] /\ lastAddr' = NoClient
      /\ UNCHANGED <<hr, act, answers>>
    BY <1>1 DEF NewSecond
<1>6. StateTypes'
    BY <1>3, <1>4, <1>5 DEF IInv, StateTypes
<1>7. TempsKnown'
    BY <1>5 DEF IInv, TempsKnown
<1>8. AddressedAreKnown'
    BY <1>3, <1>5, AddressesDiffer DEF IInv, AddressedAreKnown
<1> QED
    BY <1>6, <1>7, <1>8 DEF IInv

(* The frame under way has left: its slot is free. *)
LEMMA FrameOutFacts ==
    ASSUME IInv, FrameOut
    PROVE  /\ que' \in [Slots -> ItemType] /\ tx' \in TxType
           /\ tx'.to = Free
           /\ \A s \in Slots : que'[s].addr \in {que[s].addr, Free}
           /\ UNCHANGED <<hr, ss, lastAddr, forced>>
<1>1. que \in [Slots -> ItemType]
    BY DEF IInv, StateTypes
<1>2. que' = [que EXCEPT ![tx.slot] = FreeItem] /\ tx' = NotSending
    BY DEF FrameOut
<1> QED
    BY <1>1, <1>2, FreeItemType, NotSendingType DEF FrameOut

(* A frame that reaches a client keeps the invariant.                      *)
LEMMA FrameHeardIInv == ASSUME IInv, FrameHeard PROVE IInv'
<1> DEFINE a  == tx.to
           st == Obeyed(a, tx.mac)
<1>1. a \in Clients /\ tx.mac \in Seq(SafeCommands)
    BY DEF FrameHeard, IInv, StateTypes, TxType
<1>2. st \in ClientStates
    BY <1>1, FrameObeyed DEF IInv
<1>3. act' = [act EXCEPT ![a] = st.vals] /\ answers' = [answers EXCEPT ![a] = st.out]
      /\ turn' = turn
    BY DEF FrameHeard, ClientDoes
<1>4. hr[a].contacted
    BY <1>1 DEF IInv, AddressedAreKnown
<1> HIDE DEF st
<1>5. /\ st.vals \in [Cells -> Contents] /\ st.vals[Temp] \notin OutOfRange
      /\ st.out \in Seq(Reports)
    BY <1>2 DEF ClientStates
<1>6. /\ que' \in [Slots -> ItemType] /\ tx' \in TxType /\ tx'.to = Free
      /\ \A s \in Slots : que'[s].addr \in {que[s].addr, Free}
      /\ UNCHANGED <<hr, ss, lastAddr, forced>>
    BY FrameOutFacts DEF FrameHeard
<1>7. /\ act' \in [Clients -> [Cells -> Contents]]
      /\ \A b \in Clients : act'[b][Temp] \notin OutOfRange
    BY <1>1, <1>3, <1>5 DEF IInv, StateTypes, TempsKnown
<1>8. /\ answers' \in [Clients -> Seq(Reports)]
      /\ \A b \in Clients : b # a => answers'[b] = answers[b]
    BY <1>1, <1>3, <1>5 DEF IInv, StateTypes
<1>9. StateTypes'
    BY <1>3, <1>6, <1>7, <1>8 DEF IInv, StateTypes
<1>10. TempsKnown'
    BY <1>6, <1>7 DEF IInv, TempsKnown
<1>11. AddressedAreKnown'
    BY <1>4, <1>6, <1>8, AddressesDiffer DEF IInv, AddressedAreKnown
<1> QED
    BY <1>9, <1>10, <1>11 DEF IInv

(* A frame that leaves keeps the invariant, whoever hears it.              *)
LEMMA FrameGoneIInv ==
    ASSUME IInv, FrameOut, UNCHANGED <<act, answers>>,
           turn' \in [Clients -> BOOLEAN]
    PROVE  IInv'
<1>1. /\ que' \in [Slots -> ItemType] /\ tx' \in TxType /\ tx'.to = Free
      /\ \A s \in Slots : que'[s].addr \in {que[s].addr, Free}
      /\ UNCHANGED <<hr, ss, lastAddr, forced>>
    BY FrameOutFacts
<1>2. StateTypes'
    BY <1>1 DEF IInv, StateTypes
<1>3. TempsKnown'
    BY <1>1 DEF IInv, TempsKnown
<1>4. AddressedAreKnown'
    BY <1>1, AddressesDiffer DEF IInv, AddressedAreKnown
<1> QED
    BY <1>2, <1>3, <1>4 DEF IInv

(* Clients that hear the sync packet keep the invariant.                   *)
LEMMA SyncHeardIInv ==
    ASSUME IInv, NEW S \in SUBSET forced, SyncHeard(S) PROVE IInv'
<1>1. turn' = [b \in Clients |-> turn[b] \/ b \in S]
    BY DEF SyncHeard
<1>2. turn' \in [Clients -> BOOLEAN]
    BY <1>1, Zenon
<1> QED
    BY <1>2, FrameGoneIInv DEF SyncHeard

(* A frame that is lost keeps the invariant.                               *)
LEMMA FrameLostIInv == ASSUME IInv, FrameLost PROVE IInv'
<1>1. turn' \in [Clients -> BOOLEAN]
    BY DEF FrameLost, clientVars, IInv, StateTypes
<1> QED
    BY <1>1, FrameGoneIInv DEF FrameLost, clientVars

(* A request of the user changes what is requested, and takes no request    *)
(* away.                                                                    *)
AsksOnly(a, cells) ==
    \E synced \in BOOLEAN :
       hr' = [hr EXCEPT ![a] = [hr[a] EXCEPT !.cells = cells, !.synced = synced]]

(* A request of the user keeps the invariant and gives no other one up,    *)
(* when it takes no request away and leaves the reported temperature alone.*)
LEMMA AskIInv ==
    ASSUME IInv, NEW a \in Clients, NEW cells \in [Cells -> Value],
           AsksOnly(a, cells),
           cells[Temp].remote = hr[a].cells[Temp].remote,
           \A c \in Cells : hr[a].cells[c].wanted => cells[c].wanted,
           UNCHANGED <<que, tx, ss, lastAddr, forced, act, answers, turn>>
    PROVE  /\ IInv'
           /\ \A b \in Clients, c \in Cells : ~GivenUp(b, c)
<1>1. PICK synced \in BOOLEAN :
         hr' = [hr EXCEPT ![a] = [hr[a] EXCEPT !.cells = cells, !.synced = synced]]
    BY DEF AsksOnly
<1> DEFINE new == [hr[a] EXCEPT !.cells = cells, !.synced = synced]
<1>2. hr \in [Clients -> HR] /\ hr[a] \in HR
    BY DEF IInv, StateTypes
<1>3. new \in HR /\ new.contacted = hr[a].contacted /\ new.cells = cells
    BY <1>2 DEF HR
<1>4. /\ hr' \in [Clients -> HR] /\ hr'[a] = new
      /\ \A b \in Clients : b # a => hr'[b] = hr[b]
    BY <1>1, <1>2, <1>3
<1> HIDE DEF new
<1>5. \A b \in Clients : /\ hr'[b].contacted = hr[b].contacted
                         /\ hr'[b].cells[Temp].remote = hr[b].cells[Temp].remote
    BY <1>3, <1>4
<1>6. StateTypes'
    BY <1>4 DEF IInv, StateTypes
<1>7. TempsKnown'
    BY <1>5 DEF IInv, TempsKnown
<1>8. AddressedAreKnown'
    BY <1>5 DEF IInv, AddressedAreKnown
<1>9. \A b \in Clients, c \in Cells : ~GivenUp(b, c)
    BY <1>3, <1>4 DEF GivenUp
<1> QED
    BY <1>6, <1>7, <1>8, <1>9 DEF IInv

(* A request to write is one of those.                                     *)
LEMMA AskWriteIInv ==
    ASSUME IInv, NEW a \in Clients, NEW c \in Cells, NEW x \in Contents,
           AskWrite(a, c, x)
    PROVE  IInv' /\ \A b \in Clients, d \in Cells : ~GivenUp(b, d)
<1> DEFINE v == hr[a].cells[c]
           cells == [hr[a].cells EXCEPT ![c] = SetRequested(v, x)]
<1>1. hr \in [Clients -> HR] /\ hr[a].cells \in [Cells -> Value]
    BY DEF IInv, StateTypes, HR
<1>2. /\ SetRequested(v, x) \in Value /\ SetRequested(v, x).remote = v.remote
      /\ SetRequested(v, x).wanted = TRUE
    BY <1>1, RequestedValue
<1>3. [hr EXCEPT ![a].cells[c] = SetRequested(@, x), ![a].synced = FALSE]
         = [hr EXCEPT ![a] = [hr[a] EXCEPT !.cells = cells, !.synced = FALSE]]
    BY <1>1
<1>4. AsksOnly(a, cells)
    BY <1>3 DEF AskWrite, AsksOnly
<1>5. /\ cells \in [Cells -> Value] /\ cells[Temp].remote = hr[a].cells[Temp].remote
      /\ \A d \in Cells : hr[a].cells[d].wanted => cells[d].wanted
    BY <1>1, <1>2, ProtocolFacts
<1> HIDE DEF cells
<1> QED
    BY <1>4, <1>5, AskIInv DEF AskWrite, Asking

(* So is a request to read an eeprom cell.                                 *)
LEMMA AskEepromReadIInv ==
    ASSUME IInv, NEW a \in Clients, NEW c \in Cells, AskEepromRead(a, c)
    PROVE  IInv' /\ \A b \in Clients, d \in Cells : ~GivenUp(b, d)
<1> DEFINE v == hr[a].cells[c]
           cells == [hr[a].cells EXCEPT ![c] = AskRead(v)]
<1>1. hr \in [Clients -> HR] /\ hr[a].cells \in [Cells -> Value]
    BY DEF IInv, StateTypes, HR
<1>2. AskRead(v) \in Value /\ AskRead(v).remote = v.remote /\ AskRead(v).wanted = v.wanted
    BY <1>1, ReadAgainValue
<1>3. [hr EXCEPT ![a].cells[c] = AskRead(@), ![a].synced = FALSE]
         = [hr EXCEPT ![a] = [hr[a] EXCEPT !.cells = cells, !.synced = FALSE]]
    BY <1>1
<1>4. AsksOnly(a, cells)
    BY <1>3 DEF AskEepromRead, AsksOnly
<1>5. /\ cells \in [Cells -> Value] /\ cells[Temp].remote = hr[a].cells[Temp].remote
      /\ \A d \in Cells : hr[a].cells[d].wanted => cells[d].wanted
    BY <1>1, <1>2, ProtocolFacts
<1> HIDE DEF cells
<1> QED
    BY <1>4, <1>5, AskIInv DEF AskEepromRead, Asking

(* So is a request of a timer.                                             *)
LEMMA AskTimerIInv ==
    ASSUME IInv, NEW a \in Clients, NEW c \in Cells, NEW x \in Contents,
           AskTimer(a, c, x)
    PROVE  IInv' /\ \A b \in Clients, d \in Cells : ~GivenUp(b, d)
<1> DEFINE v == hr[a].cells[c]
           w == [v EXCEPT !.requested = x]
           cells == [hr[a].cells EXCEPT ![c] = w]
<1>1. hr \in [Clients -> HR] /\ hr[a].cells \in [Cells -> Value] /\ v \in Value
    BY DEF IInv, StateTypes, HR
<1>2. w \in Value /\ w.remote = v.remote /\ w.wanted = v.wanted
    BY <1>1 DEF Value
<1>3. [hr EXCEPT ![a].cells[c].requested = x, ![a].synced = FALSE]
         = [hr EXCEPT ![a] = [hr[a] EXCEPT !.cells = cells, !.synced = FALSE]]
    BY <1>1
<1> HIDE DEF w
<1>4. AsksOnly(a, cells)
    BY <1>3 DEF AskTimer, AsksOnly
<1>5. /\ cells \in [Cells -> Value] /\ cells[Temp].remote = hr[a].cells[Temp].remote
      /\ \A d \in Cells : hr[a].cells[d].wanted => cells[d].wanted
    BY <1>1, <1>2, ProtocolFacts
<1> HIDE DEF cells
<1> QED
    BY <1>4, <1>5, AskIInv DEF AskTimer, Asking

(* What the topic mode asks for are contents.                              *)
LEMMA ModeRequestTypes ==
    ASSUME NEW m \in Modes
    PROVE  /\ \A c \in DOMAIN NoRequest : NoRequest[c] \in Contents
           /\ \A c \in DOMAIN ModeRequest(m) : ModeRequest(m)[c] \in Contents
           /\ \A c \in DOMAIN AsTruthValue(m) : AsTruthValue(m)[c] \in Contents
<1>1. /\ 0 \in Contents /\ 1 \in Contents
      /\ TempOff \in Contents /\ TempOpen \in Contents
    BY ProtocolAssumption
<1>2. \A c \in DOMAIN NoRequest : NoRequest[c] \in Contents
    BY DEF NoRequest
<1>3. CASE m = "off"
    BY <1>1, <1>2, <1>3 DEF ModeRequest, AsTruthValue
<1>4. CASE m = "open"
    BY <1>1, <1>2, <1>4 DEF ModeRequest, AsTruthValue
<1>5. CASE m = "auto"
    BY <1>1, <1>2, <1>5 DEF ModeRequest, AsTruthValue
<1>6. CASE m = "manual"
    BY <1>1, <1>2, <1>6 DEF ModeRequest, AsTruthValue
<1> QED
    BY <1>3, <1>4, <1>5, <1>6 DEF Modes

(* Asking for contents gives values again, leaves what was reported alone  *)
(* and takes no request away.                                              *)
LEMMA RequestedCells ==
    ASSUME NEW cells \in [Cells -> Value], NEW req,
           \A c \in DOMAIN req : req[c] \in Contents
    PROVE  /\ Requested(cells, req) \in [Cells -> Value]
           /\ \A c \in Cells :
                 /\ Requested(cells, req)[c].remote = cells[c].remote
                 /\ cells[c].wanted => Requested(cells, req)[c].wanted
<1>1. ASSUME NEW c \in Cells
      PROVE  LET w == IF c \in DOMAIN req THEN SetRequested(cells[c], req[c])
                                           ELSE cells[c]
             IN  /\ w \in Value /\ w.remote = cells[c].remote
                 /\ cells[c].wanted => w.wanted
    <2>1. CASE c \in DOMAIN req
        BY <2>1, RequestedValue
    <2>2. CASE c \notin DOMAIN req
        BY <2>2
    <2> QED
        BY <2>1, <2>2
<1> QED
    BY <1>1 DEF Requested

(* So is a request by the topic mode, recognised or not.                   *)
LEMMA AskModeIInv ==
    ASSUME IInv, NEW a \in Clients, NEW m \in Modes, NEW recognised \in BOOLEAN,
           AskMode(a, m, recognised)
    PROVE  IInv' /\ \A b \in Clients, d \in Cells : ~GivenUp(b, d)
<1> DEFINE mode   == IF recognised THEN ModeRequest(m) ELSE NoRequest
           truth  == AsTruthValue(m)
           old    == hr[a].cells
           between == Requested(old, mode)
           cells  == Requested(between, truth)
           synced == hr[a].synced /\ truth = NoRequest
<1>1. hr \in [Clients -> HR] /\ old \in [Cells -> Value]
    BY DEF IInv, StateTypes, HR
<1>2. /\ \A c \in DOMAIN mode : mode[c] \in Contents
      /\ \A c \in DOMAIN truth : truth[c] \in Contents
    BY ModeRequestTypes
<1>3. hr' = [hr EXCEPT ![a] = [hr[a] EXCEPT !.cells = cells, !.synced = synced]]
    BY <1>1 DEF AskMode
<1>4. synced \in BOOLEAN
    BY Zenon
<1> HIDE DEF mode, truth, old
<1>5. /\ between \in [Cells -> Value]
      /\ \A c \in Cells : /\ between[c].remote = old[c].remote
                          /\ old[c].wanted => between[c].wanted
    BY <1>1, <1>2, RequestedCells
<1> HIDE DEF between
<1>6. /\ cells \in [Cells -> Value]
      /\ \A c \in Cells : /\ cells[c].remote = between[c].remote
                          /\ between[c].wanted => cells[c].wanted
    BY <1>2, <1>5, RequestedCells
<1>7. AsksOnly(a, cells)
    BY <1>3, <1>4 DEF AsksOnly
<1> HIDE DEF cells, synced
<1>8. /\ \A c \in Cells : cells[c].remote = hr[a].cells[c].remote
      /\ \A c \in Cells : hr[a].cells[c].wanted => cells[c].wanted
    BY <1>5, <1>6 DEF old
<1>9. UNCHANGED <<que, tx, ss, lastAddr, forced, act, answers, turn>>
    BY DEF AskMode, Asking
<1>10. /\ cells[Temp].remote = hr[a].cells[Temp].remote
       /\ \A c \in Cells : hr[a].cells[c].wanted => cells[c].wanted
    BY <1>8, ProtocolFacts
<1>11. cells \in [Cells -> Value]
    BY <1>6
<1> QED
    BY <1>7, <1>9, <1>10, <1>11, AskIInv

(* A turn of the client's wheel keeps the invariant.                       *)
LEMMA TurnWheelIInv ==
    ASSUME IInv, NEW a \in Clients, NEW x \in Contents, TurnWheel(a, x)
    PROVE  IInv'
<1>1. UNCHANGED <<hr, que, tx, ss, lastAddr, forced, answers, turn>>
    BY DEF TurnWheel
<1>2. act' = [act EXCEPT ![a][Temp] = x] /\ x \notin OutOfRange
    BY DEF TurnWheel, NotTaken
<1>3. /\ act' \in [Clients -> [Cells -> Contents]]
      /\ \A b \in Clients : act'[b][Temp] \notin OutOfRange
    BY <1>2, ProtocolFacts DEF IInv, StateTypes, TempsKnown
<1>4. StateTypes'
    BY <1>1, <1>3 DEF IInv, StateTypes
<1>5. TempsKnown'
    BY <1>1, <1>3 DEF IInv, TempsKnown
<1>6. AddressedAreKnown'
    BY <1>1 DEF IInv, AddressedAreKnown
<1> QED
    BY <1>4, <1>5, <1>6 DEF IInv

(* Every step keeps the invariant.                                         *)
LEMMA NextIInv == IInv /\ [Next]_vars => IInv'
<1> SUFFICES ASSUME IInv, [Next]_vars PROVE IInv'
    OBVIOUS
<1>1. CASE \E a \in Clients : ReportHeard(a) \/ ReportLost(a)
    BY <1>1, ReportHeardIInv, LostIInv
<1>2. CASE \E a \in Clients : AnswerHeard(a) \/ AnswerLost(a)
    BY <1>2, AnswerHeardIInv, LostIInv
<1>3. CASE \E S \in SUBSET forced : SyncHeard(S)
    BY <1>3, SyncHeardIInv
<1>4. CASE NewSecond
    BY <1>4, NewSecondIInv
<1>5. CASE FrameHeard
    BY <1>5, FrameHeardIInv
<1>6. CASE FrameLost
    BY <1>6, FrameLostIInv
<1>7. CASE \E a \in Clients, c \in Cells, x \in Contents :
              AskWrite(a, c, x) \/ AskTimer(a, c, x)
    BY <1>7, AskWriteIInv, AskTimerIInv
<1>8. CASE \E a \in Clients, c \in Cells : AskEepromRead(a, c)
    BY <1>8, AskEepromReadIInv
<1>9. CASE \E a \in Clients, m \in Modes, r \in BOOLEAN : AskMode(a, m, r)
    BY <1>9, AskModeIInv
<1>10. CASE \E a \in Clients, x \in Contents : TurnWheel(a, x)
    BY <1>10, TurnWheelIInv
<1>11. CASE UNCHANGED vars
    BY <1>11 DEF vars, IInv, StateTypes, TempsKnown, AddressedAreKnown
<1> QED
    BY <1>1, <1>2, <1>3, <1>4, <1>5, <1>6, <1>7, <1>8, <1>9, <1>10, <1>11 DEF Next

(* The invariant holds throughout. *)
LEMMA IInvariance == Spec => []IInv
BY InitIInv, NextIInv, PTL DEF Spec

(* Every variable keeps its shape, for any clients, cells and bounds: the   *)
(* retry counters stay in their bits, the loops of queue_updates_for never  *)
(* count below zero.                                                        *)
THEOREM ProtocolTypeCorrect == Spec => []TypeOK
<1>1. IInv => TypeOK
    <2> SUFFICES ASSUME IInv PROVE TypeOK
        OBVIOUS
    <2>1. ASSUME NEW s \in Slots
          PROVE  /\ que[s].addr \in Clients \cup {Free, InFlight, SyncAddr}
                 /\ que[s].packet \in Seq(Commands)
        <3>1. que[s] \in ItemType
            BY DEF IInv, StateTypes
        <3>2. que[s].packet \in Seq(SafeCommands) /\ SafeCommands \subseteq Commands
            BY <3>1 DEF ItemType, SafeCommands
        <3> QED
            BY <3>1, <3>2 DEF ItemType
    <2> QED
        BY <2>1 DEF IInv, StateTypes, TypeOK, TxType
<1> QED
    BY <1>1, IInvariance, PTL

(* No temperature out of range is ever on its way to a client.  What        *)
(* send_set_temp falls back to is the last report, and every client that is *)
(* queued for has made one.                                                 *)
THEOREM TempStaysInRange == Spec => []TempInRange
<1>1. IInv => TempInRange
    <2> SUFFICES ASSUME IInv, NEW s \in Slots, NEW i \in DOMAIN que[s].packet
                 PROVE  que[s].packet[i] \in SafeCommands
        BY DEF TempInRange, SafeCommands
    <2>1. que[s] \in ItemType
        BY DEF IInv, StateTypes
    <2>2. que[s].packet \in Seq(SafeCommands)
        BY <2>1 DEF ItemType
    <2>3. i \in 1 .. Len(que[s].packet)
        BY <2>2
    <2> QED
        BY <2>2, <2>3
<1> QED
    BY <1>1, IInvariance, PTL
-----------------------------------------------------------------------------
(* What a packet tells is what its client has, or what it still had to      *)
(* answer.                                                                  *)
LEMMA TellsConfirm ==
    ASSUME IInv, NEW a \in Clients, NEW c \in Cells
    PROVE  /\ Tells(answers[a], c, hr[a].cells[c].requested) => Confirmed(a, c)
           /\ Refuses(answers[a]) => Refusing(a)
           /\ turn[a] /\ Tells(Append(answers[a], Values(a, Basics)), c,
                               hr[a].cells[c].requested)
                 => Confirmed(a, c)
           /\ Refuses(Append(answers[a], Values(a, Basics))) => Refusing(a)
<1> DEFINE r == Values(a, Basics)
           p == answers[a]
           q == Append(p, r)
           x == hr[a].cells[c].requested
<1>1. p \in Seq(Reports) /\ x \in Contents
    BY DEF IInv, StateTypes, HR, Value
<1>2. r.short = FALSE /\ DOMAIN r.vals = Basics
      /\ \A d \in Basics : r.vals[d] = act[a][d]
    BY DEF Values
<1>3. Tells(p, c, x) => Confirmed(a, c)
    BY <1>1 DEF Tells, Confirmed
<1>4. Refuses(p) => Refusing(a)
    BY DEF Refuses, Refusing
<1> HIDE DEF r
<1>5. /\ DOMAIN q = 1 .. Len(p) + 1 /\ DOMAIN p = 1 .. Len(p) /\ Len(p) \in Nat
      /\ q[Len(p) + 1] = r /\ \A i \in 1 .. Len(p) : q[i] = p[i]
    BY <1>1
<1> HIDE DEF q, p, x
<1>6. ASSUME NEW i \in DOMAIN q
      PROVE  q[i] = r \/ (i \in DOMAIN p /\ q[i] = p[i])
    BY <1>5
<1>7. ASSUME turn[a], Tells(q, c, x) PROVE Confirmed(a, c)
    <2>1. PICK i \in DOMAIN q : c \in DOMAIN q[i].vals /\ q[i].vals[c] = x
        BY <1>7 DEF Tells
    <2>2. CASE q[i] = r
        BY <1>1, <1>2, <1>7, <2>1, <2>2 DEF Confirmed, x
    <2>3. CASE i \in DOMAIN p /\ q[i] = p[i]
        BY <1>3, <2>1, <2>3 DEF Tells
    <2> QED
        BY <1>6, <2>2, <2>3
<1>8. ASSUME Refuses(q) PROVE Refusing(a)
    <2>1. PICK i \in DOMAIN q : q[i].short
        BY <1>8 DEF Refuses
    <2>2. i \in DOMAIN p /\ q[i] = p[i]
        BY <1>2, <1>6, <2>1
    <2> QED
        BY <1>4, <2>1, <2>2 DEF Refuses
<1> QED
    BY <1>3, <1>4, <1>7, <1>8 DEF p, q, r, x

(* A request is given up only when the client confirmed it or refused it,   *)
(* or when it is for a temperature that is never sent: no report of another *)
(* value, no lost packet and no other request takes it away.                *)
THEOREM RequestsAreKept == Spec => GivenUpForGoodReason
<1> DEFINE Kept == \A a \in Clients, c \in Cells :
                      GivenUp(a, c) =>
                         \/ Confirmed(a, c)
                         \/ c = Temp /\ Refusing(a)
                         \/ c = Temp /\ hr[a].cells[c].requested \in OutOfRange
<1>1. IInv /\ [Next]_vars => [Kept]_vars
    <2> SUFFICES ASSUME IInv, Next PROVE Kept
        OBVIOUS
    <2>1. ASSUME NEW a \in Clients, ReportHeard(a) PROVE Kept
        <3> DEFINE packet == Append(answers[a], Values(a, Basics))
        <3>1. /\ Receive(a, packet) /\ turn[a]
              /\ packet \in Seq(Reports)
              /\ Reported(hr[a], packet).cells[Temp].remote \notin OutOfRange
            BY <2>1, PacketHeard DEF ReportHeard, Reporting, Heard
        <3> HIDE DEF packet
        <3>2. /\ \A b \in Clients : b # a => hr'[b] = hr[b]
              /\ \A c \in Cells :
                 hr[a].cells[c].wanted /\ ~hr'[a].cells[c].wanted =>
                    \/ Tells(packet, c, hr[a].cells[c].requested)
                    \/ c = Temp /\ Refuses(packet)
                    \/ c = Temp /\ hr[a].cells[c].requested \in OutOfRange
            BY <3>1, ReceiveFacts
        <3>3. ASSUME NEW c \in Cells
              PROVE  /\ Tells(packet, c, hr[a].cells[c].requested) => Confirmed(a, c)
                     /\ Refuses(packet) => Refusing(a)
            BY <3>1, TellsConfirm DEF packet
        <3> QED
            BY <3>2, <3>3 DEF GivenUp
    <2>2. ASSUME NEW a \in Clients, AnswerHeard(a) PROVE Kept
        <3> DEFINE packet == answers[a]
        <3>1. /\ Receive(a, packet)
              /\ packet \in Seq(Reports)
              /\ Reported(hr[a], packet).cells[Temp].remote \notin OutOfRange
            BY <2>2, PacketHeard DEF AnswerHeard, Answering, Heard
        <3> HIDE DEF packet
        <3>2. /\ \A b \in Clients : b # a => hr'[b] = hr[b]
              /\ \A c \in Cells :
                 hr[a].cells[c].wanted /\ ~hr'[a].cells[c].wanted =>
                    \/ Tells(packet, c, hr[a].cells[c].requested)
                    \/ c = Temp /\ Refuses(packet)
                    \/ c = Temp /\ hr[a].cells[c].requested \in OutOfRange
            BY <3>1, ReceiveFacts
        <3>3. ASSUME NEW c \in Cells
              PROVE  /\ Tells(packet, c, hr[a].cells[c].requested) => Confirmed(a, c)
                     /\ Refuses(packet) => Refusing(a)
            BY TellsConfirm DEF packet
        <3> QED
            BY <3>2, <3>3 DEF GivenUp
    <2>3. ASSUME hr' = hr PROVE Kept
        BY <2>3 DEF GivenUp
    <2>4. CASE \/ \E a \in Clients : ReportLost(a) \/ AnswerLost(a)
               \/ \E S \in SUBSET forced : SyncHeard(S)
               \/ NewSecond \/ FrameHeard \/ FrameLost
               \/ \E a \in Clients, x \in Contents : TurnWheel(a, x)
        BY <2>3, <2>4 DEF ReportLost, AnswerLost, NotHeard, masterVars, SyncHeard,
                          NewSecond, FrameHeard, FrameLost, FrameOut, TurnWheel
    <2>5. CASE \E a \in Clients, c \in Cells, x \in Contents :
                  AskWrite(a, c, x) \/ AskTimer(a, c, x)
        BY <2>5, AskWriteIInv, AskTimerIInv
    <2>6. CASE \E a \in Clients, c \in Cells : AskEepromRead(a, c)
        BY <2>6, AskEepromReadIInv
    <2>7. CASE \E a \in Clients, m \in Modes, r \in BOOLEAN : AskMode(a, m, r)
        BY <2>7, AskModeIInv
    <2> QED
        BY <2>1, <2>2, <2>4, <2>5, <2>6, <2>7 DEF Next
<1> QED
    BY <1>1, IInvariance, PTL DEF Spec, GivenUpForGoodReason
=============================================================================
