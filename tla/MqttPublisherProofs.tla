------------------------ MODULE MqttPublisherProofs ------------------------
(***************************************************************************)
(* Proofs about the sweep of MqttPublisher, for any number of clients,     *)
(* topics, days, slots and eeprom cells and any bounds.                    *)
(***************************************************************************)
EXTENDS MqttPublisher, TLAPS

(* Division with remainder, as BitOf and LastSlot use it. *)
LEMMA DivMod ==
    ASSUME NEW n \in Nat, NEW d \in Nat \ {0}
    PROVE  /\ n \div d \in Nat /\ n % d \in 0 .. d - 1
           /\ n = d * (n \div d) + (n % d)
OBVIOUS

(* The slots of a day are those that division maps to it. *)
LEMMA SlotOfDay ==
    ASSUME NEW n \in Nat
    PROVE  n \div SlotsPerDay \in 0 .. Days - 1 <=> n < Days * SlotsPerDay
<1>1. SlotsPerDay \in Nat \ {0} /\ Days \in Nat \ {0}
    BY PublisherAssumption
<1> DEFINE q == n \div SlotsPerDay
           r == n % SlotsPerDay
<1>2. q \in Nat /\ r \in 0 .. SlotsPerDay - 1 /\ n = SlotsPerDay * q + r
    BY <1>1, DivMod
<1> HIDE DEF q, r
<1>3. CASE q < Days
    <2>1. q + 1 <= Days
        BY <1>1, <1>2, <1>3
    <2>2. SlotsPerDay * (q + 1) <= SlotsPerDay * Days
        BY <1>1, <1>2, <2>1
    <2>3. n < SlotsPerDay * (q + 1)
        BY <1>1, <1>2
    <2> QED
        BY <1>1, <1>2, <1>3, <2>2, <2>3 DEF q
<1>4. CASE q >= Days
    <2>1. SlotsPerDay * q >= SlotsPerDay * Days
        BY <1>1, <1>2, <1>4
    <2> QED
        BY <1>1, <1>2, <1>4, <2>1 DEF q
<1> QED
    BY <1>1, <1>2, <1>3, <1>4

(* Nothing of a day is behind its last slot. *)
LEMMA LastSlotIsLast ==
    ASSUME NEW n \in Nat, NEW m \in Nat,
           m % SlotsPerDay = SlotsPerDay - 1,
           n \div SlotsPerDay = m \div SlotsPerDay
    PROVE  n <= m
<1>1. SlotsPerDay \in Nat \ {0}
    BY PublisherAssumption
<1> DEFINE q == m \div SlotsPerDay
<1>2. q \in Nat /\ m = SlotsPerDay * q + (SlotsPerDay - 1)
    BY <1>1, DivMod
<1>3. n % SlotsPerDay \in 0 .. SlotsPerDay - 1 /\ n = SlotsPerDay * q + (n % SlotsPerDay)
    BY <1>1, DivMod
<1> HIDE DEF q
<1> QED
    BY <1>1, <1>2, <1>3

(* A chunk that begins in the eeprom ends in it. *)
LEMMA ChunksFit ==
    ASSUME NEW q \in Nat, q * Chunk < EepromSize
    PROVE  (q + 1) * Chunk <= EepromSize
<1>1. Chunk \in Nat \ {0} /\ EepromSize \in Nat /\ EepromSize % Chunk = 0
    BY PublisherAssumption
<1> DEFINE n == EepromSize \div Chunk
<1>2. n \in Nat /\ EepromSize = Chunk * n
    BY <1>1, DivMod
<1> HIDE DEF n
<1>3. CASE q < n
    <2>1. q + 1 <= n
        BY <1>2, <1>3
    <2>2. Chunk * (q + 1) <= Chunk * n
        BY <1>1, <1>2, <2>1
    <2> QED
        BY <1>1, <1>2, <2>2
<1>4. CASE q >= n
    <2>1. Chunk * q >= Chunk * n
        BY <1>1, <1>2, <1>4
    <2> QED
        BY <1>1, <1>2, <2>1
<1> QED
    BY <1>2, <1>3, <1>4

(* The cells of each group, and their bits. *)
LEMMA CellsOf ==
    /\ \A c \in Cells : c = <<c[1], c[2]>> /\ c[2] \in Nat /\ BitOf(c) \in Bits
    /\ \A c \in Freqs : c[1] = "freq" /\ c[2] < FreqLen /\ BitOf(c) = <<"freq", 0>>
    /\ \A c \in Timers : /\ c[1] = "timer" /\ c[2] < Days * SlotsPerDay
                         /\ BitOf(c) = <<"timer", c[2] \div SlotsPerDay>>
    /\ \A c \in Eeproms : /\ c[1] = "eeprom" /\ c[2] < EepromSize
                          /\ BitOf(c) = <<"eeprom", 0>>
    /\ \A i \in Nat : /\ i < FreqLen => <<"freq", i>> \in Freqs
                      /\ i < Days * SlotsPerDay => <<"timer", i>> \in Timers
                      /\ i < EepromSize => <<"eeprom", i>> \in Eeproms
<1>1. /\ FreqLen \in Nat \ {0} /\ Days \in Nat \ {0} /\ SlotsPerDay \in Nat \ {0}
      /\ EepromSize \in Nat
    BY PublisherAssumption
<1>2. Days * SlotsPerDay \in Nat
    BY <1>1
<1>3. ASSUME NEW c \in Cells
      PROVE  c = <<c[1], c[2]>> /\ c[2] \in Nat /\ BitOf(c) \in Bits
    BY <1>1, <1>2 DEF Cells, Freqs, Timers, Eeproms, Bits
<1>4. \A c \in Freqs : c[1] = "freq" /\ c[2] < FreqLen /\ BitOf(c) = <<"freq", 0>>
    BY <1>1 DEF Freqs, BitOf
<1>5. \A c \in Timers : /\ c[1] = "timer" /\ c[2] < Days * SlotsPerDay
                        /\ BitOf(c) = <<"timer", c[2] \div SlotsPerDay>>
    BY <1>2 DEF Timers, BitOf
<1>6. \A c \in Eeproms : /\ c[1] = "eeprom" /\ c[2] < EepromSize
                         /\ BitOf(c) = <<"eeprom", 0>>
    BY <1>1 DEF Eeproms, BitOf
<1>7. \A i \in Nat : /\ i < FreqLen => <<"freq", i>> \in Freqs
                     /\ i < Days * SlotsPerDay => <<"timer", i>> \in Timers
                     /\ i < EepromSize => <<"eeprom", i>> \in Eeproms
    BY <1>1, <1>2 DEF Freqs, Timers, Eeproms
<1> QED
    BY <1>3, <1>4, <1>5, <1>6, <1>7
-----------------------------------------------------------------------------
(***************************************************************************)
(* The inductive invariant.  CellsOK(r) is about the cells r that a call   *)
(* begins with: what the sweep has passed in its group and is not          *)
(* published was reported behind it.  The sweep only stops at clients,     *)
(* and at the begin of a chunk.                                            *)
(***************************************************************************)
Progress == {"none", "new", "told", "lost"}
Flagged  == Timers \cup Eeproms

CellsOK(r) ==
    /\ r \in [Clients -> [Cells -> Progress]]
    /\ \A a \in Clients, c \in Flagged :
          r[a][c] = "new" =>
             /\ BitOf(c) \in states[a] \/ <<a, c>> \in late
             /\ Behind(a, c) => <<a, c>> \in late

SweepIInv ==
    /\ TypeOK
    /\ \A a \in (0 .. MaxAddr - 1) \ Clients : states[a] = {}
    /\ maj = "eeprom" => \E q \in Nat : min = q * Chunk
    /\ CellsOK(cell)

(* What a step of the sweep does to the cells that are not published: of   *)
(* the cells S of the client at hand none remains, of the others only what *)
(* was there.                                                              *)
Published(r, S) ==
    /\ cell' \in [Clients -> [Cells -> Progress]]
    /\ late' \subseteq Clients \X Cells
    /\ \A a \in Clients, c \in Cells :
          cell'[a][c] = "new" =>
             /\ r[a][c] = "new"
             /\ ~(a = addr /\ c \in S)
             /\ <<a, c>> \in late => <<a, c>> \in late'

(* publish: what is due of the cells at hand is told or lost after it.     *)
LEMMA PublishPublishes ==
    ASSUME TypeOK, NEW r, CellsOK(r), NEW S, S \subseteq Cells,
           addr \in Clients, Publish(r, S)
    PROVE  Published(r, S)
<1> DEFINE due == {c \in S : Due(r[addr], c)}
<1>1. PICK ok \in SUBSET due :
          /\ cell' = [r EXCEPT ![addr] =
                        [c \in Cells |-> IF c \in ok THEN "told"
                                         ELSE IF c \in due THEN "lost" ELSE @[c]]]
          /\ late' = {p \in late : p[1] # addr \/ p[2] \notin due}
    BY DEF Publish
<1>2. r \in [Clients -> [Cells -> Progress]] /\ late \subseteq Clients \X Cells
    BY DEF CellsOK, TypeOK
<1>3. \A c \in S : r[addr][c] = "new" => c \in due
    BY DEF Due
<1> HIDE DEF due
<1>4. cell' \in [Clients -> [Cells -> Progress]]
    BY <1>1, <1>2 DEF Progress
<1>5. late' \subseteq Clients \X Cells
    BY <1>1, <1>2
<1>6. ASSUME NEW a \in Clients, NEW c \in Cells, cell'[a][c] = "new"
      PROVE  /\ r[a][c] = "new"
             /\ ~(a = addr /\ c \in S)
             /\ <<a, c>> \in late => <<a, c>> \in late'
    <2>1. CASE a # addr
        BY <2>1, <1>1, <1>2, <1>6
    <2>2. CASE a = addr
        <3>1. cell'[a][c] = IF c \in ok THEN "told"
                            ELSE IF c \in due THEN "lost" ELSE r[a][c]
            BY <2>2, <1>1, <1>2
        <3>2. c \notin due /\ r[a][c] = "new"
            BY <3>1, <1>6
        <3> QED
            BY <3>2, <2>2, <1>1, <1>3
    <2> QED
        BY <2>1, <2>2
<1> QED
    BY <1>4, <1>5, <1>6 DEF Published

(* A call that publishes nothing keeps the cells.                          *)
LEMMA NothingPublishes ==
    ASSUME TypeOK, NEW r, CellsOK(r), PublishNothing(r)
    PROVE  Published(r, {})
BY DEF PublishNothing, Published, CellsOK, TypeOK

(* A request to read cells again makes fewer of them new.                  *)
LEMMA InvalidatedCellsOK ==
    ASSUME CellsOK(cell), NEW a \in Clients, NEW S
    PROVE  CellsOK(Invalidated(a, S))
<1> DEFINE r == Invalidated(a, S)
<1>1. cell \in [Clients -> [Cells -> Progress]]
    BY DEF CellsOK
<1>2. r \in [Clients -> [Cells -> Progress]]
    BY <1>1 DEF Invalidated, Progress
<1>3. ASSUME NEW b \in Clients, NEW c \in Cells, r[b][c] = "new"
      PROVE  cell[b][c] = "new"
    BY <1>1, <1>3 DEF Invalidated
<1> HIDE DEF r
<1>4. Flagged \subseteq Cells
    BY DEF Flagged, Cells
<1>5. CellsOK(r)
    BY <1>2, <1>3, <1>4 DEF CellsOK
<1> QED
    BY <1>5 DEF r

(* The sweep begins a group. *)
LEMMA GroupBegins ==
    ASSUME NEW r, CellsOK(r), Published(r, {}), min' = 0,
           \A a \in Clients, c \in Flagged :
              r[a][c] = "new" /\ BitOf(c) \in states[a] =>
                 BitOf(c) \in states'[a] \/ <<a, c>> \in late
    PROVE  CellsOK(cell)'
<1>1. Flagged \subseteq Cells
    BY DEF Flagged, Cells
<1>2. \A a, c : c \in Cells => ~Behind(a, c)'
    BY CellsOf DEF Behind
<1> QED
    BY <1>1, <1>2 DEF CellsOK, Published

(* The sweep goes on to the next place, past the cells S. *)
LEMMA GroupGoesOn ==
    ASSUME NEW r, CellsOK(r), NEW S, Published(r, S), UNCHANGED <<addr, maj>>,
           \A c \in Flagged : c[1] = maj /\ c[2] < min' =>
              \/ c[2] < min
              \/ c \in S
              \/ BitOf(c) \notin states[addr],
           \A a \in Clients, c \in Flagged :
              r[a][c] = "new" /\ BitOf(c) \in states[a] =>
                 \/ BitOf(c) \in states'[a]
                 \/ a = addr /\ c \in S
                 \/ <<a, c>> \in late
    PROVE  CellsOK(cell)'
<1>1. Flagged \subseteq Cells
    BY DEF Flagged, Cells
<1>2. ASSUME NEW a \in Clients, NEW c \in Flagged, cell'[a][c] = "new"
      PROVE  /\ BitOf(c) \in states'[a] \/ <<a, c>> \in late'
             /\ Behind(a, c)' => <<a, c>> \in late'
    <2>1. /\ r[a][c] = "new" /\ ~(a = addr /\ c \in S)
          /\ <<a, c>> \in late => <<a, c>> \in late'
        BY <1>1, <1>2 DEF Published
    <2>2. /\ BitOf(c) \in states[a] \/ <<a, c>> \in late
          /\ Behind(a, c) => <<a, c>> \in late
        BY <2>1 DEF CellsOK
    <2>3. ASSUME Behind(a, c)'
          PROVE  <<a, c>> \in late
        <3>1. a = addr /\ c[1] = maj /\ c[2] < min'
            BY <2>3 DEF Behind
        <3>2. c[2] < min \/ BitOf(c) \notin states[a]
            BY <3>1, <2>1
        <3> QED
            BY <3>1, <3>2, <2>2 DEF Behind
    <2> QED
        BY <2>1, <2>2, <2>3
<1> QED
    BY <1>2 DEF CellsOK, Published
-----------------------------------------------------------------------------
(* The sizes and the group, as the proofs below calculate with them. *)
LEMMA SweepTypes ==
    TypeOK =>
       /\ FreqLen \in Nat \ {0} /\ EepromSize \in Nat /\ Chunk \in Nat \ {0}
       /\ Days * SlotsPerDay \in Nat /\ MaxAddr \in Nat \ {0}
       /\ Clients \subseteq 0 .. MaxAddr - 1
       /\ min \in Nat /\ maj \in {"freq", "timer", "eeprom"}
       /\ maj = "freq" => min <= FreqLen
       /\ maj = "timer" => min <= Days * SlotsPerDay
       /\ maj = "eeprom" => min <= EepromSize
<1> SUFFICES ASSUME TypeOK
             PROVE  /\ min \in Nat /\ maj \in {"freq", "timer", "eeprom"}
                    /\ maj = "freq" => min <= FreqLen
                    /\ maj = "timer" => min <= Days * SlotsPerDay
                    /\ maj = "eeprom" => min <= EepromSize
    BY PublisherAssumption
<1>1. /\ FreqLen \in Nat /\ EepromSize \in Nat /\ Days * SlotsPerDay \in Nat
    BY PublisherAssumption
<1>2. maj \in {"freq", "timer", "eeprom"} /\ min \in 0 .. GroupSize[maj]
    BY DEF TypeOK, GroupSize
<1> QED
    BY <1>1, <1>2 DEF GroupSize

(* A change bit stands for a client, and for a day that there is. *)
LEMMA BitsOfClients ==
    ASSUME SweepIInv, NEW b, Has(b)
    PROVE  addr \in Clients /\ b \in Bits
BY DEF SweepIInv, TypeOK, Has

(* A timer bit that is set is that of a day there is, so publish_timers    *)
(* need not look whether the place is one.                                 *)
LEMMA DayBits ==
    ASSUME NEW n \in Nat, <<"timer", n \div SlotsPerDay>> \in Bits
    PROVE  n < Days * SlotsPerDay
<1>1. PICK c \in Cells : BitOf(c) = <<"timer", n \div SlotsPerDay>>
    BY DEF Bits
<1>2. c \in Timers
    BY <1>1, CellsOf DEF Cells
<1>3. /\ c[2] \in Nat /\ c[2] < Days * SlotsPerDay
      /\ c[2] \div SlotsPerDay = n \div SlotsPerDay
    BY <1>1, <1>2, CellsOf DEF Cells
<1> QED
    BY <1>3, SlotOfDay

(* The next group, or the next client, begins at its first place. *)
LEMMA NextGroup ==
    ASSUME SweepIInv, NextMajor \/ NextClient
    PROVE  /\ addr' \in 0 .. MaxAddr - 1 /\ min' = 0
           /\ maj' \in DOMAIN GroupSize /\ min' \in 0 .. GroupSize[maj']
           /\ maj' = "eeprom" => \E q \in Nat : min' = q * Chunk
<1>1. /\ MaxAddr \in Nat \ {0} /\ Chunk \in Nat /\ addr \in 0 .. MaxAddr - 1
      /\ maj \in {"freq", "timer", "eeprom"}
    BY SweepTypes DEF SweepIInv, TypeOK
<1>2. (addr + 1) % MaxAddr \in 0 .. MaxAddr - 1
    BY <1>1, DivMod
<1>3. addr' \in 0 .. MaxAddr - 1 /\ min' = 0 /\ maj' \in {"freq", "timer", "eeprom"}
    BY <1>1, <1>2 DEF NextMajor, NextClient
<1>4. 0 = 0 * Chunk /\ \A g \in {"freq", "timer", "eeprom"} : 0 \in 0 .. GroupSize[g]
    BY SweepTypes DEF SweepIInv, GroupSize
<1> QED
    BY <1>3, <1>4 DEF GroupSize

(* Clearing a bit keeps the bits what they are. *)
LEMMA ClearedStates ==
    ASSUME SweepIInv, NEW b, Clear(b) \/ UNCHANGED states
    PROVE  /\ states' \in [0 .. MaxAddr - 1 -> SUBSET Bits]
           /\ \A a \in (0 .. MaxAddr - 1) \ Clients : states'[a] = {}
           /\ \A a \in 0 .. MaxAddr - 1 : \A d :
                 d \in states[a] /\ d # b => d \in states'[a]
           /\ \A a \in 0 .. MaxAddr - 1 : \A d :
                 d \in states[a] /\ a # addr => d \in states'[a]
BY DEF SweepIInv, TypeOK, Clear

(* A group without changes, or a client without any, is passed over.       *)
LEMMA SkipKeeps ==
    ASSUME SweepIInv, NEW r, CellsOK(r), Skip(r), connected' \in BOOLEAN, recent' \in BOOLEAN
    PROVE  SweepIInv'
<1>1. (NextMajor \/ NextClient) /\ PublishNothing(r) /\ UNCHANGED states
    BY DEF Skip
<1>2. Published(r, {})
    BY <1>1, NothingPublishes DEF SweepIInv
<1>3. CellsOK(cell)'
    BY <1>1, <1>2, GroupBegins, NextGroup
<1>4. TypeOK'
    BY <1>1, <1>2, NextGroup DEF SweepIInv, TypeOK, Published, Progress
<1> QED
    BY <1>1, <1>3, <1>4, NextGroup DEF SweepIInv

(* publish_frequent keeps the invariant: it leaves timers and eeprom alone.*)
LEMMA PublishFrequentKeeps ==
    ASSUME SweepIInv, NEW r, CellsOK(r), PublishFrequent(r),
           connected' \in BOOLEAN, recent' \in BOOLEAN
    PROVE  SweepIInv'
<1> DEFINE bit == <<"freq", 0>>
<1>1. maj = "freq" /\ addr \in Clients
    BY BitsOfClients DEF PublishFrequent
<1>2. \A c \in Flagged : c[1] # maj /\ BitOf(c) # bit
    BY <1>1, CellsOf DEF Flagged
<1>3. \A a \in Clients : a \in 0 .. MaxAddr - 1
    BY PublisherAssumption
<1>4. CASE min < FreqLen /\ Publish(r, {<<"freq", min>>}) /\ NextMinor(1) /\ UNCHANGED states
    <2>1. Published(r, {<<"freq", min>>})
        <3>1. {<<"freq", min>>} \subseteq Cells
            BY <1>4, CellsOf, SweepTypes DEF SweepIInv, Cells
        <3> QED
            BY <3>1, <1>1, <1>4, PublishPublishes DEF SweepIInv
    <2>2. CellsOK(cell)'
        BY <2>1, <1>2, <1>4, GroupGoesOn DEF NextMinor
    <2>3. maj' = "freq" /\ addr' = addr /\ min' \in 0 .. GroupSize[maj']
        BY <1>1, <1>4, SweepTypes DEF NextMinor, SweepIInv, GroupSize
    <2>4. TypeOK'
        BY <2>1, <2>3, <1>4 DEF SweepIInv, TypeOK, Published, Progress, GroupSize
    <2> QED
        BY <2>2, <2>3, <2>4, <1>4 DEF SweepIInv
<1>5. CASE Clear(bit) /\ NextMajor /\ PublishNothing(r)
    <2>1. Published(r, {})
        BY <1>5, NothingPublishes DEF SweepIInv
    <2>2. CellsOK(cell)'
        BY <2>1, <1>2, <1>3, <1>5, GroupBegins, NextGroup, ClearedStates
    <2>3. TypeOK'
        BY <2>1, <1>5, NextGroup, ClearedStates DEF SweepIInv, TypeOK, Published, Progress
    <2> QED
        BY <2>2, <2>3, <1>5, NextGroup, ClearedStates DEF SweepIInv
<1> QED
    BY <1>4, <1>5 DEF PublishFrequent

(* publish_timers keeps it: passing over a day without its bit leaves only *)
(* late changes behind, and when a day's last slot clears the bit the slots*)
(* before it are told or late.                                             *)
LEMMA PublishTimersKeeps ==
    ASSUME SweepIInv, NEW r, CellsOK(r), PublishTimers(r),
           connected' \in BOOLEAN, recent' \in BOOLEAN
    PROVE  SweepIInv'
<1> DEFINE day == <<"timer", min \div SlotsPerDay>>
           here == <<"timer", min>>
<1>1. maj = "timer" /\ addr \in Clients /\ addr \in 0 .. MaxAddr - 1
    BY BitsOfClients, PublisherAssumption DEF PublishTimers
<1>2. min \in Nat /\ min <= Days * SlotsPerDay /\ Days * SlotsPerDay \in Nat
    BY <1>1, SweepTypes DEF SweepIInv
<1>3. \A a \in Clients : a \in 0 .. MaxAddr - 1
    BY PublisherAssumption
<1>4. \A c \in Flagged : c[2] \in Nat
    BY CellsOf DEF Flagged, Cells
<1>5. \A c \in Flagged : c[1] = "timer" =>
         c = <<"timer", c[2]>> /\ BitOf(c) = <<"timer", c[2] \div SlotsPerDay>>
    BY CellsOf DEF Flagged, Cells
<1>6. ASSUME min < Days * SlotsPerDay, min' = min + 1
      PROVE  min' \in 0 .. GroupSize["timer"]
    BY <1>2, <1>6 DEF GroupSize
<1>7. CASE NextMajor /\ PublishNothing(r) /\ UNCHANGED states
    BY <1>7, SkipKeeps, NothingPublishes, GroupBegins, NextGroup
       DEF SweepIInv, TypeOK, Published, Progress
<1>8. CASE /\ min < Days * SlotsPerDay /\ ~Has(day)
           /\ NextMinor(1) /\ PublishNothing(r) /\ UNCHANGED states
    <2>1. Published(r, {})
        BY <1>8, NothingPublishes DEF SweepIInv
    <2>2. ASSUME NEW c \in Flagged, c[1] = maj, c[2] < min'
          PROVE  c[2] < min \/ BitOf(c) \notin states[addr]
        <3>1. c[2] < min \/ c[2] = min
            BY <2>2, <1>2, <1>4, <1>8 DEF NextMinor
        <3> QED
            BY <3>1, <2>2, <1>1, <1>5, <1>8 DEF Has
    <2>3. CellsOK(cell)'
        BY <2>1, <2>2, <1>8, GroupGoesOn DEF NextMinor
    <2>4. TypeOK'
        BY <2>1, <1>1, <1>6, <1>8 DEF SweepIInv, TypeOK, Published, Progress, NextMinor
    <2> QED
        BY <2>3, <2>4, <1>1, <1>8 DEF SweepIInv, NextMinor
<1>9. CASE /\ Has(day) /\ NextMinor(1)
           /\ IF LastSlot THEN Clear(day) ELSE UNCHANGED states
           /\ Publish(r, {here})
    <2>1. min < Days * SlotsPerDay
        BY <1>2, <1>9, BitsOfClients, DayBits
    <2>2. Published(r, {here})
        <3>1. {here} \subseteq Cells
            BY <2>1, <1>2, CellsOf DEF Cells
        <3> QED
            BY <3>1, <1>1, <1>9, PublishPublishes DEF SweepIInv
    <2>3. ASSUME NEW c \in Flagged, c[1] = maj, c[2] < min'
          PROVE  c[2] < min \/ c \in {here}
        <3>1. c[2] < min \/ c[2] = min
            BY <2>3, <1>2, <1>4, <1>9 DEF NextMinor
        <3> QED
            BY <3>1, <2>3, <1>1, <1>5
    <2>4. ASSUME NEW a \in Clients, NEW c \in Flagged,
                 r[a][c] = "new", BitOf(c) \in states[a]
          PROVE  \/ BitOf(c) \in states'[a]
                 \/ a = addr /\ c \in {here}
                 \/ <<a, c>> \in late
        <3>1. CASE a # addr \/ BitOf(c) # day \/ ~LastSlot
            BY <3>1, <2>4, <1>3, <1>9, ClearedStates
        <3>2. CASE a = addr /\ BitOf(c) = day /\ LastSlot
            <4>1. c[1] = "timer"
                BY <3>2, CellsOf DEF Flagged
            <4>2. c[2] <= min
                BY <4>1, <3>2, <1>2, <1>4, <1>5, LastSlotIsLast DEF LastSlot
            <4>3. CASE c[2] = min
                BY <4>1, <4>3, <3>2, <1>5
            <4>4. CASE c[2] < min
                BY <4>1, <4>4, <3>2, <2>4, <1>1 DEF CellsOK, Behind
            <4> QED
                BY <4>2, <4>3, <4>4, <1>2, <1>4
        <3> QED
            BY <3>1, <3>2
    <2>5. CellsOK(cell)'
        BY <2>2, <2>3, <2>4, <1>9, GroupGoesOn DEF NextMinor
    <2>6. Clear(day) \/ UNCHANGED states
        BY <1>9
    <2>7. TypeOK'
        BY <2>1, <2>2, <2>6, <1>1, <1>6, <1>9, ClearedStates
           DEF SweepIInv, TypeOK, Published, Progress, NextMinor
    <2> QED
        BY <2>5, <2>6, <2>7, <1>1, <1>9, ClearedStates DEF SweepIInv, NextMinor
<1> QED
    BY <1>7, <1>8, <1>9 DEF PublishTimers

(* publish_eeprom keeps it: a chunk ends in the eeprom, and the bit is     *)
(* cleared when all of it is behind.                                       *)
LEMMA PublishEepromKeeps ==
    ASSUME SweepIInv, NEW r, CellsOK(r), PublishEeprom(r),
           connected' \in BOOLEAN, recent' \in BOOLEAN
    PROVE  SweepIInv'
<1> DEFINE bit == <<"eeprom", 0>>
           S == {<<"eeprom", i>> : i \in min .. min + Chunk - 1}
<1>1. maj = "eeprom" /\ addr \in Clients
    BY BitsOfClients DEF PublishEeprom
<1>2. /\ min \in Nat /\ EepromSize \in Nat /\ Chunk \in Nat \ {0}
    BY SweepTypes DEF SweepIInv
<1>3. \A a \in Clients : a \in 0 .. MaxAddr - 1
    BY PublisherAssumption
<1>4. \A c \in Flagged : c[2] \in Nat /\ (c[1] = "eeprom" => c = <<"eeprom", c[2]>>)
    BY CellsOf DEF Flagged, Cells
<1>5. CASE min < EepromSize /\ Publish(r, S) /\ NextMinor(Chunk) /\ UNCHANGED states
    <2>1. PICK q \in Nat : min = q * Chunk
        BY <1>1 DEF SweepIInv
    <2>2. min + Chunk <= EepromSize /\ q + 1 \in Nat /\ min + Chunk = (q + 1) * Chunk
        BY <2>1, <1>2, <1>5, ChunksFit
    <2>3. Published(r, S)
        <3>1. ASSUME NEW i \in min .. min + Chunk - 1
              PROVE  <<"eeprom", i>> \in Cells
            <4>1. i \in Nat /\ i < EepromSize
                BY <2>2, <1>2
            <4> QED
                BY <4>1, CellsOf DEF Cells
        <3>2. S \subseteq Cells
            BY <3>1
        <3> HIDE DEF S
        <3> QED
            BY <3>2, <1>1, <1>5, PublishPublishes DEF SweepIInv
    <2>4. ASSUME NEW c \in Flagged, c[1] = maj, c[2] < min'
          PROVE  c[2] < min \/ c \in S
        <3>1. c = <<"eeprom", c[2]>> /\ c[2] \in Nat /\ c[2] < min + Chunk
            BY <2>4, <1>1, <1>4, <1>5 DEF NextMinor
        <3>2. CASE c[2] >= min
            <4>1. c[2] \in min .. min + Chunk - 1
                BY <3>1, <3>2, <1>2
            <4> QED
                BY <4>1, <3>1
        <3> QED
            BY <3>1, <3>2, <1>2
    <2> HIDE DEF S
    <2>5. CellsOK(cell)'
        BY <2>3, <2>4, <1>5, GroupGoesOn DEF NextMinor
    <2>6. maj' = "eeprom" /\ addr' = addr /\ min' = (q + 1) * Chunk
          /\ min' \in 0 .. GroupSize["eeprom"]
        BY <2>2, <1>1, <1>2, <1>5 DEF NextMinor, GroupSize
    <2>7. TypeOK'
        BY <2>3, <2>6, <1>1, <1>5 DEF SweepIInv, TypeOK, Published, Progress
    <2> QED
        BY <2>2, <2>5, <2>6, <2>7, <1>5 DEF SweepIInv
<1>6. CASE min >= EepromSize /\ Clear(bit) /\ NextMajor /\ PublishNothing(r)
    <2>1. Published(r, {})
        BY <1>6, NothingPublishes DEF SweepIInv
    <2>2. ASSUME NEW a \in Clients, NEW c \in Flagged,
                 r[a][c] = "new", BitOf(c) \in states[a]
          PROVE  BitOf(c) \in states'[a] \/ <<a, c>> \in late
        <3>1. CASE a # addr \/ BitOf(c) # bit
            BY <3>1, <2>2, <1>3, <1>6, ClearedStates
        <3>2. CASE a = addr /\ BitOf(c) = bit
            <4>1. c[1] = "eeprom" /\ c[2] < EepromSize
                BY <3>2, CellsOf DEF Flagged
            <4>2. Behind(a, c)
                BY <4>1, <3>2, <1>1, <1>2, <1>4, <1>6 DEF Behind
            <4> QED
                BY <4>2, <2>2 DEF CellsOK
        <3> QED
            BY <3>1, <3>2
    <2>3. CellsOK(cell)'
        BY <2>1, <2>2, <1>6, GroupBegins, NextGroup
    <2>4. TypeOK'
        BY <2>1, <1>6, NextGroup, ClearedStates DEF SweepIInv, TypeOK, Published, Progress
    <2> QED
        BY <2>3, <2>4, <1>6, NextGroup, ClearedStates DEF SweepIInv
<1> QED
    BY <1>5, <1>6 DEF PublishEeprom

(* So does update, with or without a request to re-read that comes first.  *)
LEMMA UpdateKeeps ==
    SweepIInv /\ (Update \/ UpdateWithReread) => SweepIInv'
<1> SUFFICES ASSUME SweepIInv, Update \/ UpdateWithReread
             PROVE  SweepIInv'
    OBVIOUS
<1>1. PICK r : CellsOK(r) /\ Sweep(r)
    <2>1. CASE Update
        BY <2>1 DEF Update, SweepIInv
    <2>2. CASE UpdateWithReread
        <3>1. PICK a \in Clients, c \in Eeproms : Sweep(Invalidated(a, {c}))
            BY <2>2 DEF UpdateWithReread
        <3> QED
            BY <3>1, InvalidatedCellsOK DEF SweepIInv
    <2> QED
        BY <2>1, <2>2
<1>2. connected' \in BOOLEAN /\ recent' \in BOOLEAN
    BY DEF Update, UpdateWithReread, Link, SweepIInv, TypeOK
<1> QED
    BY <1>1, <1>2, SkipKeeps, PublishFrequentKeeps, PublishTimersKeeps, PublishEepromKeeps
       DEF Sweep

(* A report of the cells S of a client, whose bits are set: those behind    *)
(* the sweep are late, the others get published.                           *)
LEMMA ReportKeeps ==
    ASSUME SweepIInv, NEW a \in Clients, NEW S, S \subseteq Cells,
           SetRemote(a, S),
           \/ states' = [states EXCEPT ![a] = @ \cup {BitOf(c) : c \in S}]
           \/ S \subseteq Freqs /\ UNCHANGED states,
           UNCHANGED <<addr, maj, min, connected, recent>>
    PROVE  SweepIInv'
<1> DEFINE new == [cell EXCEPT ![a] = [c \in Cells |-> IF c \in S THEN "new" ELSE @[c]]]
<1>1. /\ cell' = new
      /\ late' = {p \in late : p[1] # a \/ p[2] \notin S}
                    \cup {<<a, c>> : c \in {d \in S : Behind(a, d)}}
    BY DEF SetRemote
<1>2. /\ cell \in [Clients -> [Cells -> Progress]]
      /\ states \in [0 .. MaxAddr - 1 -> SUBSET Bits]
      /\ late \subseteq Clients \X Cells
      /\ a \in 0 .. MaxAddr - 1
    BY PublisherAssumption DEF SweepIInv, TypeOK, Progress
<1>3. cell' \in [Clients -> [Cells -> Progress]]
    BY <1>1, <1>2 DEF Progress
<1>4. /\ states' \in [0 .. MaxAddr - 1 -> SUBSET Bits]
      /\ \A b \in 0 .. MaxAddr - 1 : states[b] \subseteq states'[b]
      /\ \A b \in 0 .. MaxAddr - 1 : b # a => states'[b] = states[b]
    <2>1. {BitOf(c) : c \in S} \subseteq Bits
        BY DEF Bits
    <2> QED
        BY <2>1, <1>2
<1>5. late' \subseteq Clients \X Cells
    BY <1>1, <1>2
<1>6. \A b, c : Behind(b, c)' <=> Behind(b, c)
    BY DEF Behind
<1>7. ASSUME NEW b \in Clients, NEW c \in Flagged, cell'[b][c] = "new"
      PROVE  /\ BitOf(c) \in states'[b] \/ <<b, c>> \in late'
             /\ Behind(b, c) => <<b, c>> \in late'
    <2>1. c \in Cells /\ b \in 0 .. MaxAddr - 1
        BY PublisherAssumption DEF Flagged, Cells
    <2>2. CASE b = a /\ c \in S
        <3>1. BitOf(c) \in states'[b]
            <4>1. c \notin Freqs
                BY CellsOf DEF Flagged
            <4>2. states' = [states EXCEPT ![a] = @ \cup {BitOf(d) : d \in S}]
                BY <4>1, <2>2
            <4>3. states'[a] = states[a] \cup {BitOf(d) : d \in S}
                BY <4>2, <1>2
            <4> QED
                BY <4>3, <2>2
        <3> QED
            BY <3>1, <2>2, <1>1
    <2>3. CASE ~(b = a /\ c \in S)
        <3>1. cell[b][c] = "new"
            BY <2>1, <2>3, <1>1, <1>2, <1>7
        <3>2. <<b, c>> \in late => <<b, c>> \in late'
            BY <2>3, <1>1
        <3> QED
            BY <3>1, <3>2, <2>1, <1>4 DEF SweepIInv, CellsOK
    <2> QED
        BY <2>2, <2>3
<1>8. CellsOK(cell)'
    BY <1>3, <1>6, <1>7 DEF CellsOK
<1>9. TypeOK'
    BY <1>3, <1>4, <1>5 DEF SweepIInv, TypeOK, Progress
<1> QED
    BY <1>4, <1>8, <1>9 DEF SweepIInv

(* The invariant holds at first.                                           *)
LEMMA SweepInit == Init => SweepIInv
<1> SUFFICES ASSUME Init PROVE SweepIInv
    OBVIOUS
<1>1. TypeOK
    <2>1. cell \in [Clients -> [Cells -> Progress]] /\ late \subseteq Clients \X Cells
        BY DEF Init, Progress
    <2>2. /\ states \in [0 .. MaxAddr - 1 -> SUBSET Bits]
          /\ addr \in 0 .. MaxAddr - 1
        BY PublisherAssumption DEF Init
    <2>3. maj \in DOMAIN GroupSize /\ min \in 0 .. GroupSize[maj]
        BY PublisherAssumption DEF Init, GroupSize
    <2>4. connected \in BOOLEAN /\ recent \in BOOLEAN
        BY DEF Init
    <2> QED
        BY <2>1, <2>2, <2>3, <2>4 DEF TypeOK, Progress
<1> QED
    BY <1>1 DEF Init, SweepIInv, CellsOK, Flagged, Cells, Progress

(* Every step keeps it.                                                    *)
LEMMA SweepNext == SweepIInv /\ [Next]_vars => SweepIInv'
<1> SUFFICES ASSUME SweepIInv, [Next]_vars
             PROVE  SweepIInv'
    OBVIOUS
<1>1. ASSUME NEW a \in Clients, OnDebug(a)
      PROVE  SweepIInv'
    BY <1>1, ReportKeeps DEF OnDebug, Cells, linkVars
<1>2. ASSUME NEW a \in Clients, OnMenuLock(a)
      PROVE  SweepIInv'
    <2>1. {<<"freq", LockCell>>} \subseteq Freqs
        BY PublisherAssumption DEF Freqs
    <2> QED
        BY <2>1, <1>2, ReportKeeps DEF OnMenuLock, Cells, linkVars, sweepVars
<1>3. ASSUME NEW a \in Clients, NEW c \in Cells, OnTimerOrEeprom(a, c)
      PROVE  SweepIInv'
    <2>1. {c} \subseteq Cells /\ {BitOf(d) : d \in {c}} = {BitOf(c)}
        OBVIOUS
    <2> QED
        BY <2>1, <1>3, ReportKeeps DEF OnTimerOrEeprom, linkVars
<1>4. CASE Update \/ UpdateWithReread
    BY <1>4, UpdateKeeps
<1>5. CASE CannotConnect \/ ConnectionLost \/ ReconnectTime \/ UNCHANGED vars
    <2>1. /\ UNCHANGED <<cell, states, addr, maj, min, late>>
          /\ connected' \in BOOLEAN /\ recent' \in BOOLEAN
        BY <1>5 DEF CannotConnect, ConnectionLost, ReconnectTime, vars, sweepVars,
                    SweepIInv, TypeOK
    <2>2. TypeOK'
        BY <2>1 DEF SweepIInv, TypeOK
    <2>3. CellsOK(cell)'
        BY <2>1 DEF SweepIInv, CellsOK, Behind
    <2> QED
        BY <2>1, <2>2, <2>3 DEF SweepIInv
<1> QED
    BY <1>1, <1>2, <1>3, <1>4, <1>5 DEF Next

(* It holds throughout.                                                    *)
LEMMA SweepInvariance == Spec => []SweepIInv
BY SweepInit, SweepNext, PTL DEF Spec

(* The sweep stays in the group it is in: state_min never gets beyond the  *)
(* end of its group, whatever the bits are and however often it is started *)
(* over (NextMajor, NextClient).                                           *)
THEOREM SweepTypeCorrect == Spec => []TypeOK
<1>1. SweepIInv => TypeOK
    BY DEF SweepIInv
<1> QED
    BY <1>1, SweepInvariance, PTL

(* No change bit is cleared while a timer or eeprom cell that it stands for*)
(* has still to be published, unless the report came after the sweep had   *)
(* passed the cell (publish_timers, publish_eeprom).                       *)
THEOREM OnlyLateOverlooked == Spec => []OnlyLateChangesOverlooked
<1>1. SweepIInv => OnlyLateChangesOverlooked
    BY DEF SweepIInv, CellsOK, OnlyLateChangesOverlooked, Flagged
<1> QED
    BY <1>1, SweepInvariance, PTL
=============================================================================
