--------------------------- MODULE MqttPublisher ---------------------------
(***************************************************************************)
(* MQTTPublisher (src/src/mqtt.h): the sweep that tells the broker what    *)
(* the clients reported.  A report marks the value as not published and    *)
(* sets a change bit of its client; update(), called between the radio's   *)
(* work, goes round the clients and publishes a little on each call: one   *)
(* value, or one chunk of the eeprom.                                      *)
(*                                                                         *)
(* A cell is a value that has a topic, named by its group and its place in *)
(* the sweep of that group (state_maj and state_min).  What was reported   *)
(* is abstracted to how far it got: "none" (not remote_valid), "new" (not  *)
(* published), "told" (published, the broker has it) or "lost" (published, *)
(* but client.publish failed).  Clients here are those with a record.      *)
(***************************************************************************)
EXTENDS Integers

CONSTANTS MaxAddr,      \* MAX_HR_ADDR
          Clients,      \* addresses of clients
          FreqLen,      \* frequent topics, cases of publish_frequent
          Unflagged,    \* those published whatever published() says:
                        \* last_seen, mode, state
          LockCell,     \* the place of menu_locked
          Days, SlotsPerDay,    \* TIMER_DAYS, TIMER_SLOTS_PER_DAY
          EepromSize,   \* EEPROM_SIZE
          Chunk,        \* eeprom cells published in one call
          MaxReports,   \* bound: reports of timers and eeprom cells, re-reads
          MaxFaults     \* bound: lost connections, failed attempts and topics

ASSUME PublisherAssumption ==
    /\ MaxAddr \in Nat \ {0} /\ Clients \subseteq 0 .. MaxAddr - 1
    /\ FreqLen \in Nat \ {0} /\ Unflagged \subseteq 0 .. FreqLen - 1
    /\ LockCell \in 0 .. FreqLen - 1
    /\ Days \in Nat \ {0} /\ SlotsPerDay \in Nat \ {0}
    /\ Chunk \in Nat \ {0} /\ EepromSize \in Nat
    /\ EepromSize % Chunk = 0

VARIABLES
    cell,       \* how far each value of each client got
    states,     \* the change bits of each client
    addr,       \* the client the sweep is at,
    maj,        \* the group (state_maj),
    min,        \* and the place in it (state_min)
    connected,  \* to the broker
    recent,     \* the last attempt was less than MQTT_RECONNECT_TIME ago
    late,       \* history: cells reported behind the sweep
    reports, faults     \* how much of MaxReports and MaxFaults is used

sweepVars == <<states, addr, maj, min>>
linkVars  == <<connected, recent, faults>>
vars == <<cell, states, addr, maj, min, connected, recent, late, reports, faults>>

Freqs   == {"freq"} \X (0 .. FreqLen - 1)
Timers  == {"timer"} \X (0 .. Days * SlotsPerDay - 1)
Eeproms == {"eeprom"} \X (0 .. EepromSize - 1)
Cells   == Freqs \cup Timers \cup Eeproms

(* ChangeCategory: a bit for each day, one for each other group. *)
BitOf(c) == <<c[1], IF c[1] = "timer" THEN c[2] \div SlotsPerDay ELSE 0>>
Bits == {BitOf(c) : c \in Cells}

Init ==
    /\ cell = [a \in Clients |-> [c \in Cells |-> "none"]]
    /\ states = [a \in 0 .. MaxAddr - 1 |-> {}]
    /\ addr = 0 /\ maj = "freq" /\ min = 0
    /\ connected = FALSE /\ recent = FALSE
    /\ late = {}
    /\ reports = 0 /\ faults = 0
-----------------------------------------------------------------------------
(***************************************************************************)
(* Protocol's handlers: set_remote, then the change callback.              *)
(***************************************************************************)
Behind(a, c) == addr = a /\ maj = c[1] /\ c[2] < min

(* Mutant of SetRemote: a value published once stays published. *)
SetRemoteKeeping(a, S) ==
    /\ cell' = [cell EXCEPT ![a] =
                  [c \in Cells |-> IF c \in S /\ @[c] = "none" THEN "new"
                                   ELSE @[c]]]
    /\ UNCHANGED late

SetRemote(a, S) ==
    /\ cell' = [cell EXCEPT ![a] =
                  [c \in Cells |-> IF c \in S THEN "new" ELSE @[c]]]
    /\ late' = {p \in late : p[1] # a \/ p[2] \notin S}
                  \cup {<<a, c>> : c \in {d \in S : Behind(a, d)}}

OnDebug(a) ==
    /\ SetRemote(a, Freqs)
    /\ states' = [states EXCEPT ![a] = @ \cup {BitOf(c) : c \in Freqs}]
    /\ UNCHANGED <<addr, maj, min, reports, linkVars>>

OnTimerOrEeprom(a, c) ==
    /\ c \in Timers \cup Eeproms
    /\ reports < MaxReports
    /\ reports' = reports + 1
    /\ SetRemote(a, {c})
    /\ states' = [states EXCEPT ![a] = @ \cup {BitOf(c)}]
    /\ UNCHANGED <<addr, maj, min, linkVars>>

(* The only handler that reports to nobody. *)
OnMenuLock(a) ==
    /\ SetRemote(a, {<<"freq", LockCell>>})
    /\ UNCHANGED <<reports, sweepVars, linkVars>>
-----------------------------------------------------------------------------
(***************************************************************************)
(* publish: each of the cells S of client addr that is valid and not       *)
(* published, or has no flag, is sent; it counts as published whether that *)
(* went well (it is in ok) or not.  r is what the cells are before.        *)
(***************************************************************************)
Due(r, c) == r[c] = "new" \/ (c \in Freqs /\ c[2] \in Unflagged)

Publish(r, S) ==
    \E ok \in SUBSET {c \in S : Due(r[addr], c)} :
       LET due == {c \in S : Due(r[addr], c)}
       IN  /\ ok = due \/ faults < MaxFaults
           /\ faults' = IF ok = due THEN faults ELSE faults + 1
           /\ cell' = [r EXCEPT ![addr] =
                         [c \in Cells |-> IF c \in ok THEN "told"
                                          ELSE IF c \in due THEN "lost"
                                          ELSE @[c]]]
           /\ late' = {p \in late : p[1] # addr \/ p[2] \notin due}

PublishNothing(r) == cell' = r /\ UNCHANGED <<late, faults>>

(* Mutant of NextClient: a client with changes keeps its turn. *)
NextClientStays ==
    /\ addr' = IF states[addr] = {} THEN (addr + 1) % MaxAddr ELSE addr
    /\ maj' = "freq" /\ min' = 0

NextClient ==
    addr' = (addr + 1) % MaxAddr /\ maj' = "freq" /\ min' = 0

(* Mutant of NextMajor: the place is not reset. *)
NextMajorMidway ==
    CASE maj = "freq"   -> maj' = "timer" /\ UNCHANGED <<addr, min>>
      [] maj = "timer"  -> maj' = "eeprom" /\ UNCHANGED <<addr, min>>
      [] maj = "eeprom" -> NextClient

NextMajor ==
    CASE maj = "freq"   -> maj' = "timer" /\ min' = 0 /\ UNCHANGED addr
      [] maj = "timer"  -> maj' = "eeprom" /\ min' = 0 /\ UNCHANGED addr
      [] maj = "eeprom" -> NextClient

NextMinor(n) == min' = min + n /\ UNCHANGED <<addr, maj>>

Clear(bit) == states' = [states EXCEPT ![addr] = @ \ {bit}]

Has(bit) == bit \in states[addr]

(* No change in the group, or none at all. *)
Skip(r) ==
    /\ \/ states[addr] = {} /\ NextClient
       \/ /\ states[addr] # {}
          /\ \A c \in Cells : c[1] = maj => ~Has(BitOf(c))
          /\ NextMajor
    /\ PublishNothing(r)
    /\ UNCHANGED states

PublishFrequent(r) ==
    /\ maj = "freq" /\ Has(<<"freq", 0>>)
    /\ \/ /\ min < FreqLen
          /\ Publish(r, {<<"freq", min>>})
          /\ NextMinor(1) /\ UNCHANGED states
       \/ /\ min >= FreqLen
          /\ Clear(<<"freq", 0>>) /\ NextMajor
          /\ PublishNothing(r)

(* Mutant: the bit of a day goes with its first slot. *)
FirstSlot == min % SlotsPerDay = 0

LastSlot == min % SlotsPerDay = SlotsPerDay - 1

PublishTimers(r) ==
    /\ maj = "timer" /\ \E d \in 0 .. Days - 1 : Has(<<"timer", d>>)
    /\ LET day == <<"timer", min \div SlotsPerDay>>
       IN  \/ /\ min >= Days * SlotsPerDay
              /\ NextMajor
              /\ PublishNothing(r) /\ UNCHANGED states
           \/ /\ min < Days * SlotsPerDay /\ ~Has(day)
              /\ NextMinor(1)
              /\ PublishNothing(r) /\ UNCHANGED states
           \/ /\ Has(day)
              /\ NextMinor(1)
              /\ IF LastSlot THEN Clear(day) ELSE UNCHANGED states
              /\ Publish(r, {<<"timer", min>>})

PublishEeprom(r) ==
    /\ maj = "eeprom" /\ Has(<<"eeprom", 0>>)
    /\ \/ /\ min < EepromSize
          /\ Publish(r, {<<"eeprom", i>> : i \in min .. min + Chunk - 1})
          /\ NextMinor(Chunk) /\ UNCHANGED states
       \/ /\ min >= EepromSize
          /\ Clear(<<"eeprom", 0>>) /\ NextMajor
          /\ PublishNothing(r)

Sweep(r) ==
    Skip(r) \/ PublishFrequent(r) \/ PublishTimers(r) \/ PublishEeprom(r)

(* The callback, as far as it touches what is published: eeprom cells that *)
(* somebody wants to be read again are not valid until they are.           *)
Invalidated(a, S) ==
    [cell EXCEPT ![a] = [c \in Cells |-> IF c \in S THEN "none" ELSE @[c]]]

(* reconnect. *)
Link ==
    \/ connected /\ UNCHANGED <<connected, recent>>
    \/ ~connected /\ ~recent /\ connected' = TRUE /\ recent' = TRUE

Update ==
    /\ Link
    /\ Sweep(cell)
    /\ UNCHANGED reports

(* The same call when client.loop() has a request to re-read.              *)
UpdateWithReread ==
    /\ reports < MaxReports
    /\ reports' = reports + 1
    /\ Link
    /\ \E a \in Clients, c \in Eeproms : Sweep(Invalidated(a, {c}))

CannotConnect ==
    /\ ~connected /\ ~recent
    /\ faults < MaxFaults
    /\ recent' = TRUE /\ faults' = faults + 1
    /\ UNCHANGED <<cell, connected, late, reports, sweepVars>>

(* External: the connection breaks; time passes. *)
ConnectionLost ==
    /\ connected
    /\ faults < MaxFaults
    /\ connected' = FALSE /\ faults' = faults + 1
    /\ UNCHANGED <<cell, recent, late, reports, sweepVars>>

ReconnectTime ==
    /\ recent
    /\ recent' = FALSE
    /\ UNCHANGED <<cell, connected, late, reports, faults, sweepVars>>

Next ==
    \/ \E a \in Clients : OnDebug(a) \/ OnMenuLock(a)
    \/ \E a \in Clients, c \in Cells : OnTimerOrEeprom(a, c)
    \/ Update \/ UpdateWithReread
    \/ CannotConnect \/ ConnectionLost \/ ReconnectTime

Spec == Init /\ [][Next]_vars

(* loop() calls update() whenever the radio is idle, time passes, and the  *)
(* clients report once a minute.                                           *)
Fairness ==
    /\ WF_vars(Update)
    /\ WF_vars(ReconnectTime)
    /\ \A a \in Clients : WF_vars(OnDebug(a))

FairSpec == Spec /\ Fairness
-----------------------------------------------------------------------------
(* Every variable keeps its shape, and the place in the sweep never runs    *)
(* past the end of its group (state_min).                                  *)
GroupSize == [freq |-> FreqLen, timer |-> Days * SlotsPerDay, eeprom |-> EepromSize]

TypeOK ==
    /\ cell \in [Clients -> [Cells -> {"none", "new", "told", "lost"}]]
    /\ states \in [0 .. MaxAddr - 1 -> SUBSET Bits]
    /\ addr \in 0 .. MaxAddr - 1
    /\ maj \in DOMAIN GroupSize /\ min \in 0 .. GroupSize[maj]
    /\ connected \in BOOLEAN /\ recent \in BOOLEAN
    /\ late \subseteq Clients \X Cells

(* A reported timer or eeprom cell that the broker was not told of has its *)
(* change bit, or was reported behind the sweep: no bit is cleared while   *)
(* what it stands for has still to be published, unless the report came    *)
(* after the sweep had passed its place (publish_timers, publish_eeprom).  *)
OnlyLateChangesOverlooked ==
    \A a \in Clients, c \in Timers \cup Eeproms :
       cell[a][c] = "new" => BitOf(c) \in states[a] \/ <<a, c>> \in late

(* The sweep gets to every change, of every client, although reports keep  *)
(* coming and the connection may be lost in the middle (update).           *)
ChangesAreServed ==
    \A a \in Clients, b \in Bits : b \in states[a] ~> b \notin states[a]

(* The broker learns every frequent value again and again, also after a    *)
(* publication that failed and was marked as published all the same, and   *)
(* after a lock report that sets no change bit (publish, on_menu_lock).    *)
FrequentValuesArrive ==
    \A a \in Clients, c \in Freqs : []<>(cell[a][c] = "told")
=============================================================================
