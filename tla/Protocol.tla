------------------------------ MODULE Protocol ------------------------------
(***************************************************************************)
(* The master's side of the OpenHR20 radio protocol (src/src/protocol.h)   *)
(* with the values it mirrors (value.h, model.h), the packet queue it      *)
(* fills (packetqueue.h) and the clients it talks to.                      *)
(*                                                                         *)
(* A client speaks once a minute, and once more in the second half when    *)
(* the sync packet of second 30 forces it to; it answers the commands it   *)
(* receives.  The radio loses packets in either direction; a packet that   *)
(* fails its CMAC is lost as well (Protocol::receive drops it).  The       *)
(* clients' firmware is not part of the repository: ClientReport,          *)
(* ClientAnswer and what a client does with a command are modelled from    *)
(* what protocol.h expects of it.                                          *)
(***************************************************************************)
EXTENDS PacketQueueOps, SyncedValues, SequencesExt

CONSTANTS Clients,      \* addresses
          BasicSeq,     \* temp, auto and lock, or some of them: temp_wanted,
                        \* auto_mode and menu_locked, written unread
          EepromSeq,    \* eeprom cells, read on demand
          TimerSeq,     \* timer slots, in day and slot order
          TempOff,      \* TEMP_OFF
          TempOpen,     \* TEMP_OPEN
          OutOfRange,   \* temperatures send_set_temp does not send
          Refused,      \* temperatures a client does not take
          MaxEeprom,    \* MAX_QUEUE_EEPROM
          MaxTimers,    \* MAX_QUEUE_TIMERS
          Minute,       \* seconds in a minute
          MaxAsks,      \* bound: requests of the user in a behaviour
          MaxTurns      \* bound: changes made at the clients' own wheels

Half     == Minute \div 2
Temp     == "temp"
AutoMode == "auto"      \* 0 manual, 1 automatic
Lock     == "lock"      \* 0 unlocked, 1 locked
NoClient == 255         \* last_addr at the start of a second
Basics   == ToSet(BasicSeq)
Eeproms  == ToSet(EepromSeq)
Timers   == ToSet(TimerSeq)
Writable == Basics \cup Eeproms
Cells    == Basics \cup Eeproms \cup Timers

ASSUME ProtocolAssumption ==
    /\ Clients \subseteq 0 .. 29
    /\ BasicSeq \in Seq(Basics) /\ EepromSeq \in Seq(Eeproms)
    /\ TimerSeq \in Seq(Timers)
    /\ Temp \in Basics /\ Basics \subseteq {Temp, AutoMode, Lock}
    /\ Temp \notin Eeproms \cup Timers
    /\ {0, 1} \cup {TempOff, TempOpen} \subseteq Contents
    /\ Contents \ (Refused \cup OutOfRange) # {}
    /\ MaxEeprom \in Nat \ {0} /\ MaxTimers \in Nat \ {0}
    /\ Minute \in Nat /\ Minute > 1

NotTaken == Refused \cup OutOfRange

VARIABLES
    hr,         \* the master's record of each client (model.h, struct HR20)
    que, tx,    \* the packet queue and the frame on its way out
    ss,         \* crypto.rtc.ss
    lastAddr,   \* last_addr: the client served last in this second
    forced,     \* clients named by the last sync packet
    act,        \* external: the values the clients have
    answers,    \* external: what each client has to tell in its next packet
    turn,       \* external: the client will speak up by itself
    asks, turns \* how much of MaxAsks and MaxTurns is used

masterVars == <<hr, que, tx, ss, lastAddr, forced>>
clientVars == <<act, answers, turn>>
vars == <<hr, que, tx, ss, lastAddr, forced, act, answers, turn, asks, turns>>
-----------------------------------------------------------------------------
(* Commands of the master: a write or a read of one value, or a sync. *)
Write(c, x) == [op |-> "write", cell |-> c, val |-> x]
Read(c)     == [op |-> "read", cell |-> c, val |-> Zero]
SyncCmd     == [op |-> "sync", cell |-> Temp, val |-> Zero]
AckCmd      == [op |-> "ack", cell |-> Temp, val |-> Zero]

(* The bytes the send_* functions ask for and push. *)
BasicBytes      == 2
EepromAsked     == 3
EepromReadBytes == 2
TimerReadBytes  == 2
TimerWriteBytes == 4
SyncBytes       == 8

(* Reports of the clients, in a packet: values of some cells (the debug    *)
(* report has all basic ones), or a temperature command answered too short. *)
Values(a, S) == [short |-> FALSE, vals |-> [c \in S |-> act[a][c]]]
ShortAnswer  == [short |-> TRUE, vals |-> <<>>]

HR == [contacted : BOOLEAN, synced : BOOLEAN, fat : BOOLEAN,
       cells : [Cells -> Value]]

NewHR == [contacted |-> FALSE, synced |-> FALSE, fat |-> FALSE,
          cells |-> [c \in Cells |-> IF c \in Eeproms THEN NewEepromValue
                                                      ELSE NewValue]]

Init ==
    /\ hr = [a \in Clients |-> NewHR]
    /\ que = EmptyQueue
    /\ tx = NotSending
    /\ ss = 0
    /\ lastAddr = NoClient
    /\ forced = {}
    /\ act = [a \in Clients |->
                [c \in Cells |-> CHOOSE x \in Contents : x \notin NotTaken]]
    /\ answers = [a \in Clients |-> <<>>]
    /\ turn = [a \in Clients |-> TRUE]
    /\ asks = 0 /\ turns = 0
-----------------------------------------------------------------------------
(***************************************************************************)
(* process_packet, first half: the reports of a packet, in order, up to    *)
(* one that is in error.                                                   *)
(***************************************************************************)
(* Mutant: a short answer takes every request away. *)
OnReportAll(st, r) ==
    IF r.short
    THEN [ok |-> FALSE, cells |-> [c \in Cells |-> ResetRequested(st.cells[c])]]
    ELSE [st EXCEPT !.cells = [c \in Cells |->
            IF c \in DOMAIN r.vals THEN SetRemote(@[c], r.vals[c]) ELSE @[c]]]

OnReport(st, r) ==
    CASE ~st.ok -> st
      [] st.ok /\ r.short ->
           [ok |-> FALSE,
            cells |-> [st.cells EXCEPT ![Temp] = ResetRequested(@)]]
      [] st.ok /\ ~r.short ->
           [st EXCEPT !.cells = [c \in Cells |->
              IF c \in DOMAIN r.vals THEN SetRemote(@[c], r.vals[c]) ELSE @[c]]]

Reported(h, packet) ==
    LET after[i \in 0 .. Len(packet)] ==
          IF i = 0 THEN [ok |-> TRUE, cells |-> h.cells]
                   ELSE OnReport(after[i - 1], packet[i])
    IN  after[Len(packet)]

(***************************************************************************)
(* queue_updates_for: one pass over the values.  st.ee and st.tm count     *)
(* down the eeprom accesses and timers that may still be queued; the       *)
(* function returns early when the timers run out.                         *)
(***************************************************************************)
Enqueue(st, a, cmd, asked, pushed) ==
    [st EXCEPT !.que = Queued(@, a, cmd, asked, pushed, 0),
               !.synced = FALSE]

(* Mutant of CheckedTemp: no check. *)
UncheckedTemp(c, v) == v

(* send_set_temp drops a request that is out of range, and sends what the  *)
(* client last reported instead.                                           *)
CheckedTemp(c, v) ==
    IF c = Temp /\ v.requested \in OutOfRange THEN ResetRequested(v) ELSE v

BasicUpdate(a, st, c) ==
    LET v == st.cells[c]
        w == CheckedTemp(c, AfterNeedsWrite(v))
    IN  IF NeedsWrite(v)
        THEN Enqueue([st EXCEPT !.cells[c] = w], a, Write(c, w.requested),
                     BasicBytes, BasicBytes)
        ELSE [st EXCEPT !.cells[c] = AfterNeedsWrite(v)]

EepromUpdate(a, st, c) ==
    LET v == st.cells[c]
        w == AfterNeedsRead(v)
    IN  CASE st.ee = 0 -> st
          [] st.ee > 0 /\ NeedsRead(v) ->
               Enqueue([st EXCEPT !.cells[c] = w, !.ee = @ - 1], a, Read(c),
                       EepromAsked, EepromReadBytes)
          [] st.ee > 0 /\ ~NeedsRead(v) /\ NeedsWrite(w) ->
               Enqueue([st EXCEPT !.cells[c] = AfterNeedsWrite(w),
                                  !.ee = @ - 1],
                       a, Write(c, w.requested), EepromAsked, EepromAsked)
          [] OTHER -> [st EXCEPT !.cells[c] = AfterNeedsWrite(w)]

(* send_set_timer pushes raw() && 0xFF for the low byte, a truth value; the *)
(* contents of a timer stand for that byte.                                 *)
PushedByte(x) == IF x = Zero THEN 0 ELSE 1

TimerRead(a, st, c) ==
    LET v == st.cells[c]
        s == [st EXCEPT !.cells[c] = AfterNeedsRead(v)]
    IN  IF NeedsRead(v)
        THEN Enqueue([s EXCEPT !.tm = @ - 1], a, Read(c),
                     TimerReadBytes, TimerReadBytes)
        ELSE s

TimerWrite(a, st, c) ==
    LET v == st.cells[c]
        s == [st EXCEPT !.cells[c] = AfterNeedsWrite(v)]
    IN  IF NeedsWrite(v)
        THEN Enqueue([s EXCEPT !.tm = @ - 1], a, Write(c, PushedByte(v.requested)),
                     TimerWriteBytes, TimerWriteBytes)
        ELSE s

TimerUpdate(a, st, c) ==
    IF st.tm = 0 THEN st
    ELSE LET s == TimerRead(a, st, c)
         IN  IF s.tm = 0 THEN s ELSE TimerWrite(a, s, c)

(* The three loops. *)
BasicPass(a, st) ==
    LET after[i \in 0 .. Len(BasicSeq)] ==
          IF i = 0 THEN st ELSE BasicUpdate(a, after[i - 1], BasicSeq[i])
    IN  after[Len(BasicSeq)]

EepromPass(a, st) ==
    LET after[i \in 0 .. Len(EepromSeq)] ==
          IF i = 0 THEN st ELSE EepromUpdate(a, after[i - 1], EepromSeq[i])
    IN  after[Len(EepromSeq)]

TimerPass(a, st) ==
    LET after[i \in 0 .. Len(TimerSeq)] ==
          IF i = 0 THEN st ELSE TimerUpdate(a, after[i - 1], TimerSeq[i])
    IN  after[Len(TimerSeq)]

(* Cells and queue after the whole pass, and whether nothing was asked for. *)
Updates(a, cells, q) ==
    LET start == [cells |-> cells, que |-> q, synced |-> TRUE,
                  ee |-> MaxEeprom, tm |-> MaxTimers]
        read  == EepromPass(a, BasicPass(a, start))
        done  == IF read.ee = MaxEeprom THEN TimerPass(a, read) ELSE read
    IN  IF done.synced
        THEN [done EXCEPT !.que = Queued(@, a, AckCmd, 0, 0, 0)]
        ELSE done

UpdateCount(q, a) == {s \in Slots : q[s].addr = a}

(***************************************************************************)
(* A valid packet of client a (Protocol::receive and process_packet): the  *)
(* values are taken over and, unless a was already served in this second,  *)
(* what it needs is queued and the answer made ready.                      *)
(***************************************************************************)
Receive(a, packet) ==
    LET got  == Reported(hr[a], packet)
        upd  == Updates(a, got.cells, que)
        more == \E s, t \in UpdateCount(upd.que, a) : s # t
    IN  IF got.ok /\ lastAddr # a
        THEN /\ hr' = [hr EXCEPT ![a] =
                         [contacted |-> TRUE, synced |-> upd.synced,
                          fat |-> more, cells |-> upd.cells]]
             /\ que' = PreparedQueue(upd.que, tx, a)
             /\ tx' = PreparedTx(upd.que, tx, a)
             /\ lastAddr' = a
        ELSE /\ hr' = [hr EXCEPT ![a].contacted = TRUE,
                                 ![a].cells = got.cells]
             /\ UNCHANGED <<que, tx, lastAddr>>

(* A packet of a client reaches the master, or is lost.  While the master  *)
(* sends, the clients listen: one that did not would merely not be heard.  *)
Heard(a, packet) ==
    /\ Receive(a, packet)
    /\ UNCHANGED <<ss, forced>>

NotHeard == UNCHANGED masterVars

(* External: the report a client makes in its turn, after the answers it   *)
(* still has; a refused temperature is answered at once, not reported.     *)
Refusing(a) == \E i \in DOMAIN answers[a] : answers[a][i].short

Reporting(a) ==
    /\ tx.slot = NoSlot
    /\ turn[a]
    /\ ~Refusing(a)
    /\ turn' = [turn EXCEPT ![a] = FALSE]
    /\ answers' = [answers EXCEPT ![a] = <<>>]
    /\ UNCHANGED <<act, asks, turns>>

ReportHeard(a) ==
    Reporting(a) /\ Heard(a, Append(answers[a], Values(a, Basics)))
ReportLost(a) == Reporting(a) /\ NotHeard

(* External: the answer of a client to the commands it received. *)
Answering(a) ==
    /\ tx.slot = NoSlot
    /\ answers[a] # <<>>
    /\ answers' = [answers EXCEPT ![a] = <<>>]
    /\ UNCHANGED <<act, turn, asks, turns>>

AnswerHeard(a) == Answering(a) /\ Heard(a, answers[a])
AnswerLost(a)  == Answering(a) /\ NotHeard

(***************************************************************************)
(* Protocol::update at the next second.                                    *)
(***************************************************************************)
Behind(h) == h.contacted /\ (~h.synced \/ \E c \in Basics : h.cells[c].wanted)

QueueAt(t) ==
    Queued(IF t = 0 THEN EmptyQueue ELSE Aged(que, 1),
           SyncAddr, SyncCmd, SyncBytes, SyncBytes, TzOffset)

TxAt(t) == IF t = 0 THEN NotSending ELSE tx

SyncAt(t) ==
    /\ que' = PreparedQueue(QueueAt(t), TxAt(t), SyncAddr)
    /\ tx' = PreparedTx(QueueAt(t), TxAt(t), SyncAddr)
    /\ forced' = IF t = Half THEN {a \in Clients : Behind(hr[a])} ELSE {}

NoSync == que' = Aged(que, 1) /\ UNCHANGED <<tx, forced>>

NewSecond ==
    /\ ss' = (ss + 1) % Minute
    /\ lastAddr' = NoClient
    /\ \/ ss' \in {0, Half} /\ SyncAt(ss')
       \/ ss' \notin {0, Half} /\ NoSync
    /\ turn' = IF ss' = 0 THEN [a \in Clients |-> TRUE] ELSE turn
    /\ UNCHANGED <<hr, act, answers, asks, turns>>

(***************************************************************************)
(* The frame under way has left (HR20Master::send, PacketQ::pop).  It is   *)
(* good when the packet still is the one its CMAC was computed over.       *)
(***************************************************************************)
GoodFrame == que[tx.slot].packet = tx.mac

FrameOut ==
    /\ tx.slot # NoSlot
    /\ que' = [que EXCEPT ![tx.slot] = FreeItem]
    /\ tx' = NotSending
    /\ UNCHANGED <<hr, ss, lastAddr, forced, asks, turns>>

(* External: what a client does with a command, and what it answers: all   *)
(* basic values to a temperature or mode command, else the cell alone.     *)
Told(vals, c) ==
    [short |-> FALSE,
     vals |-> [d \in IF c \in {Temp, AutoMode} THEN Basics ELSE {c} |-> vals[d]]]

OnCommand(st, cmd) ==
    LET vals == IF cmd.op = "write" THEN [st.vals EXCEPT ![cmd.cell] = cmd.val]
                                    ELSE st.vals
    IN  IF cmd = Write(Temp, cmd.val) /\ cmd.val \in Refused
        THEN [st EXCEPT !.out = Append(@, ShortAnswer)]
        ELSE [vals |-> vals, out |-> Append(st.out, Told(vals, cmd.cell))]

Obeyed(a, packet) ==
    LET after[i \in 0 .. Len(packet)] ==
          IF i = 0 THEN [vals |-> act[a], out |-> answers[a]]
                   ELSE OnCommand(after[i - 1], packet[i])
    IN  after[Len(packet)]

ClientDoes(a, packet) ==
    LET st == Obeyed(a, packet)
    IN  /\ act' = [act EXCEPT ![a] = st.vals]
        /\ answers' = [answers EXCEPT ![a] = st.out]

FrameHeard ==
    /\ tx.to \in Clients /\ GoodFrame
    /\ ClientDoes(tx.to, tx.mac)
    /\ FrameOut
    /\ UNCHANGED turn

SyncHeard(S) ==
    /\ tx.to = SyncAddr /\ GoodFrame
    /\ turn' = [a \in Clients |-> turn[a] \/ a \in S]
    /\ FrameOut
    /\ UNCHANGED <<act, answers>>

FrameLost ==
    /\ FrameOut
    /\ UNCHANGED clientVars

(***************************************************************************)
(* The MQTT callback, by topic.  A request marks the client as not synced. *)
(* For a timer only the requested value changes (set_timer_mode and        *)
(* set_timer_time in model.h).                                             *)
(***************************************************************************)
Asking(a) ==
    /\ hr[a].contacted
    /\ asks < MaxAsks
    /\ asks' = asks + 1
    /\ UNCHANGED <<que, tx, ss, lastAddr, forced, act, answers, turn, turns>>

DomainOf(c) == IF c \in {AutoMode, Lock} THEN {0, 1} ELSE Contents

AskWrite(a, c, x) ==
    /\ c \in Writable /\ x \in DomainOf(c)
    /\ Asking(a)
    /\ hr' = [hr EXCEPT ![a].cells[c] = SetRequested(@, x),
                        ![a].synced = FALSE]

AskEepromRead(a, c) ==
    /\ c \in Eeproms
    /\ Asking(a)
    /\ hr' = [hr EXCEPT ![a].cells[c] = AskRead(@), ![a].synced = FALSE]

AskTimer(a, c, x) ==
    /\ c \in Timers
    /\ Asking(a)
    /\ hr' = [hr EXCEPT ![a].cells[c].requested = x, ![a].synced = FALSE]

(* The topic mode asks for what the mode means, unless the payload, which  *)
(* nothing terminates, is not recognised, and runs on into the case of the *)
(* topic lock.  That one reads the payload as a truth value; any two       *)
(* strings of one length are equal to equalsIgnoreCase.                    *)
Modes == {"off", "open", "auto", "manual"}

NoRequest == [c \in {} |-> Zero]

ModeRequest(m) ==
    CASE m = "off"    -> [c \in {AutoMode, Temp} |-> IF c = Temp THEN TempOff ELSE 0]
      [] m = "open"   -> [c \in {AutoMode, Temp} |-> IF c = Temp THEN TempOpen ELSE 0]
      [] m = "auto"   -> [c \in {AutoMode} |-> 1]
      [] m = "manual" -> [c \in {AutoMode} |-> 0]

AsTruthValue(m) ==
    CASE m = "off"              -> [c \in {Lock} |-> 0]
      [] m \in {"open", "auto"} -> [c \in {Lock} |-> 1]
      [] m = "manual"           -> NoRequest

(* cells, when req has been asked for. *)
Requested(cells, req) ==
    [c \in Cells |-> IF c \in DOMAIN req THEN SetRequested(cells[c], req[c])
                                         ELSE cells[c]]

AskMode(a, m, recognised) ==
    /\ {AutoMode, Lock} \subseteq Basics
    /\ Asking(a)
    /\ LET mode  == IF recognised THEN ModeRequest(m) ELSE NoRequest
           truth == AsTruthValue(m)
       IN  hr' = [hr EXCEPT ![a].cells = Requested(Requested(@, mode), truth),
                            ![a].synced = @ /\ truth = NoRequest]

(* External: somebody turns the wheel at the client. *)
TurnWheel(a, x) ==
    /\ turns < MaxTurns
    /\ turns' = turns + 1
    /\ x \notin NotTaken
    /\ act' = [act EXCEPT ![a][Temp] = x]
    /\ UNCHANGED <<hr, que, tx, ss, lastAddr, forced, answers, turn, asks>>
-----------------------------------------------------------------------------
Next ==
    \/ \E a \in Clients : ReportHeard(a) \/ ReportLost(a)
    \/ \E a \in Clients : AnswerHeard(a) \/ AnswerLost(a)
    \/ \E S \in SUBSET forced : SyncHeard(S)
    \/ NewSecond
    \/ FrameHeard
    \/ FrameLost
    \/ \E a \in Clients, c \in Cells, x \in Contents :
          AskWrite(a, c, x) \/ AskTimer(a, c, x)
    \/ \E a \in Clients, c \in Cells : AskEepromRead(a, c)
    \/ \E a \in Clients, m \in Modes, r \in BOOLEAN : AskMode(a, m, r)
    \/ \E a \in Clients, x \in Contents : TurnWheel(a, x)

Spec == Init /\ [][Next]_vars

(***************************************************************************)
(* Time passes, frames that are on their way leave, clients keep reporting *)
(* once a minute, and the radio is lossy but not against the master: it    *)
(* does not for ever lose just what a client still needs to hear, or what  *)
(* the master still needs to be told.  Nothing is assumed of the sync      *)
(* packet of second 30, nor of any other frame.                            *)
(***************************************************************************)
(* The frame has a command about a value that is not settled ...           *)
Useful ==
    \E i \in DOMAIN tx.mac :
       LET cmd == tx.mac[i]
           v   == hr[tx.to].cells[cmd.cell]
       IN  \/ cmd = Read(cmd.cell) /\ Unread(v)
           \/ v.wanted /\ cmd = Write(cmd.cell, v.requested)

(* ... and so has an answer that settles it. *)
Settles(a) ==
    \/ Refusing(a)
    \/ \E i \in DOMAIN answers[a] : \E c \in DOMAIN answers[a][i].vals :
         LET v == hr[a].cells[c]
         IN  \/ Unread(v)
             \/ v.wanted /\ v.requested = answers[a][i].vals[c]

(* Strong fairness, with what enables the action written out: TLC takes    *)
(* long to find out whether a step of Receive is possible.                 *)
Listening(a) == tx.slot = NoSlot /\ turn[a] /\ ~Refusing(a)
Telling(a)   == tx.slot = NoSlot /\ answers[a] # <<>> /\ Settles(a)
Commanding(a) == tx.to = a /\ GoodFrame /\ Useful

FairClient(a) ==
    /\ <>[](~Listening(a)) \/ []<><<ReportHeard(a)>>_vars
    /\ <>[](~Telling(a)) \/ []<><<AnswerHeard(a) /\ Settles(a)>>_vars
    /\ <>[](~Commanding(a)) \/ []<><<FrameHeard /\ Commanding(a)>>_vars

Fairness ==
    /\ WF_vars(NewSecond)
    /\ WF_vars(FrameLost)
    /\ \A a \in Clients : FairClient(a)

FairSpec == Spec /\ Fairness
-----------------------------------------------------------------------------
Commands == [op : {"write", "read", "sync"}, cell : Cells, val : Contents]

(* Every variable keeps its shape. *)
TypeOK ==
    /\ hr \in [Clients -> HR]
    /\ \A s \in Slots :
          /\ que[s].addr \in Clients \cup {Free, InFlight, SyncAddr}
          /\ que[s].packet \in Seq(Commands)
    /\ tx.slot \in Slots \cup {NoSlot}
    /\ ss \in 0 .. Minute - 1
    /\ lastAddr \in Clients \cup {NoClient}
    /\ forced \subseteq Clients
    /\ act \in [Clients -> [Cells -> Contents]]
    /\ turn \in [Clients -> BOOLEAN]

(* No temperature out of range is on its way to a client, whatever the     *)
(* user asked for and however often it was queued again (send_set_temp     *)
(* falls back to the last reported temperature, which has to be known).    *)
TempInRange ==
    \A s \in Slots : \A i \in DOMAIN que[s].packet :
       que[s].packet[i].op = "write" /\ que[s].packet[i].cell = Temp
          => que[s].packet[i].val \notin OutOfRange

(* A request is given up only when the client has confirmed it, refused it *)
(* or could never be sent it: neither a lost answer nor a report of        *)
(* another value takes it away (SyncedValue::set_remote, on_temperature,   *)
(* send_set_temp).                                                         *)
GivenUp(a, c) == hr[a].cells[c].wanted /\ ~hr'[a].cells[c].wanted
Confirmed(a, c) == \E x \in Contents :
    /\ x = hr[a].cells[c].requested
    /\ \/ \E i \in DOMAIN answers[a] :
             c \in DOMAIN answers[a][i].vals /\ answers[a][i].vals[c] = x
       \/ turn[a] /\ c \in Basics /\ act[a][c] = x
GivenUpForGoodReason ==
    [][\A a \in Clients, c \in Cells :
         GivenUp(a, c) =>
            \/ Confirmed(a, c)
            \/ c = Temp /\ Refusing(a)
            \/ c = Temp /\ hr[a].cells[c].requested \in OutOfRange]_vars

(* Every request for a basic value or an eeprom cell is settled in the     *)
(* end: the retry counter that reads and writes share, the limits per      *)
(* exchange, a queue cleared every minute and a lossy radio may delay it   *)
(* but not forget it.                                                      *)
RequestsSettle ==
    \A a \in Clients, c \in Writable :
       hr[a].cells[c].wanted ~> ~hr[a].cells[c].wanted

(* Once a client was heard, every timer is read in the end, and so is      *)
(* every eeprom cell somebody asked for, although synced may be reported   *)
(* while reads are still unanswered (queue_updates_for).                   *)
ReadsComplete ==
    \A a \in Clients, c \in Eeproms \cup Timers :
       (hr[a].contacted /\ ~hr[a].cells[c].masked) ~> hr[a].cells[c].valid

(* When users and wheels come to rest the mirror settles on what the       *)
(* clients have, whatever stale commands and answers were still on their   *)
(* way (process_packet, on_debug).                                         *)
MirrorSettles ==
    <>[](\A a \in Clients, c \in Basics : hr[a].cells[c].remote = act[a][c])
-----------------------------------------------------------------------------
(* model.h:50: "we sync them to HR20 when a change is requested".  A value *)
(* that a command changes at a client is the one requested now, or the     *)
(* newer request has still to be written.                                  *)
WritesWhatIsRequested ==
    [][\A a \in Clients, c \in Cells :
          (act'[a][c] # act[a][c] /\ turns' = turns) =>
             \/ act'[a][c] = hr[a].cells[c].requested
             \/ hr[a].cells[c].wanted]_vars

(* README.md:82 of a topic timers/DAY/SLOT/time: "sets time for given      *)
(* DAY/SLOT".  A timer that was asked for gets to the client.              *)
TimersReachClient ==
    \A a \in Clients, c \in Timers, x \in Contents \ {Zero} :
       hr[a].cells[c].requested = x ~> (act[a][c] = x \/ hr[a].cells[c].requested # x)
=============================================================================
