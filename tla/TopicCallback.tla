--------------------------- MODULE TopicCallback ---------------------------
(***************************************************************************)
(* MQTTPublisher::callback (src/src/mqtt.h) on top of the client model: a  *)
(* message on a topic is a request to the client the topic names.  Packets *)
(* keep coming and enrol new clients meanwhile.  A request is the set of   *)
(* the values it assigns; one that assigns none changes nothing, and so    *)
(* does a topic nobody subscribed to.                                      *)
(***************************************************************************)
EXTENDS ClientRegistry, TopicPath, Codecs

CONSTANTS Messages,     \* topics with payloads that arrive
          Reports,      \* values clients report
          TimerDays, SlotsPerDay,   \* TIMER_DAYS, TIMER_SLOTS_PER_DAY
          EepromCells,  \* addresses of eeprom cells, a byte in the code
          TempOff, TempOpen         \* TEMP_OFF, TEMP_OPEN

VARIABLE message        \* history: the last message, or NoMessage when a
                        \* packet came after it

callbackVars == <<index, cidx, clients, message>>

Message(s, t) == [topic |-> s, text |-> t, word |-> ""]
NoMessage     == Message(<<>>, <<>>)

(* The payloads of the mode topic are words (parse_mode). *)
ModeMessage(s, w, len) == [topic |-> s, text |-> [i \in 1 .. len |-> Letter], word |-> w]

(* The part of a path that says what is requested, and its value. *)
Request(p) == [topic |-> p.topic, sub |-> p.sub, day |-> p.day,
               slot |-> p.slot, cell |-> p.cell]
Assign(p, v)   == [of |-> Request(p), val |-> v]
AssignTo(t, v) == Assign(PlainPath(0, TRUE, t), v)
Truth(b)       == IF b THEN 1 ELSE 0

(* set_requested_from_str, and the branches of callback for each topic.    *)
(* What is assigned to a timer is what set_mode and set_time of its word   *)
(* are called with (SetTimerMode, SetTimerTime of Codecs).                 *)
ReadLock(t) == {AssignTo("lock", Truth(b)) : b \in IF IsBool(t) THEN {ReadBool(t)} ELSE {}}

ReadEeprom(p, t) ==
    IF p.sub = "read" THEN {Assign(p, 0)}
    ELSE {Assign(p, v) : v \in IF IsInt(t) THEN {ReadByte(t)} ELSE {}}

ReadTimer(p, t) ==
    {Assign(p, v) : v \in
       CASE p.sub = "mode" /\ IsNat(t) -> {ReadByte(t) % 16}
         [] p.sub = "time" /\ IsTime(t) -> {ReadTime(t)}
         [] OTHER -> {}}

(* The word of a mode is compared up to a zero byte, which the payload does *)
(* not end with: seen says that one happens to follow.  The case goes on   *)
(* into the one of the lock.                                               *)
ReadMode(w, seen) ==
    IF ~seen THEN {} ELSE
    CASE w = "off"    -> {AssignTo("auto", 0), AssignTo("requested_temp", TempOff)}
      [] w = "open"   -> {AssignTo("auto", 0), AssignTo("requested_temp", TempOpen)}
      [] w = "auto"   -> {AssignTo("auto", 1)}
      [] w = "manual" -> {AssignTo("auto", 0)}
      [] OTHER        -> {}

Requested(p, m, seen) ==
    CASE p.topic = "requested_temp" ->
            {Assign(p, v) : v \in IF IsTemp(m.text) THEN {ReadHalf(m.text)} ELSE {}}
      [] p.topic = "auto" ->
            {Assign(p, Truth(b)) : b \in IF IsBool(m.text) THEN {ReadBool(m.text)} ELSE {}}
      [] p.topic = "mode"   -> ReadMode(m.word, seen) \cup ReadLock(m.text)
      [] p.topic = "lock"   -> ReadLock(m.text)
      [] p.topic = "eeprom" -> ReadEeprom(p, m.text)
      [] p.topic = "timer"  -> ReadTimer(p, m.text)
      [] OTHER -> {}

Days  == 0 .. TimerDays - 1
Hours == 0 .. SlotsPerDay - 1

SetPaths(a) ==
    {PlainPath(a, TRUE, t) : t \in Settable}
    \cup (UNION {{EepromPath(a, TRUE, x, c) : x \in Accesses} : c \in EepromCells})
    \cup (UNION {UNION {{TimerPath(a, TRUE, t, d, s) : t \in TimerTopics} :
                           d \in Days} : s \in Hours})

ASSUME CallbackAssumption ==
    /\ Reports \subseteq Values
    /\ \A m \in Messages, seen \in BOOLEAN :
          Parse(m.topic) \in SetPaths(Parse(m.topic).addr) =>
             Requested(Parse(m.topic), m, seen) \in Values \cup {{}}
    /\ TimerDays \in 1 .. 256 /\ SlotsPerDay \in 1 .. 256
    /\ EepromCells \subseteq 0 .. 255
    /\ MaxAddr <= 256
    /\ NoMessage \notin Messages

(* What topics there are, and that every cell they name is one there is.   *)
ASSUME TopicsAssumption ==
    \A m \in Messages :
       /\ m.topic \in Seq(Level)
       /\ Parse(m.topic).topic = "eeprom" => Parse(m.topic).cell \in EepromCells

CallbackInit == Init /\ message = NoMessage
-----------------------------------------------------------------------------
(* Mutants of Takes: published topics set values, the last day is refused, *)
(* a day too many is taken.                                                *)
TakesPublished(p) ==
    /\ p.addr # 0
    /\ p.topic \in Settable \cup {"eeprom", "timer"}
    /\ p.topic = "timer" => p.day < TimerDays /\ p.slot < SlotsPerDay

TakesFewer(p) ==
    /\ p.addr # 0 /\ p.set
    /\ p.topic \in Settable \cup {"eeprom", "timer"}
    /\ p.topic = "timer" => p.day < TimerDays - 1 /\ p.slot < SlotsPerDay

TakesMore(p) ==
    /\ p.addr # 0 /\ p.set
    /\ p.topic \in Settable \cup {"eeprom", "timer"}
    /\ p.topic = "timer" => p.day <= TimerDays /\ p.slot < SlotsPerDay

(* The checks of callback and the cases of its switch. *)
Takes(p) ==
    /\ p.addr # 0 /\ p.set
    /\ p.topic \in Settable \cup {"eeprom", "timer"}
    /\ p.topic = "timer" => p.day < TimerDays /\ p.slot < SlotsPerDay

OnRequest(m) ==
    \E p \in {Parse(m.topic)}, seen \in BOOLEAN :
        /\ Takes(p)
        /\ Requested(p, m, seen) # {}
        /\ Ask(p.addr, Requested(p, m, seen))
        /\ message' = m

OnOther(m) ==
    \E p \in {Parse(m.topic)}, seen \in BOOLEAN :
        /\ ~(Takes(p) /\ Known(p.addr) /\ Requested(p, m, seen) # {})
        /\ message' = m
        /\ UNCHANGED vars

OnPacket(a, v) ==
    /\ HearKnown(a, v) \/ HearNew(a, v)
    /\ message' = NoMessage

CallbackNext ==
    \/ \E m \in Messages : OnRequest(m) \/ OnOther(m)
    \/ \E a \in Addrs, v \in Reports : OnPacket(a, v)

CallbackSpec == CallbackInit /\ [][CallbackNext]_callbackVars
-----------------------------------------------------------------------------
(* To the client model a message is a request as any other, for a value    *)
(* that exists, or nothing: no number in a topic reaches beyond the days   *)
(* and slots there are (callback).                                         *)
KeepsRegistry == Spec

(* The codecs agree over the whole range of every value (str.cc,           *)
(* converters.h, timer.h).  This is about no state; it is looked at in the *)
(* first one.                                                              *)
CodecsAgree == message = NoMessage /\ cidx = 0 => Agreement

(* How a topic may differ from the one that Path::compose writes: numbers  *)
(* count modulo 256, and the names of subtrees may go on.                  *)
SameLevel(level, written) ==
    CASE IsNum(written) -> IsNum(level) /\ level.num % 256 = written.num
      [] written.word = "eeprom" -> level.word \in EepromWords
      [] written.word = "timer" -> level.word \in TimerWords
      [] OTHER -> level = written

SameTopic(s, written) ==
    /\ Len(s) = Len(written)
    /\ \A i \in DOMAIN s : SameLevel(s[i], written[i])

(* The values a topic may assign: the mode topic also sets the lock. *)
Assigned(p) ==
    IF p.topic = "mode"
    THEN {Request(PlainPath(0, TRUE, t)) : t \in {"auto", "requested_temp", "lock"}}
    ELSE {Request(p)}

(* Whatever arrives, a client is asked for something only by the topic     *)
(* that compose would write for that client and that value in the set      *)
(* branch, up to the freedom of SameTopic: nothing published and no other  *)
(* client's topic is taken for a request (callback, Path::parse).          *)
AskedByItsTopic ==
    [][\A a \in Enrolled :
         LET wanted == clients'[index[a]].wanted
         IN  wanted # clients[index[a]].wanted =>
               \E p \in SetPaths(a) :
                  /\ \A w \in wanted : w.of \in Assigned(p)
                  /\ SameTopic(message'.topic, Compose(p))]_callbackVars

(* The text a value of a topic is published as, and the values it has. *)
Published(p, v) ==
    CASE p.topic = "requested_temp" -> WriteHalf(v)
      [] p.topic \in {"auto", "lock"} -> WriteBool(v = 1)
      [] p.topic = "timer" /\ p.sub = "time" -> WriteTime(v)
      [] OTHER -> WriteInt(v)

ValuesOf(p) ==
    CASE p.topic \in {"auto", "lock"} -> 0 .. 1
      [] p.topic = "timer" /\ p.sub = "time" -> 0 .. 24 * 60 - 1
      [] p.topic = "timer" /\ p.sub = "mode" -> 0 .. 15
      [] p.sub = "read" -> {0}
      [] p.topic = "mode" -> {}
      [] OTHER -> 0 .. 255

Echo(m) ==
    UNION {{[path |-> p, val |-> v] : v \in {w \in ValuesOf(p) : Published(p, w) = m.text}} :
           p \in {q \in UNION {SetPaths(a) : a \in ValidAddrs \ {0}} :
                    Compose(q) = m.topic}}
EchoOf == [m \in Messages \cup {NoMessage} |-> Echo(m)]

(* And the other way round: what the master publishes of a value, sent     *)
(* back on the topic of the set branch, asks the client for just this      *)
(* value, if only the client is known; of a timer, it gets to set_mode and *)
(* set_time.                                                               *)
RequestsGetThrough ==
    [][\A e \in EchoOf[message'] :
         e.path.addr \in Enrolled =>
            clients'[index[e.path.addr]].wanted = {Assign(e.path, e.val)}]_callbackVars
=============================================================================
