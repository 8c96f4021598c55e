----------------------------- MODULE TopicPath -----------------------------
(***************************************************************************)
(* struct Path (src/src/mqtt.h): topics of the broker as the master writes *)
(* and reads them.  A topic is a sequence of levels, what stands between   *)
(* the separators, and a level a decimal number or a word; levels are not  *)
(* empty.  A word that begins with a digit is read like other words are:   *)
(* the number ends before the separator, which no topic allows.            *)
(***************************************************************************)
EXTENDS Integers, Sequences

CONSTANT Prefix         \* levels of Path::prefix

Word(w) == [word |-> w, num |-> 0]
Num(n)  == [word |-> "", num |-> n]
IsNum(level) == level.word = ""

Words == [word : STRING \ {""}, num : {0}]
Level == Words \cup [word : {""}, num : Nat]

ASSUME PrefixAssumption ==
    /\ Prefix \in Seq(Words)
    /\ Prefix # <<>>

(* Topics without further levels, those that can be set and the others.    *)
Settable == {"requested_temp", "auto", "mode", "lock"}
ReadOnly == {"average_temp", "battery", "error", "valve_wanted", "window",
             "last_seen", "state"}

(* Words that stand for the two subtrees: only their beginning is compared. *)
EepromWords == {"eeprom", "eeproms"}
TimerWords  == {"timer", "timers"}

Accesses    == {"read", "write"}
TimerTopics == {"time", "mode"}

(* sub is timer_topic or eeprom_access. *)
Path(addr, set, t, sub, d, s, c) ==
    [addr |-> addr, set |-> set, topic |-> t, sub |-> sub,
     day |-> d, slot |-> s, cell |-> c]
PlainPath(addr, set, t)          == Path(addr, set, t, "", 0, 0, 0)
EepromPath(addr, set, access, c) == Path(addr, set, "eeprom", access, 0, 0, c)
TimerPath(addr, set, tt, d, s)   == Path(addr, set, "timer", tt, d, s, 0)

NoPath == PlainPath(0, FALSE, "invalid")

SubLevels(p) ==
    CASE p.topic = "eeprom" ->
            <<Num(p.cell)>> \o IF p.set THEN <<Word(p.sub)>> ELSE <<>>
      [] p.topic = "timer" -> <<Num(p.day), Num(p.slot), Word(p.sub)>>
      [] OTHER -> <<>>

Compose(p) ==
    Prefix \o (IF p.set THEN <<Word("set")>> ELSE <<>>)
           \o <<Num(p.addr), Word(p.topic)>> \o SubLevels(p)
-----------------------------------------------------------------------------
(* to_num in a byte: a word has no digit. *)
ToNum(level) == level.num % 256

(* skip_prefix: the levels below the prefix. *)
Below(s) ==
    IF Len(s) > Len(Prefix) /\ SubSeq(s, 1, Len(Prefix)) = Prefix
    THEN SubSeq(s, Len(Prefix) + 1, Len(s)) ELSE <<>>

IsPlain(r)  == Len(r) = 2 /\ r[2].word \in Settable \cup ReadOnly

(* What follows the cell of a topic to read is not looked at. *)
IsEeprom(r, set) ==
    /\ Len(r) > 2 /\ r[2].word \in EepromWords
    /\ set => Len(r) = 4 /\ IsNum(r[3]) /\ r[4].word \in Accesses

IsTimer(r) ==
    /\ Len(r) = 5 /\ r[2].word \in TimerWords
    /\ IsNum(r[3]) /\ IsNum(r[4]) /\ r[5].word \in TimerTopics

Access(r, set) == IF set THEN r[4].word ELSE "read"

ParseClient(r, set) ==
    IF ~(Len(r) > 1 /\ IsNum(r[1])) THEN NoPath ELSE
    CASE IsPlain(r) -> PlainPath(ToNum(r[1]), set, r[2].word)
      [] IsEeprom(r, set) ->
            EepromPath(ToNum(r[1]), set, Access(r, set), ToNum(r[3]))
      [] IsTimer(r) ->
            TimerPath(ToNum(r[1]), set, r[5].word, ToNum(r[3]), ToNum(r[4]))
      [] OTHER -> NoPath

Parse(s) ==
    LET r == Below(s)
    IN  IF r # <<>> /\ r[1] = Word("set") THEN ParseClient(Tail(r), TRUE)
                                          ELSE ParseClient(r, FALSE)
=============================================================================
