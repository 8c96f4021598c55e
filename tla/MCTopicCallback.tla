-------------------------- MODULE MCTopicCallback --------------------------
(***************************************************************************)
(* Room for two clients, three addresses a topic can name, 0, which is not *)
(* valid there, and one beyond the range, so that the array fills up and   *)
(* addresses are refused for either reason.  Topics with and without the   *)
(* prefix and the set branch: each kind, too short, too long, with a day   *)
(* too many, and with numbers that do not fit into a byte.  Payloads: what *)
(* is published at the ends of each range, and texts that are read as      *)
(* something else, or as nothing.                                          *)
(***************************************************************************)
EXTENDS TopicCallback

CONSTANT Warm

MCAddrs  == 0 .. 4
MCPrefix == <<Word("hr20")>>
MCReports == {{Warm}}
MCEepromCells == {255}

MCTails ==
    {<<Word("lock")>>, <<Word("battery")>>, <<Word("lock"), Word("x")>>, <<>>,
     <<Word("eeprom")>>, <<Word("eeprom"), Num(255)>>,
     <<Word("eeprom"), Num(255), Word("write")>>,
     <<Word("eeproms"), Num(511), Word("read")>>,
     <<Word("timer"), Num(1), Num(0)>>,
     <<Word("timer"), Num(1), Num(0), Word("time")>>,
     <<Word("timers"), Num(0), Num(256), Word("mode")>>,
     <<Word("timer"), Num(2), Num(0), Word("mode")>>,
     <<Word("timer"), Num(1), Num(1), Word("mode")>>}
MCSet == MCPrefix \o <<Word("set")>>
MCTopics ==
    {MCSet \o <<Num(1)>> \o t : t \in MCTails}
    \cup {MCPrefix \o <<Num(1)>> \o t : t \in MCTails}
    \cup {MCSet \o <<n, Word("lock")>> : n \in {Num(0), Num(2), Num(4), Num(257), Word("x")}}
    \cup {<<Word("other"), Word("set"), Num(1), Word("lock")>>, MCSet}

MCClient1 == MCSet \o <<Num(1)>>
MCTimer == MCClient1 \o <<Word("timer"), Num(1), Num(0)>>
MCCell == MCClient1 \o <<Word("eeprom"), Num(255), Word("write")>>
MCMessages ==
    {Message(s, <<0>>) : s \in MCTopics}
    \cup {Message(MCClient1 \o <<Word("requested_temp")>>, t) :
            t \in {WriteHalf(9), WriteHalf(255), <<2, 0, Dot, 4, 9>>, <<Dot>>}}
    \cup {Message(MCClient1 \o <<Word("auto")>>, t) : t \in {WriteBool(TRUE), <<Letter>>}}
    \cup {Message(MCTimer \o <<Word("time")>>, t) : t \in {WriteTime(1265), <<1, Colon>>}}
    \cup {Message(MCTimer \o <<Word("mode")>>, t) : t \in {<<2, 5, 5>>, <<Minus, 1>>}}
    \cup {Message(MCCell, t) : t \in {WriteInt(255), <<2, 5, 7>>, <<Letter>>}}
    \cup {ModeMessage(MCClient1 \o <<Word("mode")>>, w[1], w[2]) :
            w \in {<<"off", 3>>, <<"manual", 6>>}}

MCValues ==
    MCReports
    \cup {{AssignTo("requested_temp", n)} : n \in {9, 40, 255}}
    \cup {{AssignTo("lock", 0)}, {AssignTo("auto", 0)}, {AssignTo("auto", 1)},
          {AssignTo("auto", 0), AssignTo("requested_temp", TempOff), AssignTo("lock", 0)}}
    \cup {{Assign(EepromPath(0, TRUE, "write", 255), n)} : n \in {0, 1, 255}}
    \cup {{Assign(EepromPath(0, TRUE, "read", 255), 0)}}
    \cup {{Assign(TimerPath(0, TRUE, "time", 1, 0), n)} : n \in {0, 1265}}
    \cup {{Assign(TimerPath(0, TRUE, "mode", 1, 0), 15)},
          {Assign(TimerPath(0, TRUE, "mode", 0, 0), 0)}}
=============================================================================
