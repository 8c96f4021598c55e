----------------------------- MODULE EventPages -----------------------------
(***************************************************************************)
(* The event log as a user sees it: the page in data/index.html asks for   *)
(* the log in portions, Web::handle_events (src/src/webserver.cc) serves   *)
(* one by its offset from the newest event, and events are reported all    *)
(* the while, so that the offset means another event each time.  The page  *)
(* offers "load more" when a portion was full, and an answer may be lost.  *)
(***************************************************************************)
EXTENDS EventLog, Sequences

CONSTANTS PageLen,    \* MAX_JSON_EVENTS
          FullPage,   \* the number of events index.html takes for a full page
          MaxEvents   \* bound: events in a behaviour

ASSUME EventPagesAssumption ==
    /\ PageLen \in Nat \ {0} /\ FullPage \in Nat \ {0}
    /\ MaxEvents \in Nat /\ Codes = 1 .. MaxEvents

VARIABLES
    offset,     \* event_list_offset
    shown,      \* the events on the user's screen, in order
    browser,    \* the request: asked, answered, or what the user sees after it
    reply,      \* the answer on its way
    count,      \* events reported so far; the code of an event is its number
    opened      \* events reported when the page was opened

pageVars == <<offset, shown, browser, reply>>
vars == <<events, pos, now, offset, shown, browser, reply, count, opened>>

Init ==
    /\ LogInit
    /\ offset = 0 /\ shown = <<>> /\ browser = "asked" /\ reply = <<>>
    /\ count = 0 /\ opened = 0

(* Anything the device does reports an event. *)
Report ==
    /\ count < MaxEvents
    /\ AppendEvent(count + 1)
    /\ count' = count + 1
    /\ UNCHANGED <<offset, shown, browser, reply, opened>>

(* The main loop passes on the time of a synchronised clock, which may go  *)
(* back.                                                                   *)
Tick ==
    /\ \E t \in Times : Update(t)
    /\ UNCHANGED <<offset, shown, browser, reply, count, opened>>

Reboot ==
    /\ Restart
    /\ UNCHANGED <<offset, shown, browser, reply, count, opened>>

HasTime(e) == e.time # 0

(* handle_events: passes over offset events, then over PageLen at most, and *)
(* writes those that have a time.                                          *)
Portion(from) ==
    LET written[n \in 0 .. PageLen] ==
          IF n = 0 THEN <<>>
          ELSE IF from + n \in DOMAIN Listed /\ HasTime(Listed[from + n])
               THEN Append(written[n - 1], Listed[from + n])
               ELSE written[n - 1]
    IN  written[PageLen]

HandleEvents ==
    /\ browser = "asked"
    /\ browser' = "answered"
    /\ reply' = Portion(offset)
    /\ UNCHANGED <<events, pos, now, offset, shown, count, opened>>

(* The page is (re)loaded. *)
Open ==
    /\ offset' = 0 /\ shown' = <<>> /\ browser' = "asked" /\ reply' = <<>>
    /\ opened' = count
    /\ UNCHANGED <<events, pos, now, count>>

(* Mutants: there is more whenever a request succeeds; or when a portion   *)
(* was not full.                                                           *)
FullAlways  == Len(reply) >= 0
FullIfShort == Len(reply) = FullPage - 1

(* stream_events, success: there is more when this portion was full. *)
Full == Len(reply) = FullPage

(* Mutant: the offset of the next portion is one too far. *)
SuccessOneFurther ==
    /\ browser = "answered"
    /\ shown' = shown \o reply
    /\ offset' = IF Full THEN offset + FullPage + 1 ELSE offset
    /\ browser' = IF Full THEN "more" ELSE "done"
    /\ reply' = <<>>
    /\ UNCHANGED <<events, pos, now, count, opened>>

Success ==
    /\ browser = "answered"
    /\ shown' = shown \o reply
    /\ offset' = IF Full THEN offset + FullPage ELSE offset
    /\ browser' = IF Full THEN "more" ELSE "done"
    /\ reply' = <<>>
    /\ UNCHANGED <<events, pos, now, count, opened>>

(* stream_events, error: the request or its answer was lost. *)
Error ==
    /\ browser \in {"asked", "answered"}
    /\ browser' = "failed"
    /\ reply' = <<>>
    /\ UNCHANGED <<events, pos, now, offset, shown, count, opened>>

(* The user clicks on "load more". *)
More ==
    /\ browser = "more"
    /\ browser' = "asked"
    /\ UNCHANGED <<events, pos, now, offset, shown, reply, count, opened>>

Next == \/ Report \/ Tick \/ Reboot
        \/ HandleEvents
        \/ Open \/ Success \/ Error \/ More

Spec == Init /\ [][Next]_vars
-----------------------------------------------------------------------------
(* The types, and that a page asks for no portion behind the end of the    *)
(* log but the first one: "load more" comes to an end.                     *)
TypeOK ==
    /\ LogTypeOK
    /\ offset \in 0 .. LogLen - 1 + FullPage
    /\ shown \in Seq(Event) /\ reply \in Seq(Event)
    /\ browser \in {"asked", "answered", "more", "done", "failed"}
    /\ count \in 0 .. MaxEvents /\ opened \in 0 .. count

(* From one event on the screen to the next none is left out, although     *)
(* what is reported between two portions moves every event on.             *)
NothingSkipped ==
    \A i \in 1 .. Len(shown) - 1 : shown[i + 1].code >= shown[i].code - 1

(* When the page offers no more, the screen has every event that was       *)
(* reported before it was opened, has a time and is still in the log.      *)
EndIsTheEnd ==
    browser = "done" =>
        \A i \in DOMAIN Listed :
            LET e == Listed[i]
            IN HasTime(e) /\ e.code <= opened => \E k \in DOMAIN shown : shown[k] = e
=============================================================================
