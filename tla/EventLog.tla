------------------------------ MODULE EventLog ------------------------------
(***************************************************************************)
(* The ring of the last events and errors (src/src/eventlog.h): append     *)
(* writes at pos, the iterator counts down from the slot before pos in a   *)
(* byte and ends where it is at pos again, so that the slot to be written  *)
(* next is never listed.  An event is stamped with the time of the last    *)
(* update, which the main loop does only once the clock is synchronised;   *)
(* until then events have the time 0, as slots never written have.         *)
(***************************************************************************)
EXTENDS Naturals, FiniteSetsExt

CONSTANTS LogLen,     \* EVENT_LOG_LEN
          IterMod,    \* values of the iterator's pos, a uint8_t
          Codes,      \* what is reported: type, code and value
          NoCode,     \* what a slot has that was never written
          Times       \* times the main loop passes on

ASSUME EventLogAssumption ==
    /\ LogLen \in Nat /\ LogLen > 1
    /\ \E q \in 1 .. IterMod : IterMod = q * LogLen
    /\ IterMod \in Nat
    /\ NoCode \notin Codes
    /\ Times \subseteq Nat \ {0}

VARIABLES events, pos, now
logVars == <<events, pos, now>>

Stamp == Times \cup {0}
Event == [code : Codes \cup {NoCode}, time : Stamp]
Blank == [code |-> NoCode, time |-> 0]

LogInit ==
    /\ events = [i \in 0 .. LogLen - 1 |-> Blank]
    /\ pos = 0
    /\ now = 0

(* Mutant: the last slot is not used. *)
AppendInShorterRing(c) ==
    /\ events' = [events EXCEPT ![pos] = [code |-> c, time |-> now]]
    /\ pos' = (pos + 1) % (LogLen - 1)
    /\ UNCHANGED now

AppendEvent(c) ==
    /\ events' = [events EXCEPT ![pos] = [code |-> c, time |-> now]]
    /\ pos' = (pos + 1) % LogLen
    /\ UNCHANGED now

(* Mutant: the main loop passes on a time before there is one. *)
UpdateAlways(t) == now' \in {0, t} /\ UNCHANGED <<events, pos>>

Update(t) == now' = t /\ UNCHANGED <<events, pos>>

(* The device restarts: the log is in static memory. *)
Restart ==
    /\ events' = [i \in 0 .. LogLen - 1 |-> Blank]
    /\ pos' = 0
    /\ now' = 0

(* The iterator after n steps, and the events it passes before the end. *)
Begin     == (pos + LogLen - 1) % LogLen
Cursor(n) == (Begin + IterMod - n) % IterMod
AtEnd(n)  == Cursor(n) % LogLen = pos % LogLen

Listed ==
    LET steps == Min({n \in 0 .. IterMod : AtEnd(n)})
    IN [i \in 1 .. steps |-> events[Cursor(i - 1) % LogLen]]

LogNext == \/ \E c \in Codes : AppendEvent(c)
           \/ \E t \in Times : Update(t)
           \/ Restart

LogSpec == LogInit /\ [][LogNext]_logVars
-----------------------------------------------------------------------------
LogTypeOK ==
    /\ events \in [0 .. LogLen - 1 -> Event]
    /\ pos \in 0 .. LogLen - 1
    /\ now \in Stamp

(* Listing the ring shows the last LogLen - 1 events, newest first: byte,  *)
(* modulus and end of the iterator fit together wherever pos is.           *)
Recent == INSTANCE RecentEvents WITH Kept <- LogLen - 1, recent <- Listed
ImplementsRecent == Recent!Spec

(* An event without a time is older than every one that has a time:        *)
(* handle_events leaves it out of a page, which the browser takes for the  *)
(* end of the log.                                                         *)
EmptiesLast ==
    \A i, j \in DOMAIN Listed :
        i < j /\ Listed[i].time = 0 => Listed[j].time = 0
=============================================================================
