---------------------------- MODULE RecentEvents ----------------------------
(***************************************************************************)
(* What the event log promises to those who read it: the last Kept events, *)
(* newest first, whatever was reported before them.                        *)
(***************************************************************************)
EXTENDS Naturals, Sequences

CONSTANTS Kept,     \* how many events are remembered
          Event,      \* the events
          Blank       \* an event that was never reported

VARIABLE recent       \* the events remembered, newest first

Init == recent = [i \in 1 .. Kept |-> Blank]

(* An event is reported: it pushes the oldest one out. *)
Report(e) == recent' = [i \in 1 .. Kept |-> IF i = 1 THEN e ELSE recent[i - 1]]

(* The device restarts: nothing of the log is kept. *)
Forget == recent' = [i \in 1 .. Kept |-> Blank]

Next == Forget \/ \E e \in Event : Report(e)

Spec == Init /\ [][Next]_recent
=============================================================================
