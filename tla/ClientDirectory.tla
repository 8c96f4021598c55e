-------------------------- MODULE ClientDirectory --------------------------
(***************************************************************************)
(* What the master's client model promises: a directory of the clients     *)
(* heard of, at most MaxCount of them, each with data of its own.          *)
(***************************************************************************)
EXTENDS Naturals, FiniteSets

CONSTANTS Addrs,        \* addresses a packet or a topic may name
          MaxAddr,      \* first invalid address
          MaxCount,     \* room for this many clients
          Values,       \* what a client reports and a user asks for
          NoValue

VARIABLE dir            \* the data of each client, by address

Client == [heard : BOOLEAN, remote : Values \cup {NoValue},
           wanted : Values \cup {NoValue}]

NewClient == [heard |-> FALSE, remote |-> NoValue, wanted |-> NoValue]

Reported(client, v) == [client EXCEPT !.heard = TRUE, !.remote = v]
Asked(client, v)    == [client EXCEPT !.wanted = v]

Enrolled == DOMAIN dir

Init == dir = [a \in {} |-> NewClient]

HearKnown(a, v) ==
    /\ a \in Enrolled
    /\ dir' = [dir EXCEPT ![a] = Reported(@, v)]

HearNew(a, v) ==
    /\ a \in Addrs \ Enrolled
    /\ a < MaxAddr
    /\ Cardinality(Enrolled) < MaxCount
    /\ dir' = [b \in Enrolled \cup {a} |->
                  IF b = a THEN Reported(NewClient, v) ELSE dir[b]]

Ask(a, v) ==
    /\ a \in Enrolled
    /\ dir' = [dir EXCEPT ![a] = Asked(@, v)]

Next ==
    \E a \in Addrs, v \in Values : HearKnown(a, v) \/ HearNew(a, v) \/ Ask(a, v)

Spec == Init /\ [][Next]_dir
=============================================================================
