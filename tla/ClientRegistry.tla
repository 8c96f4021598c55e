--------------------------- MODULE ClientRegistry ---------------------------
(***************************************************************************)
(* struct Model (src/src/model.h): an array of client records and an index *)
(* from radio addresses to them.  A record is given out when the first     *)
(* packet of a client arrives (Protocol::process_packet); afterwards       *)
(* packets, MQTT topics and web requests reach it through operator[].      *)
(* The record is abstracted to whether the client was ever heard, what it  *)
(* last reported and what was last asked of it.  A packet or a topic that  *)
(* names no client changes nothing (an error is logged), so it is not a    *)
(* step of the model.                                                      *)
(***************************************************************************)
EXTENDS Naturals, FiniteSets

CONSTANTS Addrs,        \* addresses a packet or a topic may name
          MaxAddr,      \* MAX_HR_ADDR, the first invalid address
          MaxCount,     \* MAX_HR_COUNT
          Values,       \* what a client reports and a user asks for
          NoValue

ASSUME RegistryAssumption ==
    /\ Addrs \subseteq Nat
    /\ MaxAddr \in Nat
    /\ MaxCount \in Nat
    /\ NoValue \notin Values

VARIABLES index,        \* slot of each address, 0 for none
          cidx,         \* number of slots given out
          clients       \* the records

vars == <<index, cidx, clients>>

ValidAddrs == 0 .. MaxAddr - 1
Slots      == 1 .. MaxCount

Client == [heard : BOOLEAN, remote : Values \cup {NoValue},
           wanted : Values \cup {NoValue}]

NewClient == [heard |-> FALSE, remote |-> NoValue, wanted |-> NoValue]

Init ==
    /\ index = [a \in ValidAddrs |-> 0]
    /\ cidx = 0
    /\ clients = [s \in Slots |-> NewClient]

(* operator[] finds a record. *)
Known(a) == a < MaxAddr /\ index[a] > 0

(* Mutants of CanEnrol: one record too many, and known clients enrolled again. *)
CanEnrolBeyond(a) == a < MaxAddr /\ index[a] = 0 /\ cidx <= MaxCount
CanEnrolAgain(a)  == a < MaxAddr /\ cidx < MaxCount

(* prepare_client has a record to give out. *)
CanEnrol(a) == a < MaxAddr /\ index[a] = 0 /\ cidx < MaxCount

Reported(client, v) == [client EXCEPT !.heard = TRUE, !.remote = v]
Asked(client, v)    == [client EXCEPT !.wanted = v]

(* A valid packet of a client that has a record. *)
HearKnown(a, v) ==
    /\ Known(a)
    /\ clients' = [clients EXCEPT ![index[a]] = Reported(@, v)]
    /\ UNCHANGED <<index, cidx>>

(* Mutants of HearNew: the index lags behind, the record runs ahead. *)
HearNewLate(a, v) ==
    /\ CanEnrol(a)
    /\ cidx' = cidx + 1
    /\ index' = [index EXCEPT ![a] = cidx]
    /\ UNCHANGED clients

HearNewAhead(a, v) ==
    /\ CanEnrol(a)
    /\ cidx' = cidx + 1
    /\ index' = [index EXCEPT ![a] = cidx']
    /\ clients' = [s \in Slots |-> IF s = cidx' + 1 THEN Reported(clients[s], v)
                                                   ELSE clients[s]]

(* The first valid packet of a client. *)
HearNew(a, v) ==
    /\ CanEnrol(a)
    /\ cidx' = cidx + 1
    /\ index' = [index EXCEPT ![a] = cidx']
    /\ clients' = [clients EXCEPT ![cidx'] = Reported(@, v)]

(* A request for a client by topic. *)
Ask(a, v) ==
    /\ Known(a)
    /\ clients' = [clients EXCEPT ![index[a]] = Asked(@, v)]
    /\ UNCHANGED <<index, cidx>>

Next ==
    \E a \in Addrs, v \in Values : HearKnown(a, v) \/ HearNew(a, v) \/ Ask(a, v)

Spec == Init /\ [][Next]_vars
-----------------------------------------------------------------------------
TypeOK ==
    /\ index \in [ValidAddrs -> 0 .. MaxCount]
    /\ cidx \in 0 .. MaxCount
    /\ clients \in [Slots -> Client]

Enrolled == {a \in ValidAddrs : index[a] > 0}

(* Two addresses never share a record, and the records given out are the   *)
(* first cidx ones, none of them leaked: prepare_client gives each record  *)
(* to exactly one address.                                                 *)
OneRecordEach ==
    /\ \A a, b \in Enrolled : index[a] = index[b] => a = b
    /\ \A s \in 1 .. cidx : \E a \in Enrolled : index[a] = s
    /\ \A a \in Enrolled : index[a] <= cidx

(* A record not given out is as it was built: nobody wrote to it, so the   *)
(* client that gets it does not inherit another one's values or requests.  *)
FreshRecords == \A s \in Slots : s > cidx => clients[s] = NewClient

(* The registry behaves like a directory by address: what is heard of or   *)
(* asked of one client never shows in another one, and a client once       *)
(* enrolled stays enrolled.                                                *)
Dir == INSTANCE ClientDirectory
         WITH dir <- [a \in Enrolled |-> clients[index[a]]]
ImplementsDirectory == Dir!Spec
=============================================================================
