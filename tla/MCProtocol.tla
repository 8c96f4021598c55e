----------------------------- MODULE MCProtocol -----------------------------
(***************************************************************************)
(* Small instances of Protocol.  A packet takes three commands of two      *)
(* bytes, a minute has four seconds (two exchanges may fit in its halves), *)
(* packets are too old after four seconds, and local time is so far ahead  *)
(* that the sync finds every packet too old (TzOffset 5), or not ahead at  *)
(* all (0).  0 is a temperature that is never sent.                        *)
(***************************************************************************)
EXTENDS Protocol

MCContents == {0, 1, 2}
FourContents == {0, 1, 2, 3}
MCBasics == <<"temp">>
AllBasics == <<"temp", "auto", "lock">>
NoCells == <<>>
OneEeprom == <<"e0">>
OneTimer == <<"t1">>
TwoTimers == <<"t1", "t2">>
ThreeTimers == <<"t1", "t2", "t3">>
=============================================================================
