---------------------------- MODULE SyncedValues ----------------------------
(***************************************************************************)
(* A value mirrored from a client (src/src/value.h, Flags in util.h): what *)
(* the client last reported, what the user asked for, and the flag byte    *)
(* with its retry counter.  Reading and writing share that one counter.    *)
(*                                                                         *)
(* needs_read and needs_write answer a question and, when they get as far  *)
(* as asking should_retry, move the counter; each is an operator for the   *)
(* answer and one for the value afterwards.                                *)
(***************************************************************************)
EXTENDS Naturals

CONSTANTS RetrySteps,   \* REREAD_CYCLES
          Contents      \* what a value can be; Zero when never set
Zero == 0

ASSUME ValuesAssumption == RetrySteps \in Nat /\ Zero \in Contents

Value == [remote : Contents, valid : BOOLEAN, masked : BOOLEAN,
          published : BOOLEAN, requested : Contents, wanted : BOOLEAN,
          ctr : 0 .. RetrySteps]

NewValue == [remote |-> Zero, valid |-> FALSE, masked |-> FALSE,
             published |-> FALSE, requested |-> Zero, wanted |-> FALSE,
             ctr |-> 0]

(* An eeprom cell is not read until somebody asks for it. *)
NewEepromValue == [NewValue EXCEPT !.masked = TRUE]

(* Mutants of AfterRetry: the counter is set too high, or never moves on. *)
AfterRetryHigh(v)  == [v EXCEPT !.ctr = IF @ = 0 THEN RetrySteps + 1 ELSE @ - 1]
AfterRetryStuck(v) == [v EXCEPT !.ctr = RetrySteps]

(* should_retry: every RetrySteps + 1 calls once. *)
AfterRetry(v) == [v EXCEPT !.ctr = IF @ = 0 THEN RetrySteps ELSE @ - 1]

Unread(v) == ~v.valid /\ ~v.masked

NeedsRead(v)      == Unread(v) /\ v.ctr = 0
AfterNeedsRead(v) == IF Unread(v) THEN AfterRetry(v) ELSE v

NeedsWrite(v)      == v.wanted /\ v.ctr = 0
AfterNeedsWrite(v) == IF v.wanted THEN AfterRetry(v) ELSE v

SetRequested(v, x) == [v EXCEPT !.requested = x, !.wanted = TRUE, !.ctr = 0]

ResetRequested(v) == [v EXCEPT !.requested = v.remote, !.wanted = FALSE]

(* Mutants of SetRemote: only the first report is taken, the report does   *)
(* not make the value valid.                                               *)
SetRemoteOnce(v, x) ==
    IF v.valid THEN v ELSE [v EXCEPT !.remote = x, !.valid = TRUE, !.ctr = 0]
SetRemoteInvalid(v, x) == [v EXCEPT !.remote = x, !.ctr = 0]

(* A report of the client; one equal to the request fulfils it. *)
SetRemote(v, x) ==
    LET heard == [v EXCEPT !.remote = x, !.valid = TRUE,
                           !.published = FALSE, !.ctr = 0]
    IN  IF v.wanted /\ x = v.requested THEN ResetRequested(heard) ELSE heard

(* A re-read request for an eeprom cell (MQTT callback). *)
AskRead(v) == [v EXCEPT !.masked = FALSE, !.valid = FALSE]
=============================================================================
