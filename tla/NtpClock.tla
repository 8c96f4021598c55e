------------------------------ MODULE NtpClock ------------------------------
(***************************************************************************)
(* The clock of the main loop: NTPClient (src/lib/NTPClient), NTPTime      *)
(* (src/src/ntptime.h), and what loop() (src/src/main.cc) hands on to the  *)
(* event log and to the RTC of the protocol (Crypto::update).              *)
(*                                                                         *)
(* Nothing stops while the program reads the time, so every reading of     *)
(* millis() that another one is compared with is a step of its own, and    *)
(* time may pass between any two.  Units: a tick stands for a millisecond, *)
(* and for the ten a poll takes; Second ticks are a second, Minute seconds *)
(* a minute.  Time zones are whole minutes and change no second of the     *)
(* minute: UTC is used.                                                    *)
(***************************************************************************)
EXTENDS Integers

CONSTANTS Second,     \* ticks in a second (1000)
          Minute,     \* seconds in a minute (60)
          Wrap,       \* millis() counts modulo Wrap (2^32)
          UpdateSec,  \* the second the main loop updates the clock in (55)
          SyncSecs,   \* the seconds the protocol sends its sync in (0, 30)
          Interval,   \* NTP_UPDATE_SECS, in ticks
          MaxPolls,   \* polls for an answer before forceUpdate gives up (100)
          FracDiv,    \* what mssec has too little of the fraction (8)
          Starts,     \* external: UTC, in ticks, when the device is started
          Setups,     \* ticks that have passed when NTPTime::begin is called
          MaxStall,   \* bound: ticks a round of the loop takes, but for polls
          MaxTicks    \* bound: ticks in a behaviour

ASSUME NtpClockAssumption ==
    /\ {Second, Minute, Wrap, Interval, FracDiv} \subseteq Nat \ {0}
    /\ UpdateSec \in 0 .. Minute - 1 /\ SyncSecs \subseteq 0 .. Minute - 1
    /\ {MaxPolls, MaxStall, MaxTicks} \subseteq Nat
    /\ Starts \subseteq Nat /\ Setups \subseteq Nat

(* The clock starts after 1970; the second of the update is not the first  *)
(* of a minute, and no stall gets from it over the end of millis().        *)
ASSUME UpdateSecAssumption ==
    /\ UpdateSec # 0 /\ \A s \in Starts : s >= Second
    /\ \A ms \in 0 .. Wrap - 1 :
          (ms \div Second) % Minute = UpdateSec => ms + MaxStall < Wrap

(* Without polls a round takes less than a second, with all of them less   *)
(* than two; the update is not in a second of a sync nor right before it.  *)
ASSUME TimingAssumption ==
    /\ Minute >= 2 /\ 4 * Second <= Wrap
    /\ MaxStall < Second /\ MaxStall + MaxPolls + 2 <= 2 * Second
    /\ {UpdateSec, (UpdateSec + 1) % Minute} \cap SyncSecs = {}

Never   == -1          \* no late answer
InBegin == Minute      \* sec, when NTPTime::begin calls update

VARIABLES
    ticks,       \* time since the start
    start,       \* external: UTC at the start
    lastUpdate, lastSlew, epocMS, driftMS, currentEpoc,     \* NTPClient
    lastTime,    \* last_time of NTPTime::update
    rtc,         \* lastTime of Crypto
    pc,          \* where the loop is
    sec, now,    \* of loop()
    ntp,         \* the variables of forceUpdate
    late,        \* external: an answer that came after forceUpdate gave up
    stall,       \* how much of MaxStall is left
    set,         \* history: the clock was set since the RTC was last updated
    age          \* history: how old the answer was that the clock was set by

client == <<lastUpdate, lastSlew, epocMS, driftMS, currentEpoc>>
world  == <<ticks, start, late>>
ghosts == <<set, age>>
vars   == <<ticks, start, lastUpdate, lastSlew, epocMS, driftMS, currentEpoc,
            lastTime, rtc, pc, sec, now, ntp, late, stall, set, age>>

Utc == start + ticks   \* external: what a server would say, in ticks

Millis        == ticks % Wrap
Since(ms)     == (Millis + Wrap - ms) % Wrap
SyncedAlways  == TRUE     \* mutant: nobody asks whether it is
IsSynced      == lastUpdate # 0
GetEpochTime  == currentEpoc + Since(epocMS) \div Second
GetMillis     == Since(epocMS) % Second

Sign(n) == IF n > 0 THEN 1 ELSE IF n < 0 THEN -1 ELSE 0

(* A long is as wide as millis(); % takes the sign of its first operand.   *)
WideLong(n) == n     \* mutant: it is wider

Long(n)   == ((n + Wrap \div 2) % Wrap) - Wrap \div 2
Rem(n, d) == IF n >= 0 THEN n % d ELSE -((-n) % d)

NoNtp == [polls |-> 0, stamp |-> 0, prevMs |-> 0, prevEpoch |-> 0,
          ms |-> 0, curMs |-> 0]

Init ==
    /\ ticks \in Setups
    /\ start \in Starts
    /\ lastUpdate = 0 /\ lastSlew = 0 /\ epocMS = 0 /\ driftMS = 0
    /\ currentEpoc = 0
    /\ lastTime = 0 /\ rtc = 0
    /\ pc = "update" /\ sec = InBegin /\ now = 0
    /\ ntp = NoNtp /\ late = Never
    /\ stall = MaxStall
    /\ set = FALSE /\ age = 0
-----------------------------------------------------------------------------
(* Time passes. *)
Tick ==
    /\ ticks < MaxTicks /\ stall > 0 /\ pc # "poll"
    /\ ticks' = ticks + 1 /\ stall' = stall - 1
    /\ UNCHANGED <<start, client, lastTime, rtc, pc, sec, now, ntp, late, ghosts>>

(* loop: the second decides whether NTPTime::update may ask a server. *)
ReadSecond ==
    /\ pc = "second"
    /\ sec' = GetEpochTime % Minute
    /\ pc' = "update"
    /\ UNCHANGED <<world, client, lastTime, rtc, now, ntp, stall, ghosts>>

(* Mutant: the clock is updated in the last second of a minute. *)
CanUpdateLast == sec \in {Minute - 1, InBegin}

CanUpdate == sec \in {UpdateSec, InBegin}
Back      == IF sec = InBegin THEN "second" ELSE "use"

(* NTPClient::update: whether there is to be an update. *)
IsDue == lastUpdate = 0 \/ Since(lastUpdate) >= Interval

(* NTPTime::update reads the time; it works once a second. *)
Reading(pcNext) ==
    /\ pc = "update"
    /\ now' = GetEpochTime
    /\ lastTime' = now'
    /\ pc' = pcNext
    /\ UNCHANGED <<world, rtc, sec, stall, ghosts>>

SameSecond == GetEpochTime = lastTime /\ Reading(Back) /\ UNCHANGED <<client, ntp>>

StartUpdate ==
    /\ GetEpochTime # lastTime /\ CanUpdate /\ IsDue
    /\ Reading("poll")
    /\ ntp' = NoNtp
    /\ UNCHANGED client

NotDue ==
    /\ GetEpochTime # lastTime /\ CanUpdate /\ ~IsDue
    /\ Reading(Back)
    /\ UNCHANGED <<client, ntp>>

(* NTPClient::slew. *)
Slew ==
    /\ GetEpochTime # lastTime /\ ~CanUpdate
    /\ Reading(Back)
    /\ IF IsSynced /\ Since(lastSlew) >= Minute * Second
       THEN /\ lastSlew' = Millis
            /\ epocMS' = (epocMS + Wrap + Sign(driftMS)) % Wrap
            /\ driftMS' = driftMS - Sign(driftMS)
       ELSE UNCHANGED <<lastSlew, epocMS, driftMS>>
    /\ UNCHANGED <<lastUpdate, currentEpoc, ntp>>
-----------------------------------------------------------------------------
(***************************************************************************)
(* forceUpdate: a poll takes a tick.  Whatever packet is there counts as   *)
(* the answer, also one to an earlier request; the answer to this one then *)
(* comes late itself, if it comes.                                         *)
(***************************************************************************)
Polling(pcNext) ==
    /\ pc = "poll"
    /\ ticks' = ticks + 1
    /\ pc' = pcNext
    /\ UNCHANGED <<start, client, lastTime, rtc, sec, now, stall, ghosts>>

NoAnswer ==
    /\ ntp.polls <= MaxPolls /\ late = Never
    /\ Polling("poll")
    /\ ntp' = [ntp EXCEPT !.polls = @ + 1]
    /\ UNCHANGED late

(* A server stamps its answer between the request and its arrival. *)
Answer ==
    /\ ntp.polls <= MaxPolls
    /\ Polling("prevMs")
    /\ \E stamp \in IF late # Never THEN {late} ELSE {Utc - ntp.polls, Utc + 1} :
          ntp' = [ntp EXCEPT !.polls = @ + 1, !.stamp = stamp]
    /\ \/ late' = Never
       \/ late # Never /\ late' = Utc + 1

GiveUp ==
    /\ ntp.polls > MaxPolls
    /\ Polling(Back)
    /\ late' \in {late, Utc + 1}
    /\ ntp' = NoNtp

(* forceUpdate reads its own clock twice, each time in two parts. *)
Part(pcNow, pcNext) ==
    /\ pc = pcNow /\ pc' = pcNext
    /\ UNCHANGED <<world, client, lastTime, rtc, sec, now, stall, ghosts>>

ReadPrevMs    == Part("prevMs", "prevEpoch")
                 /\ ntp' = [ntp EXCEPT !.prevMs = GetMillis]
ReadPrevEpoch == Part("prevEpoch", "curMs")
                 /\ ntp' = [ntp EXCEPT !.prevEpoch = GetEpochTime]
ReadCurMs     == Part("curMs", "curEpoch")
                 /\ ntp' = [ntp EXCEPT !.ms = Millis, !.curMs = GetMillis]

(* The answer: whole seconds, and the rest by a shift that is too long. *)
Secs  == ntp.stamp \div Second
Mssec == ((ntp.stamp % Second) + FracDiv \div 2) \div FracDiv

(* Mutant: the seconds of the first reading are forgotten. *)
DriftFromNow == Long(GetEpochTime * Second + ntp.curMs - ntp.prevMs - Mssec)

Drift ==
    Long((GetEpochTime - ntp.prevEpoch) * Second + ntp.curMs - ntp.prevMs - Mssec)

(* Mutant: the delay of the answer is counted the wrong way. *)
SetClockBehind ==
    /\ currentEpoc' = Secs
    /\ epocMS' = (ntp.ms + ntp.polls + 1 + Mssec) % Wrap
    /\ driftMS' = 0
    /\ set' = TRUE
    /\ age' = Utc - ntp.stamp

SetClock ==
    /\ currentEpoc' = Secs
    /\ epocMS' = (ntp.ms + Wrap - (ntp.polls + 1) - Mssec) % Wrap
    /\ driftMS' = 0
    /\ set' = TRUE
    /\ age' = Utc - ntp.stamp

CorrectClock ==
    /\ driftMS' = Rem(Drift, Minute * Second)
    /\ epocMS' = (epocMS + Wrap + Drift - driftMS') % Wrap
    /\ UNCHANGED <<currentEpoc, set, age>>

FinishUpdate ==
    /\ pc = "curEpoch"
    /\ IF IsSynced THEN CorrectClock ELSE SetClock
    /\ lastUpdate' = ntp.ms
    /\ ntp' = NoNtp
    /\ pc' = Back
    /\ UNCHANGED <<world, lastSlew, lastTime, rtc, sec, now, stall>>
-----------------------------------------------------------------------------
(* loop, once the clock is synchronised: the log gets the time that was    *)
(* read before the update, the RTC one that is read now.                   *)
UseTime ==
    /\ pc = "use"
    /\ IF IsSynced THEN rtc' = GetEpochTime /\ set' = FALSE
                   ELSE UNCHANGED <<rtc, set>>
    /\ pc' = "second"
    /\ stall' = MaxStall
    /\ sec' = 0 /\ now' = 0
    /\ UNCHANGED <<world, client, lastTime, ntp, age>>

Next ==
    \/ Tick
    \/ ReadSecond
    \/ SameSecond \/ StartUpdate \/ NotDue \/ Slew
    \/ NoAnswer \/ Answer \/ GiveUp
    \/ ReadPrevMs \/ ReadPrevEpoch \/ ReadCurMs \/ FinishUpdate
    \/ UseTime

Spec == Init /\ [][Next]_vars
-----------------------------------------------------------------------------
TypeOK ==
    /\ {lastUpdate, lastSlew, epocMS} \subseteq 0 .. Wrap - 1
    /\ driftMS \in -2 * Second .. 2 * Second
    /\ sec \in 0 .. InBegin

(* The time goes over the end of millis(), forth or, when it is slewed     *)
(* just then, back.                                                        *)
Leaps(from, to) == to - from >= Wrap \div Second - 3

(* However the update blocks the loop, the protocol sees each of the       *)
(* seconds it sends a sync and clears its queue in, unless the clock was   *)
(* set or millis() wrapped.                                                *)
SyncSecondsSeen ==
    [][rtc # 0 /\ ~set =>
         \/ Leaps(rtc, rtc')
         \/ \A s \in rtc + 1 .. rtc' - 1 : s % Minute \notin SyncSecs]_vars

(* The seconds of the RTC go back by one at most, unless millis() wrapped. *)
SecondsGoBackByOne ==
    [][~set /\ rtc' < rtc => rtc' = rtc - 1 \/ Leaps(rtc', rtc)]_vars

(* The event log is never given the time 0, which marks an event without a *)
(* time.                                                                   *)
LogGetsTimes == pc = "use" /\ IsSynced => now # 0

(* Before millis() wraps the clock is off by no more than the answer was   *)
(* old that it was set by, the fraction of a second or the polls that were *)
(* counted wrong for it, and what slewing made of that since: a            *)
(* millisecond a minute, for no update compares the clock with the time of *)
(* the server.  Slewing may move the base by as much before 0, too, and    *)
(* then the clock leaps by so much earlier.                                *)
Ahead  == GetEpochTime * Second + GetMillis - Utc
Slewed == ticks \div (Minute * Second) + 1
KeepsTime ==
    IsSynced /\ ticks + Second + Slewed < Wrap =>
        Ahead \in -age - Second - Slewed .. MaxPolls + 1 + Slewed
=============================================================================
