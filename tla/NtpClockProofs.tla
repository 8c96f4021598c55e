--------------------------- MODULE NtpClockProofs ---------------------------
(***************************************************************************)
(* Proofs about NtpClock for seconds, minutes and counters of any width.   *)
(***************************************************************************)
EXTENDS NtpClock, TLAPS

(* Division with remainder. *)
LEMMA DivMod ==
    ASSUME NEW n \in Int, NEW d \in Nat \ {0}
    PROVE  /\ n \div d \in Int /\ n % d \in 0 .. d - 1
           /\ n = d * (n \div d) + (n % d)
OBVIOUS

(* A number below the divisor is the remainder. *)
LEMMA ModUnique ==
    ASSUME NEW d \in Nat \ {0}, NEW k \in Int, NEW r \in 0 .. d - 1
    PROVE  (k * d + r) % d = r
<1> DEFINE a == k * d + r
           h == a \div d
           m == a % d
<1>1. a \in Int /\ h \in Int /\ m \in 0 .. d - 1 /\ a = d * h + m
    BY DivMod
<1> HIDE DEF h, m
<1>2. d * (k - h) = m - r
    BY <1>1
<1>3. CASE k - h >= 1
    <2>1. d * (k - h) >= d
        BY <1>3, <1>1
    <2> QED
        BY <2>1, <1>2, <1>1
<1>4. CASE k - h <= -1
    <2>1. d * (k - h) <= -d
        BY <1>4, <1>1
    <2> QED
        BY <2>1, <1>2, <1>1
<1>5. CASE k = h
    BY <1>5, <1>2, <1>1
<1> QED
    BY <1>3, <1>4, <1>5, <1>1

(* A natural number divided by another one. *)
LEMMA DivNat ==
    ASSUME NEW n \in Nat, NEW d \in Nat \ {0}
    PROVE  n \div d \in Nat /\ (n < d => n \div d = 0) /\ (n >= d => n \div d >= 1)
OBVIOUS

(* millis() counts on by one as long as it does not wrap. *)
LEMMA MillisGoesOn ==
    ASSUME NEW n \in Nat, NEW d \in Nat \ {0}, (n % d) + 1 < d
    PROVE  (n + 1) % d = (n % d) + 1
<1> DEFINE q == n \div d
           r == n % d
<1>1. q \in Int /\ r \in 0 .. d - 1 /\ n = d * q + r
    BY DivMod
<1> HIDE DEF q, r
<1>2. r + 1 \in 0 .. d - 1 /\ n + 1 = q * d + (r + 1)
    BY <1>1 DEF r
<1>3. (q * d + (r + 1)) % d = r + 1
    BY <1>1, <1>2, ModUnique
<1> QED
    BY <1>2, <1>3 DEF r
-----------------------------------------------------------------------------
(***************************************************************************)
(* The inductive invariant.  As long as the clock has no epoch, it counts  *)
(* from the start; an answer, once there, is of no earlier time than the   *)
(* start.  The second in which an update is allowed is not the first one,  *)
(* so that the time read in it is not 0.                                   *)
(***************************************************************************)
Reads  == {"prevMs", "prevEpoch", "curMs", "curEpoch"}
Asking == {"poll"} \cup Reads
Ntp    == [polls : Nat, stamp : Int, prevMs : Int, prevEpoch : Int,
           ms : 0 .. Wrap - 1, curMs : Int]

ClockTypes ==
    /\ ticks \in Nat /\ start \in Starts /\ stall \in 0 .. MaxStall
    /\ {lastUpdate, lastSlew, epocMS} \subseteq 0 .. Wrap - 1
    /\ driftMS \in -(Minute * Second - 1) .. Minute * Second - 1
    /\ currentEpoc \in Nat /\ now \in Nat
    /\ sec \in 0 .. InBegin
    /\ pc \in {"second", "update", "use"} \cup Asking
    /\ ntp \in Ntp

StampsFromStart ==
    /\ pc = "poll" => ntp.polls <= ticks
    /\ pc \in Reads => ntp.stamp >= Second
    /\ late = Never \/ (late \in Int /\ late >= Second)

CountsFromStart == currentEpoc = 0 => epocMS = 0 /\ lastUpdate = 0

UpdatesLate ==
    /\ pc = "update" /\ sec = UpdateSec /\ currentEpoc = 0 =>
          Millis >= Second /\ Millis + stall < Wrap
    /\ pc \in Asking => sec = InBegin \/ now # 0
    /\ pc = "use" /\ currentEpoc # 0 => now # 0

ClockIInv ==
    ClockTypes /\ StampsFromStart /\ CountsFromStart /\ UpdatesLate

(* What the assumptions say of the constants.                              *)
LEMMA Constants ==
    /\ Second \in Nat \ {0} /\ Minute \in Nat \ {0} /\ Wrap \in Nat \ {0}
    /\ FracDiv \in Nat \ {0} /\ Minute * Second \in Nat \ {0}
    /\ MaxStall \in Nat /\ MaxPolls \in Nat
    /\ UpdateSec \in 0 .. Minute - 1 /\ UpdateSec # 0 /\ InBegin = Minute
    /\ InBegin # UpdateSec
    /\ \A s \in Starts : s \in Nat /\ s >= Second
<1>1. /\ Second \in Nat \ {0} /\ Minute \in Nat \ {0} /\ Wrap \in Nat \ {0}
      /\ FracDiv \in Nat \ {0} /\ MaxStall \in Nat /\ MaxPolls \in Nat
    BY NtpClockAssumption
<1>2. /\ UpdateSec \in 0 .. Minute - 1 /\ UpdateSec # 0
      /\ \A s \in Starts : s \in Nat /\ s >= Second
    BY NtpClockAssumption, UpdateSecAssumption
<1> QED
    BY <1>1, <1>2 DEF InBegin

(* What the clock reads. *)
LEMMA Readings ==
    ASSUME ClockTypes
    PROVE  /\ Millis \in 0 .. Wrap - 1
           /\ \A ms \in Int : Since(ms) \in 0 .. Wrap - 1
           /\ Since(0) = Millis
           /\ GetEpochTime \in Nat /\ GetEpochTime >= currentEpoc
           /\ GetMillis \in Int
<1>1. ticks \in Nat /\ epocMS \in Int /\ currentEpoc \in Nat
    BY Constants DEF ClockTypes
<1>2. Millis \in 0 .. Wrap - 1
    BY <1>1, Constants, DivMod DEF Millis
<1>3. ASSUME NEW ms \in Int
      PROVE  Since(ms) \in 0 .. Wrap - 1
    <2>1. Millis + Wrap - ms \in Int
        BY <1>2, Constants
    <2> QED
        BY <2>1, Constants, DivMod DEF Since
<1>4. Since(0) = Millis
    <2>1. (1 * Wrap + Millis) % Wrap = Millis
        BY <1>2, Constants, ModUnique
    <2> QED
        BY <2>1, <1>2, Constants DEF Since
<1>5. Since(epocMS) \in Nat
    BY <1>1, <1>3, Constants
<1>6. Since(epocMS) \div Second \in Nat
    BY <1>5, Constants, DivNat
<1>7. Since(epocMS) % Second \in Int
    BY <1>5, Constants, DivMod
<1> QED
    BY <1>1, <1>2, <1>3, <1>4, <1>6, <1>7 DEF GetEpochTime, GetMillis

(* Before it has an epoch, the clock reads the seconds since the start. *)
LEMMA SecondsFromStart ==
    ASSUME ClockTypes, CountsFromStart, currentEpoc = 0
    PROVE  GetEpochTime = Millis \div Second
BY Readings, Constants, DivNat DEF CountsFromStart, GetEpochTime

(* What slewing and an update make of the drift fits in a minute. *)
LEMMA RemType ==
    ASSUME NEW n \in Int, NEW d \in Nat \ {0}
    PROVE  Rem(n, d) \in -(d - 1) .. d - 1
<1>1. CASE n >= 0
    BY <1>1, DivMod DEF Rem
<1>2. CASE n < 0
    <2>1. -n \in Int /\ (-n) % d \in 0 .. d - 1
        BY <1>2, DivMod
    <2> QED
        BY <2>1, <1>2 DEF Rem
<1> QED
    BY <1>1, <1>2

(* The clock starts without an epoch.                                      *)
LEMMA ClockInitIInv == Init => ClockIInv
<1> SUFFICES ASSUME Init PROVE ClockIInv
    OBVIOUS
<1>1. NoNtp \in Ntp
    BY Constants DEF NoNtp, Ntp
<1>2. ticks \in Nat /\ 0 \in 0 .. Wrap - 1
    BY NtpClockAssumption, Constants DEF Init
<1>3. ClockTypes
    BY <1>1, <1>2, Constants DEF Init, ClockTypes
<1> QED
    BY <1>3, Constants
       DEF Init, ClockIInv, StampsFromStart, CountsFromStart, UpdatesLate, Asking, Reads

(* Time passes, but not over the end of millis() in the second of the      *)
(* update.                                                                 *)
LEMMA TickKeeps ==
    ClockIInv /\ Tick => ClockIInv'
<1> SUFFICES ASSUME ClockIInv, Tick PROVE ClockIInv'
    OBVIOUS
<1>1. /\ stall > 0 /\ pc # "poll"
      /\ ticks' = ticks + 1 /\ stall' = stall - 1
      /\ UNCHANGED <<start, lastUpdate, lastSlew, epocMS, driftMS, currentEpoc,
                     lastTime, pc, sec, now, ntp, late>>
    BY DEF Tick, client
<1>2. ticks \in Nat /\ stall \in 0 .. MaxStall /\ MaxStall \in Nat
    BY Constants DEF ClockIInv, ClockTypes
<1>3. ClockTypes'
    BY <1>1, <1>2 DEF ClockIInv, ClockTypes
<1>4. StampsFromStart' /\ CountsFromStart'
    BY <1>1 DEF ClockIInv, StampsFromStart, CountsFromStart
<1>5. ASSUME Millis >= Second, Millis + stall < Wrap
      PROVE  (Millis >= Second)' /\ (Millis + stall < Wrap)'
    <2>1. Millis \in 0 .. Wrap - 1 /\ Wrap \in Nat \ {0} /\ Second \in Nat
        BY Readings, Constants DEF ClockIInv
    <2>2. (ticks % Wrap) + 1 < Wrap
        BY <2>1, <1>1, <1>2, <1>5 DEF Millis
    <2>3. Millis' = Millis + 1
        BY <2>1, <2>2, <1>1, <1>2, MillisGoesOn DEF Millis
    <2> QED
        BY <2>1, <2>3, <1>1, <1>2, <1>5
<1>6. UpdatesLate'
    BY <1>1, <1>5 DEF ClockIInv, UpdatesLate
<1> QED
    BY <1>3, <1>4, <1>6 DEF ClockIInv

(* In the second of the update at least a second has passed.               *)
LEMMA ReadSecondKeeps ==
    ClockIInv /\ ReadSecond => ClockIInv'
<1> SUFFICES ASSUME ClockIInv, ReadSecond PROVE ClockIInv'
    OBVIOUS
<1>1. /\ pc = "second" /\ pc' = "update"
      /\ sec' = GetEpochTime % Minute
      /\ UNCHANGED <<ticks, start, late, lastUpdate, lastSlew, epocMS, driftMS,
                     currentEpoc, now, ntp, stall>>
    BY DEF ReadSecond, world, client
<1>2. ClockTypes
    BY DEF ClockIInv
<1>3. sec' \in 0 .. InBegin
    <2>1. GetEpochTime \in Nat
        BY <1>2, Readings
    <2>2. Minute \in Nat \ {0} /\ InBegin = Minute
        BY Constants
    <2>3. GetEpochTime % Minute \in 0 .. Minute - 1
        BY <2>1, <2>2, DivMod
    <2> QED
        BY <2>2, <2>3, <1>1
<1>4. ClockTypes'
    BY <1>1, <1>2, <1>3 DEF ClockTypes
<1>5. StampsFromStart' /\ CountsFromStart'
    BY <1>1 DEF ClockIInv, StampsFromStart, CountsFromStart, Reads
<1>6. ASSUME sec' = UpdateSec, currentEpoc = 0
      PROVE  Millis >= Second /\ Millis + stall < Wrap
    <2>1. Millis \in 0 .. Wrap - 1 /\ stall \in 0 .. MaxStall
        BY <1>2, Readings DEF ClockTypes
    <2>2. (Millis \div Second) % Minute = UpdateSec
        BY <1>1, <1>2, <1>6, SecondsFromStart DEF ClockIInv
    <2>3. Millis + MaxStall < Wrap
        BY <2>1, <2>2, UpdateSecAssumption
    <2>4. Millis >= Second
        <3>1. SUFFICES ASSUME Millis < Second PROVE FALSE
            BY <2>1, Constants
        <3>2. Millis \div Second = 0
            BY <3>1, <2>1, Constants, DivNat
        <3>3. (0 * Minute + 0) % Minute = 0
            BY Constants, ModUnique
        <3> QED
            BY <3>2, <3>3, <2>2, Constants
    <2> QED
        BY <2>1, <2>3, <2>4, Constants
<1>7. UpdatesLate'
    BY <1>1, <1>6 DEF UpdatesLate, Asking, Reads, Millis
<1> QED
    BY <1>4, <1>5, <1>7 DEF ClockIInv

(* The time that is read with an epoch, or in the second of the update. *)
LEMMA ReadingIsATime ==
    ASSUME ClockIInv, pc = "update", currentEpoc # 0 \/ sec = UpdateSec
    PROVE  GetEpochTime # 0
<1>1. CASE currentEpoc # 0
    BY <1>1, Readings DEF ClockIInv, ClockTypes
<1>2. CASE currentEpoc = 0 /\ sec = UpdateSec
    <2>1. Millis \in Nat /\ Millis >= Second
        BY <1>2, Readings DEF ClockIInv, UpdatesLate
    <2>2. Millis \div Second >= 1
        BY <2>1, Constants, DivNat
    <2> QED
        BY <2>2, <1>2, SecondsFromStart DEF ClockIInv
<1> QED
    BY <1>1, <1>2

(* NTPTime::update reads a time that is not 0 where it may ask a server.   *)
LEMMA ReadingKeeps ==
    ClockIInv /\ (SameSecond \/ StartUpdate \/ NotDue \/ Slew) => ClockIInv'
<1> SUFFICES ASSUME ClockIInv, SameSecond \/ StartUpdate \/ NotDue \/ Slew
             PROVE  ClockIInv'
    OBVIOUS
<1>1. /\ pc = "update" /\ now' = GetEpochTime
      /\ UNCHANGED <<ticks, start, late, sec, stall, lastUpdate, currentEpoc>>
      /\ \/ pc' = Back
         \/ pc' = "poll" /\ CanUpdate /\ ntp' = NoNtp
      /\ ntp' \in {ntp, NoNtp}
    BY DEF SameSecond, StartUpdate, NotDue, Slew, Reading, world, client
<1>2. ClockTypes
    BY DEF ClockIInv
<1>3. NoNtp \in Ntp /\ NoNtp.polls = 0
    BY Constants DEF NoNtp, Ntp
<1>4. /\ lastSlew' \in 0 .. Wrap - 1 /\ epocMS' \in 0 .. Wrap - 1
      /\ driftMS' \in -(Minute * Second - 1) .. Minute * Second - 1
      /\ currentEpoc = 0 => epocMS' = epocMS
    <2>1. CASE /\ Slew /\ lastSlew' = Millis /\ IsSynced
               /\ epocMS' = (epocMS + Wrap + Sign(driftMS)) % Wrap
               /\ driftMS' = driftMS - Sign(driftMS)
        <3>1. driftMS \in -(Minute * Second - 1) .. Minute * Second - 1
            BY <1>2 DEF ClockTypes
        <3>2. epocMS \in 0 .. Wrap - 1
            BY <1>2 DEF ClockTypes
        <3>3. Sign(driftMS) \in Int
            BY DEF Sign
        <3>4. epocMS + Wrap + Sign(driftMS) \in Int
            BY <3>2, <3>3, Constants
        <3>5. epocMS' \in 0 .. Wrap - 1
            BY <3>4, <2>1, Constants, DivMod
        <3>6. driftMS' \in -(Minute * Second - 1) .. Minute * Second - 1
            BY <3>1, <2>1, Constants DEF Sign
        <3>7. currentEpoc # 0
            BY <2>1 DEF ClockIInv, CountsFromStart, IsSynced
        <3> QED
            BY <3>5, <3>6, <3>7, <2>1, <1>2, Readings
    <2>2. CASE UNCHANGED <<lastSlew, epocMS, driftMS>>
        BY <2>2, <1>2 DEF ClockTypes
    <2> QED
        BY <2>1, <2>2 DEF SameSecond, StartUpdate, NotDue, Slew, client
<1>5. pc' \in {"second", "use", "poll"}
    BY <1>1 DEF Back
<1>6. ClockTypes'
    BY <1>1, <1>2, <1>3, <1>4, <1>5, Readings DEF ClockTypes, Asking
<1>7. StampsFromStart'
    BY <1>1, <1>2, <1>3, <1>5 DEF ClockIInv, StampsFromStart, Reads, ClockTypes, Back
<1>8. CountsFromStart'
    BY <1>1, <1>4 DEF ClockIInv, CountsFromStart
<1>9. UpdatesLate'
    <2>1. currentEpoc # 0 \/ sec = UpdateSec => now' # 0
        BY <1>1, ReadingIsATime
    <2> QED
        BY <2>1, <1>1, <1>5 DEF UpdatesLate, CanUpdate, Back, Asking, Reads
<1> QED
    BY <1>6, <1>7, <1>8, <1>9 DEF ClockIInv

(* What an answer says is a time after the start. *)
LEMMA PollKeeps ==
    ClockIInv /\ (NoAnswer \/ Answer \/ GiveUp) => ClockIInv'
<1> SUFFICES ASSUME ClockIInv, NoAnswer \/ Answer \/ GiveUp
             PROVE  ClockIInv'
    OBVIOUS
<1>1. /\ pc = "poll" /\ ticks' = ticks + 1
      /\ UNCHANGED <<start, lastUpdate, lastSlew, epocMS, driftMS, currentEpoc,
                     sec, now, stall>>
    BY DEF NoAnswer, Answer, GiveUp, Polling, client
<1>2. ClockTypes
    BY DEF ClockIInv
<1>3. /\ ticks \in Nat /\ start \in Nat /\ start >= Second /\ Second \in Nat
      /\ ntp \in Ntp /\ ntp.polls \in Nat /\ ntp.polls <= ticks
      /\ late = Never \/ (late \in Int /\ late >= Second)
    BY <1>1, <1>2, Constants DEF ClockIInv, ClockTypes, StampsFromStart, Ntp
<1>4. Utc \in Int /\ Utc + 1 >= Second /\ Utc - ntp.polls >= Second
    BY <1>3 DEF Utc
<1>5. late' = Never \/ (late' \in Int /\ late' >= Second)
    <2>1. late' \in {Never, late, Utc + 1}
        BY DEF NoAnswer, Answer, GiveUp
    <2>2. Utc + 1 \in Int
        BY <1>4
    <2> QED
        BY <2>1, <2>2, <1>3, <1>4
<1>6. CASE NoAnswer
    <2>1. pc' = "poll" /\ ntp' = [ntp EXCEPT !.polls = @ + 1]
        BY <1>6 DEF NoAnswer, Polling
    <2>2. ntp' \in Ntp /\ ntp'.polls = ntp.polls + 1
        BY <2>1, <1>3 DEF Ntp
    <2>3. ClockTypes'
        BY <2>1, <2>2, <1>1, <1>2, <1>3 DEF ClockTypes
    <2>4. StampsFromStart'
        BY <2>1, <2>2, <1>1, <1>3, <1>5 DEF StampsFromStart, Reads
    <2> QED
        BY <2>1, <2>3, <2>4, <1>1
           DEF ClockIInv, CountsFromStart, UpdatesLate, Asking
<1>7. CASE Answer
    <2>1. PICK stamp \in IF late # Never THEN {late}
                                         ELSE {Utc - ntp.polls, Utc + 1} :
              ntp' = [ntp EXCEPT !.polls = @ + 1, !.stamp = stamp]
        BY <1>7 DEF Answer
    <2>2. stamp \in Int /\ stamp >= Second
        BY <1>3, <1>4
    <2>3. pc' = "prevMs"
        BY <1>7 DEF Answer, Polling
    <2>4. ntp' \in Ntp /\ ntp'.stamp = stamp
        <3>1. ntp.polls + 1 \in Nat /\ stamp \in Int
            BY <1>3, <2>2
        <3>2. ntp \in Ntp
            BY <1>3
        <3>3. [ntp EXCEPT !.polls = ntp.polls + 1, !.stamp = stamp] \in Ntp
            BY <3>1, <3>2 DEF Ntp
        <3>4. ntp'.stamp = stamp
            BY <2>1, <3>2 DEF Ntp
        <3> QED
            BY <2>1, <3>3, <3>4
    <2>5. ClockTypes'
        BY <2>3, <2>4, <1>1, <1>2, <1>3 DEF ClockTypes, Asking, Reads
    <2>6. StampsFromStart'
        BY <2>2, <2>3, <2>4, <1>5 DEF StampsFromStart
    <2> QED
        BY <2>3, <2>5, <2>6, <1>1
           DEF ClockIInv, CountsFromStart, UpdatesLate, Asking, Reads
<1>8. CASE GiveUp
    <2>1. pc' = Back /\ ntp' = NoNtp
        BY <1>8 DEF GiveUp, Polling
    <2>2. ntp' \in Ntp
        BY <2>1, Constants DEF NoNtp, Ntp
    <2>3. pc' \in {"second", "use"} /\ (sec # InBegin => pc' = "use")
          /\ (sec = InBegin => pc' = "second")
        BY <2>1 DEF Back
    <2>4. ClockTypes'
        BY <2>2, <2>3, <1>1, <1>2, <1>3 DEF ClockTypes
    <2>5. StampsFromStart'
        BY <2>3, <1>5 DEF StampsFromStart, Reads
    <2> QED
        BY <2>3, <2>4, <2>5, <1>1
           DEF ClockIInv, CountsFromStart, UpdatesLate, Asking, Reads
<1> QED
    BY <1>6, <1>7, <1>8

(* The client reads its own clock. *)
LEMMA ReadsKeep ==
    ClockIInv /\ (ReadPrevMs \/ ReadPrevEpoch \/ ReadCurMs) => ClockIInv'
<1> SUFFICES ASSUME ClockIInv, ReadPrevMs \/ ReadPrevEpoch \/ ReadCurMs
             PROVE  ClockIInv'
    OBVIOUS
<1>1. /\ pc \in Reads /\ pc' \in Reads
      /\ UNCHANGED <<ticks, start, late, lastUpdate, lastSlew, epocMS, driftMS,
                     currentEpoc, sec, now, stall>>
    BY DEF ReadPrevMs, ReadPrevEpoch, ReadCurMs, Part, Reads, world, client
<1>2. ClockTypes
    BY DEF ClockIInv
<1>3. GetEpochTime \in Int /\ GetMillis \in Int /\ Millis \in 0 .. Wrap - 1
    BY <1>2, Readings
<1>4. ntp' \in Ntp /\ ntp'.stamp = ntp.stamp
    BY <1>2, <1>3 DEF ReadPrevMs, ReadPrevEpoch, ReadCurMs, ClockTypes, Ntp
<1>5. ClockTypes'
    BY <1>1, <1>2, <1>4 DEF ClockTypes, Asking
<1>6. StampsFromStart' /\ CountsFromStart'
    BY <1>1, <1>4 DEF ClockIInv, StampsFromStart, CountsFromStart, Reads
<1>7. UpdatesLate'
    BY <1>1 DEF ClockIInv, UpdatesLate, Asking, Reads
<1> QED
    BY <1>5, <1>6, <1>7 DEF ClockIInv

(* The clock that an answer sets has an epoch. *)
LEMMA FinishKeeps ==
    ClockIInv /\ FinishUpdate => ClockIInv'
<1> SUFFICES ASSUME ClockIInv, FinishUpdate PROVE ClockIInv'
    OBVIOUS
<1>1. /\ pc = "curEpoch" /\ pc' = Back
      /\ IF IsSynced THEN CorrectClock ELSE SetClock
      /\ lastUpdate' = ntp.ms /\ ntp' = NoNtp
      /\ UNCHANGED <<ticks, start, late, lastSlew, sec, now, stall>>
    BY DEF FinishUpdate, world
<1>2. ClockTypes
    BY DEF ClockIInv
<1>3. /\ ntp.stamp \in Int /\ ntp.stamp >= Second /\ Second \in Nat \ {0}
      /\ ntp.polls \in Int /\ ntp.prevMs \in Int /\ ntp.prevEpoch \in Int
      /\ ntp.curMs \in Int /\ ntp.ms \in Int /\ ntp.ms \in 0 .. Wrap - 1
    BY <1>1, <1>2, Constants
       DEF ClockIInv, ClockTypes, StampsFromStart, Reads, Ntp
<1>4. Secs \in Nat /\ Secs # 0
    BY <1>3, DivNat DEF Secs
<1>5. Mssec \in Int
    <2>1. ntp.stamp % Second \in Int
        <3>1. ntp.stamp \in Int /\ Second \in Nat \ {0}
            BY <1>3
        <3> QED
            BY <3>1, DivMod
    <2>2. FracDiv \in Nat \ {0}
        BY Constants
    <2>3. FracDiv \div 2 \in Int
        BY <2>2, DivMod
    <2>4. (ntp.stamp % Second) + FracDiv \div 2 \in Int
        BY <2>1, <2>3
    <2> QED
        BY <2>2, <2>4, DivMod DEF Mssec
<1>6. /\ epocMS' \in 0 .. Wrap - 1
      /\ driftMS' \in -(Minute * Second - 1) .. Minute * Second - 1
      /\ currentEpoc' \in Nat /\ currentEpoc' # 0
    <2>1. CASE ~IsSynced
        <3>1. ntp.ms + Wrap - (ntp.polls + 1) - Mssec \in Int
            BY <1>3, <1>5, Constants
        <3>2. epocMS' \in 0 .. Wrap - 1
            BY <3>1, <2>1, <1>1, Constants, DivMod DEF SetClock
        <3>3. 0 \in -(Minute * Second - 1) .. Minute * Second - 1
            BY Constants
        <3> QED
            BY <3>2, <3>3, <2>1, <1>1, <1>4 DEF SetClock
    <2>2. CASE IsSynced
        <3> DEFINE gap == (GetEpochTime - ntp.prevEpoch) * Second
                              + ntp.curMs - ntp.prevMs - Mssec
        <3>1. GetEpochTime \in Int
            BY <1>2, Readings
        <3>2. gap \in Int /\ Wrap \in Nat \ {0}
            BY <3>1, <1>3, <1>5, Constants
        <3>3. Drift = Long(gap)
            BY DEF Drift
        <3> HIDE DEF gap
        <3>4. Wrap \div 2 \in Int
            BY <3>2, DivMod
        <3>5. (gap + Wrap \div 2) % Wrap \in Int
            BY <3>2, <3>4, DivMod
        <3>6. Drift \in Int
            BY <3>3, <3>4, <3>5 DEF Long
        <3>7. driftMS' \in -(Minute * Second - 1) .. Minute * Second - 1
            BY <3>6, <2>2, <1>1, Constants, RemType DEF CorrectClock
        <3>8. driftMS' \in Int /\ epocMS \in Int
            BY <3>7, <1>2, Constants DEF ClockTypes
        <3>9. epocMS + Wrap + Drift - driftMS' \in Int
            BY <3>2, <3>6, <3>8
        <3>10. epocMS' \in 0 .. Wrap - 1
            BY <3>2, <3>9, <2>2, <1>1, DivMod DEF CorrectClock
        <3>11. currentEpoc' = currentEpoc /\ currentEpoc # 0
            BY <2>2, <1>1 DEF ClockIInv, CountsFromStart, CorrectClock, IsSynced
        <3> QED
            BY <3>7, <3>10, <3>11, <1>2 DEF ClockTypes
    <2> QED
        BY <2>1, <2>2
<1>7. /\ pc' \in {"second", "use"} /\ (sec # InBegin => pc' = "use")
      /\ (sec = InBegin => pc' = "second")
    BY <1>1 DEF Back
<1>8. NoNtp \in Ntp
    BY Constants DEF NoNtp, Ntp
<1>9. ClockTypes'
    BY <1>1, <1>2, <1>3, <1>6, <1>7, <1>8 DEF ClockTypes
<1>10. StampsFromStart' /\ CountsFromStart'
    BY <1>1, <1>6, <1>7 DEF ClockIInv, StampsFromStart, CountsFromStart, Reads
<1>11. UpdatesLate'
    BY <1>1, <1>7 DEF ClockIInv, UpdatesLate, Asking, Reads
<1> QED
    BY <1>9, <1>10, <1>11 DEF ClockIInv

(* A round of the loop is over.                                            *)
LEMMA UseTimeKeeps ==
    ClockIInv /\ UseTime => ClockIInv'
<1> SUFFICES ASSUME ClockIInv, UseTime PROVE ClockIInv'
    OBVIOUS
<1>1. /\ pc' = "second" /\ stall' = MaxStall /\ sec' = 0 /\ now' = 0
      /\ UNCHANGED <<ticks, start, late, lastUpdate, lastSlew, epocMS, driftMS,
                     currentEpoc, ntp>>
    BY DEF UseTime, world, client
<1>2. MaxStall \in 0 .. MaxStall /\ 0 \in 0 .. InBegin
    BY Constants
<1>3. ClockTypes'
    BY <1>1, <1>2 DEF ClockIInv, ClockTypes
<1> QED
    BY <1>1, <1>3
       DEF ClockIInv, StampsFromStart, CountsFromStart, UpdatesLate, Asking, Reads

(* Nothing happens.                                                        *)
LEMMA ClockStutters ==
    ClockIInv /\ UNCHANGED vars => ClockIInv'
BY DEF ClockIInv, ClockTypes, StampsFromStart, CountsFromStart, UpdatesLate,
       vars, client, Millis

(* The invariant holds in every state.                                     *)
LEMMA ClockInvariance == Spec => []ClockIInv
<1>1. ClockIInv /\ [Next]_vars => ClockIInv'
    BY TickKeeps, ReadSecondKeeps, ReadingKeeps, PollKeeps, ReadsKeep,
       FinishKeeps, UseTimeKeeps, ClockStutters DEF Next
<1> QED
    BY ClockInitIInv, <1>1, PTL DEF Spec

(***************************************************************************)
(* Every counter of the clock keeps its width, and so do the readings of   *)
(* forceUpdate.                                                            *)
(***************************************************************************)
THEOREM ClockTypeCorrect == Spec => []ClockTypes
<1>1. ClockIInv => ClockTypes
    BY DEF ClockIInv
<1> QED
    BY <1>1, ClockInvariance, PTL

(***************************************************************************)
(* The event log is never given the time 0: the first update waits for a   *)
(* second that is not the first one, and what it read by then is not 0.    *)
(***************************************************************************)
THEOREM LogGetsATime == Spec => []LogGetsTimes
<1>1. ClockIInv => LogGetsTimes
    BY DEF ClockIInv, UpdatesLate, CountsFromStart, LogGetsTimes, IsSynced
<1> QED
    BY <1>1, ClockInvariance, PTL
-----------------------------------------------------------------------------
(***************************************************************************)
(* What the own clock showed t ticks ago, if it was not set or slewed      *)
(* since.                                                                  *)
(***************************************************************************)
Ago(t) == (ticks - t - epocMS) % Wrap

(* The readings forceUpdate made were made in this order, and no longer    *)
(* ago than a stall; no stamp is of the future.                            *)
PollsBounded ==
    /\ pc \in Asking => ntp.polls <= MaxPolls + 1
    /\ pc \in Reads => ntp.polls <= ticks /\ ntp.stamp <= Utc
    /\ late <= Utc

ReadInOrder ==
    \E t1 \in 0 .. MaxStall - stall : \E t2 \in 0 .. t1 : \E t3 \in 0 .. t2 :
        /\ pc \in {"prevEpoch", "curMs", "curEpoch"} =>
              ntp.prevMs = Ago(t1) % Second
        /\ pc \in {"curMs", "curEpoch"} =>
              ntp.prevEpoch = currentEpoc + Ago(t2) \div Second
        /\ pc = "curEpoch" =>
              /\ ntp.curMs = Ago(t3) % Second
              /\ ntp.ms = (ticks - t3) % Wrap
              /\ ntp.polls + t3 <= ticks /\ ntp.stamp + t3 <= Utc

DriftIInv == PollsBounded /\ ReadInOrder /\ TypeOK

(***************************************************************************)
(* Before millis() wraps: how far the clock is off, by the slewing so far, *)
(* and that its base is neither after now nor so far before the start that *)
(* the time since the base wraps earlier.                                  *)
(***************************************************************************)
SlewsAt(ms) == ms \div (Minute * Second)
Early   == ticks + Second + Slewed < Wrap
NotFarOff ==
    /\ currentEpoc * Second + Since(epocMS) - Utc
          \in -age - Second - SlewsAt(lastSlew) .. MaxPolls + 2 + SlewsAt(lastSlew)
    /\ Since(epocMS) >= 1 \/ Since(epocMS) >= ticks - lastSlew
    /\ Since(epocMS) <= ticks + Second + SlewsAt(lastSlew)

KeepsIInv ==
    /\ age \in Int
    /\ Early => lastSlew <= ticks /\ (IsSynced => NotFarOff)

(***************************************************************************)
(* What passed on the own clock since the RTC was updated: the stalls and  *)
(* the polls of this round, give or take a slew; and where there are       *)
(* polls, the RTC is in the second of the update or the one before.        *)
(***************************************************************************)
Polled == IF pc \in Asking THEN ntp.polls ELSE IF pc = "use" THEN MaxPolls + 2 ELSE 0
NearSecond(s) == \E d \in {0, 1} : (rtc + d) % Minute = s

RtcFollows(rho, e) ==
    /\ rtc = currentEpoc + rho \div Second
    /\ Since(epocMS) = (rho + e) % Wrap
    /\ e <= MaxStall - stall + Polled
    /\ pc # "use" => e >= 0
    /\ pc = "update" => rho + e >= Wrap \/ NearSecond(sec)
    /\ pc \in Asking => rho + e >= Wrap \/ NearSecond(UpdateSec)
    /\ pc = "use" => \/ rho + e >= Wrap \/ NearSecond(UpdateSec)
                     \/ e <= MaxStall - stall + 1

RtcIInv ==
    /\ rtc \in Int
    /\ sec = InBegin /\ pc # "second" => ~IsSynced
    /\ IsSynced /\ ~set =>
          \E rho \in 0 .. Wrap - 1, e \in -1 .. 2 * Second : RtcFollows(rho, e)
-----------------------------------------------------------------------------
(* What the timing of the code asks of the constants. *)
LEMMA Timing ==
    /\ Minute >= 2 /\ 4 * Second <= Wrap
    /\ MaxStall < Second /\ MaxStall + MaxPolls + 2 <= 2 * Second
    /\ Minute * Second >= 2 * Second
<1>1. /\ Minute >= 2 /\ 4 * Second <= Wrap
      /\ MaxStall < Second /\ MaxStall + MaxPolls + 2 <= 2 * Second
    BY TimingAssumption
<1>2. (Minute - 2) * Second >= 0
    BY <1>1, Constants
<1>3. (Minute - 2) * Second = Minute * Second - 2 * Second
    BY Constants
<1> QED
    BY <1>1, <1>2, <1>3, Constants

(* A remainder may be taken before or after something is added. *)
LEMMA ModShift ==
    ASSUME NEW n \in Int, NEW k \in Int, NEW d \in Nat \ {0}
    PROVE  ((n % d) + k) % d = (n + k) % d
<1> DEFINE q == n \div d
           r == n % d
           h == (r + k) \div d
           m == (r + k) % d
<1>1. q \in Int /\ r \in 0 .. d - 1 /\ n = d * q + r
    BY DivMod
<1> HIDE DEF q, r
<1>2. r + k \in Int
    BY <1>1
<1>3. h \in Int /\ m \in 0 .. d - 1 /\ r + k = d * h + m
    BY <1>2, DivMod
<1> HIDE DEF h, m
<1>4. n + k = (q + h) * d + m
    BY <1>1, <1>3
<1>5. q + h \in Int
    BY <1>1, <1>3
<1>6. ((q + h) * d + m) % d = m
    BY <1>3, <1>5, ModUnique
<1> QED
    BY <1>4, <1>6 DEF m, r

(* The remainder of a number that is less than a turn off. *)
LEMMA ModNear ==
    ASSUME NEW d \in Nat \ {0}, NEW x \in -d .. 2 * d - 1
    PROVE  /\ x < 0 => x % d = x + d
           /\ x >= 0 /\ x < d => x % d = x
           /\ x >= d => x % d = x - d
<1>1. CASE x < 0
    <2>1. x + d \in 0 .. d - 1 /\ (-1) * d + (x + d) = x
        BY <1>1
    <2> QED
        BY <2>1, <1>1, ModUnique
<1>2. CASE x >= 0 /\ x < d
    <2>1. x \in 0 .. d - 1 /\ 0 * d + x = x
        BY <1>2
    <2> QED
        BY <2>1, <1>2, ModUnique
<1>3. CASE x >= d
    <2>1. x - d \in 0 .. d - 1 /\ 1 * d + (x - d) = x
        BY <1>3
    <2>2. (1 * d + (x - d)) % d = x - d
        BY <2>1, ModUnique
    <2> QED
        BY <2>1, <2>2, <1>3
<1> QED
    BY <1>1, <1>2, <1>3

LEMMA ModCarry ==
    ASSUME NEW d \in Nat \ {0}, NEW n \in 0 .. d - 1, NEW t \in 0 .. d
    PROVE  /\ n + t < d => (n + t) % d = n + t
           /\ n + t >= d => (n + t) % d = n + t - d
<1> DEFINE x == n + t
<1>1. x \in -d .. 2 * d - 1 /\ x >= 0
    OBVIOUS
<1> HIDE DEF x
<1>2. /\ x < d => x % d = x
      /\ x >= d => x % d = x - d
    BY <1>1, ModNear
<1> QED
    BY <1>2 DEF x

(* A quotient is what the number has room for. *)
LEMMA DivBounds ==
    ASSUME NEW n \in Int, NEW d \in Nat \ {0}, NEW q \in Int
    PROVE  /\ d * q <= n => q <= n \div d
           /\ n < d * q + d => n \div d <= q
<1> DEFINE h == n \div d
           m == n % d
<1>1. h \in Int /\ m \in 0 .. d - 1 /\ n = d * h + m
    BY DivMod
<1> HIDE DEF h, m
<1>2. d * (q - h) = d * q - d * h
    BY <1>1
<1>3. ASSUME d * q <= n, q > h PROVE FALSE
    <2>1. d * (q - h) >= d
        BY <1>3, <1>1
    <2> QED
        BY <2>1, <1>1, <1>2, <1>3
<1>4. ASSUME n < d * q + d, q < h PROVE FALSE
    <2>1. d * (h - q) >= d
        BY <1>4, <1>1
    <2>2. d * (h - q) = d * h - d * q
        BY <1>1
    <2> QED
        BY <2>1, <2>2, <1>1, <1>4
<1> QED
    BY <1>1, <1>3, <1>4 DEF h

(* How far the quotient gets while the number grows by t.                  *)
LEMMA DivGrows ==
    ASSUME NEW n \in Int, NEW t \in Nat, NEW d \in Nat \ {0}
    PROVE  /\ (n + t) \div d \in Int /\ (n + t) \div d >= n \div d
           /\ t <= d => (n + t) \div d <= n \div d + 1
           /\ t <= 2 * d => (n + t) \div d <= n \div d + 2
<1> DEFINE q == n \div d
           m == n % d
<1>1. q \in Int /\ m \in 0 .. d - 1 /\ n = d * q + m
    BY DivMod
<1> HIDE DEF q, m
<1>2. d * (q + 1) = d * q + d /\ d * (q + 2) = d * q + 2 * d
    BY <1>1
<1>3. n + t \in Int /\ q + 1 \in Int /\ q + 2 \in Int
    BY <1>1
<1>4. (n + t) \div d \in Int
    BY <1>3, DivMod
<1>5. (n + t) \div d >= q
    <2>1. d * q <= n + t
        BY <1>1
    <2> QED
        BY <2>1, <1>1, <1>3, <1>4, DivBounds
<1>6. t <= d => (n + t) \div d <= q + 1
    <2>1. t <= d => n + t < d * (q + 1) + d
        BY <1>1, <1>2
    <2> QED
        BY <2>1, <1>3, DivBounds
<1>7. t <= 2 * d => (n + t) \div d <= q + 2
    <2>1. t <= 2 * d => n + t < d * (q + 2) + d
        BY <1>1, <1>2
    <2> QED
        BY <2>1, <1>3, DivBounds
<1> QED
    BY <1>4, <1>5, <1>6, <1>7 DEF q

(* A remainder grows by no more than the number.                           *)
LEMMA ModGrows ==
    ASSUME NEW n \in Int, NEW t \in Nat, NEW d \in Nat \ {0}
    PROVE  (n + t) % d <= (n % d) + t
<1> DEFINE q == n \div d
           h == (n + t) \div d
<1>1. q \in Int /\ n = d * q + (n % d) /\ n % d \in Int
    BY DivMod
<1>2. n + t \in Int /\ h \in Int /\ h >= q
    BY <1>1, DivGrows
<1>3. n + t = d * h + ((n + t) % d) /\ (n + t) % d \in Int
    BY <1>2, DivMod
<1> HIDE DEF q, h
<1>4. d * (h - q) >= 0 /\ d * (h - q) = d * h - d * q
    BY <1>1, <1>2
<1> QED
    BY <1>1, <1>2, <1>3, <1>4

(* The time since ms, by a millis() that wraps.                            *)
LEMMA SinceAt ==
    ASSUME NEW t \in Int, NEW ms \in Int
    PROVE  ((t % Wrap) + Wrap - ms) % Wrap = (t - ms) % Wrap
<1>1. Wrap \in Nat \ {0} /\ Wrap - ms \in Int /\ t - ms \in Int
    BY Constants
<1>2. t % Wrap \in Int
    BY <1>1, DivMod
<1>3. (t % Wrap) + Wrap - ms = (t % Wrap) + (Wrap - ms)
    BY <1>1, <1>2
<1>4. ((t % Wrap) + (Wrap - ms)) % Wrap = (t + (Wrap - ms)) % Wrap
    BY <1>1, ModShift
<1>5. (Wrap % Wrap) + (t - ms) = t - ms
    <2>1. Wrap \in -Wrap .. 2 * Wrap - 1
        BY <1>1
    <2> QED
        BY <2>1, <1>1, ModNear
<1>6. (t - ms) % Wrap = (Wrap + (t - ms)) % Wrap
    <2>1. ((Wrap % Wrap) + (t - ms)) % Wrap = (Wrap + (t - ms)) % Wrap
        <3>1. Wrap \in Int
            BY <1>1
        <3> QED
            BY <3>1, <1>1, ModShift, Zenon
    <2> QED
        BY <2>1, <1>5
<1>7. Wrap + (t - ms) = t + (Wrap - ms)
    BY <1>1
<1> QED
    BY <1>3, <1>4, <1>6, <1>7

(* The rest of the fraction is no longer than the fraction. *)
LEMMA MssecBound ==
    ASSUME ntp.stamp \in Int
    PROVE  /\ ntp.stamp % Second \in 0 .. Second - 1
           /\ Mssec \in 0 .. ntp.stamp % Second
<1> DEFINE x == ntp.stamp % Second
           g == FracDiv \div 2
<1>1. x \in 0 .. Second - 1 /\ Second \in Nat \ {0} /\ FracDiv \in Nat \ {0}
    <2>1. Second \in Nat \ {0} /\ FracDiv \in Nat \ {0}
        BY Constants
    <2> QED
        BY <2>1, DivMod
<1>2. g \in Int /\ g >= 0 /\ g < FracDiv
    <2>1. g \in Int /\ FracDiv % 2 \in 0 .. 1 /\ FracDiv = 2 * g + (FracDiv % 2)
        BY Constants, DivMod
    <2> QED
        BY <2>1, <1>1
<1> HIDE DEF x, g
<1>3. (FracDiv - 1) * x >= 0 /\ (FracDiv - 1) * x = FracDiv * x - x
    BY <1>1
<1>4. FracDiv * 0 <= x + g /\ x + g < FracDiv * x + FracDiv
    BY <1>1, <1>2, <1>3
<1>5. x + g \in Int /\ x \in Int /\ 0 \in Int
    BY <1>1, <1>2
<1>6. (x + g) \div FracDiv \in Int
    BY <1>1, <1>5, DivMod
<1>7. 0 <= (x + g) \div FracDiv /\ (x + g) \div FracDiv <= x
    BY <1>1, <1>4, <1>5, DivBounds
<1> QED
    BY <1>1, <1>6, <1>7 DEF Mssec, x, g

(* A long takes the turn of millis() out of a difference of two readings. *)
LEMMA LongOf ==
    ASSUME NEW n \in -(2 * Second - 1) .. 2 * Second - 1
    PROVE  Long(n) = n /\ Long(n - Wrap) = n
<1> DEFINE h == Wrap \div 2
<1>1. Wrap \in Nat \ {0} /\ Second \in Nat \ {0} /\ 4 * Second <= Wrap
    BY Constants, Timing
<1>2. h \in Int /\ 2 * Second <= h /\ h <= Wrap - 2 * Second
    <2>1. h \in Int /\ Wrap % 2 \in 0 .. 1 /\ Wrap = 2 * h + (Wrap % 2)
        BY <1>1, DivMod
    <2> QED
        BY <2>1, <1>1
<1> HIDE DEF h
<1>3. (n + h) % Wrap = n + h
    <2>1. n + h \in -Wrap .. 2 * Wrap - 1 /\ n + h >= 0 /\ n + h < Wrap
        BY <1>1, <1>2
    <2> QED
        BY <2>1, <1>1, ModNear
<1>4. (n - Wrap + h) % Wrap = n + h
    <2>1. n - Wrap + h \in -Wrap .. 2 * Wrap - 1 /\ n - Wrap + h < 0
        BY <1>1, <1>2
    <2>2. (n - Wrap + h) % Wrap = n - Wrap + h + Wrap
        BY <2>1, <1>1, ModNear
    <2> QED
        BY <2>1, <2>2, <1>1, <1>2
<1> QED
    BY <1>1, <1>2, <1>3, <1>4 DEF Long, h

(* Less than a minute is its own remainder.                                *)
LEMMA RemOf ==
    ASSUME NEW d \in Nat \ {0}, NEW n \in -(d - 1) .. d - 1
    PROVE  Rem(n, d) = n
<1>1. CASE n >= 0
    <2>1. n \in -d .. 2 * d - 1 /\ n < d
        BY <1>1
    <2>2. n % d = n
        BY <2>1, <1>1, ModNear
    <2> QED
        BY <2>2, <1>1 DEF Rem
<1>2. CASE n < 0
    <2> DEFINE m == -n
    <2>1. m \in -d .. 2 * d - 1 /\ m >= 0 /\ m < d /\ m \in Int
        BY <1>2
    <2> HIDE DEF m
    <2>2. m % d = m
        BY <2>1, ModNear
    <2> QED
        BY <2>2, <1>2 DEF Rem, m
<1> QED
    BY <1>1, <1>2
-----------------------------------------------------------------------------
(* What the clock shows is what it showed no tick ago. *)
LEMMA AgoIs ==
    ASSUME ClockTypes
    PROVE  /\ \A t \in Int : Ago(t) \in 0 .. Wrap - 1
           /\ Since(epocMS) = Ago(0)
           /\ GetEpochTime = currentEpoc + Ago(0) \div Second
           /\ GetMillis = Ago(0) % Second
<1>1. ticks \in Int /\ epocMS \in Int /\ Wrap \in Nat \ {0}
    BY Constants DEF ClockTypes
<1>2. ASSUME NEW t \in Int PROVE Ago(t) \in 0 .. Wrap - 1
    <2>1. ticks - t - epocMS \in Int
        BY <1>1
    <2> QED
        BY <2>1, <1>1, DivMod DEF Ago
<1>3. Since(epocMS) = (ticks - epocMS) % Wrap
    BY <1>1, SinceAt DEF Since, Millis
<1>4. Since(epocMS) = Ago(0)
    <2>1. ticks - 0 - epocMS = ticks - epocMS
        BY <1>1
    <2> QED
        BY <2>1, <1>3 DEF Ago
<1> QED
    BY <1>2, <1>4 DEF GetEpochTime, GetMillis

(* What it showed t ago follows from what it showed t + d ago.             *)
LEMMA AgoGoesOn ==
    ASSUME ClockTypes, NEW t \in Int, NEW d \in Int
    PROVE  Ago(t) = (Ago(t + d) + d) % Wrap
<1>1. ticks \in Int /\ epocMS \in Int /\ Wrap \in Nat \ {0}
    BY Constants DEF ClockTypes
<1>2. ticks - (t + d) - epocMS \in Int
    BY <1>1
<1>3. (ticks - (t + d) - epocMS) + d = ticks - t - epocMS
    BY <1>1
<1>4. (((ticks - (t + d) - epocMS) % Wrap) + d) % Wrap
          = ((ticks - (t + d) - epocMS) + d) % Wrap
    BY <1>1, <1>2, ModShift
<1> QED
    BY <1>3, <1>4 DEF Ago

(***************************************************************************)
(* The drift: what passed between two readings a stall apart, to a second, *)
(* less the fraction of the answer; Long takes out that the own clock      *)
(* went over the end of millis() in between.                               *)
(***************************************************************************)
LEMMA DriftBound ==
    ASSUME ClockTypes, ReadInOrder, pc = "curEpoch"
    PROVE  Drift \in -(2 * Second - 1) .. 2 * Second - 1
<1>1. PICK t1 \in 0 .. MaxStall - stall : \E t2 \in 0 .. t1 : \E t3 \in 0 .. t2 :
          /\ ntp.prevMs = Ago(t1) % Second
          /\ ntp.prevEpoch = currentEpoc + Ago(t2) \div Second
          /\ ntp.curMs = Ago(t3) % Second
    BY DEF ReadInOrder
<1>2. PICK t2 \in 0 .. t1 : \E t3 \in 0 .. t2 :
          /\ ntp.prevMs = Ago(t1) % Second
          /\ ntp.prevEpoch = currentEpoc + Ago(t2) \div Second
          /\ ntp.curMs = Ago(t3) % Second
    BY <1>1
<1>3. PICK t3 \in 0 .. t2 :
          /\ ntp.prevMs = Ago(t1) % Second
          /\ ntp.prevEpoch = currentEpoc + Ago(t2) \div Second
          /\ ntp.curMs = Ago(t3) % Second
    BY <1>2
<1>4. /\ Second \in Nat \ {0} /\ Wrap \in Nat \ {0} /\ 4 * Second <= Wrap
      /\ MaxStall \in Nat /\ MaxStall < Second
    BY Constants, Timing
<1>5. /\ t1 \in Int /\ t2 \in Int /\ t3 \in Int
      /\ 0 <= t2 /\ t2 <= t1 /\ t1 < Second
    BY <1>4, ClockTypes DEF ClockTypes
<1> DEFINE r1 == Ago(t1)
           r2 == Ago(t2)
           r4 == Ago(0)
           c  == Ago(t3) % Second
           s  == r2 \div Second
           e  == r4 \div Second
           m  == Mssec
<1>6. r1 \in 0 .. Wrap - 1 /\ r2 \in 0 .. Wrap - 1 /\ r4 \in 0 .. Wrap - 1
    BY <1>5, AgoIs
<1>7. c \in 0 .. Second - 1
    <2>1. Ago(t3) \in Int
        BY <1>5, <1>4, AgoIs
    <2> QED
        BY <2>1, <1>4, DivMod
<1>8. /\ r1 % Second \in 0 .. Second - 1
      /\ r2 % Second \in 0 .. Second - 1 /\ s \in Int
      /\ r2 = Second * s + (r2 % Second)
      /\ r4 % Second \in 0 .. Second - 1 /\ e \in Int
      /\ r4 = Second * e + (r4 % Second)
    <2>1. r1 \in Int /\ r2 \in Int /\ r4 \in Int
        BY <1>6, <1>4
    <2> QED
        BY <2>1, <1>4, DivMod
<1>9. m \in 0 .. Second - 1
    <2>1. ntp.stamp \in Int
        BY DEF ClockTypes, Ntp
    <2> QED
        BY <2>1, <1>4, MssecBound
<1> DEFINE gap == (e - s) * Second + c - (r1 % Second) - m
<1>10. Drift = Long(gap)
    <2>1. currentEpoc \in Int /\ GetEpochTime = currentEpoc + e
        BY AgoIs DEF ClockTypes
    <2>2. GetEpochTime - ntp.prevEpoch = e - s
        BY <2>1, <1>3, <1>8
    <2> QED
        BY <2>2, <1>3 DEF Drift
<1>11. r4 = (r2 + t2) % Wrap
    <2>1. Ago(0) = (Ago(0 + t2) + t2) % Wrap
        BY <1>5, AgoGoesOn
    <2>2. 0 + t2 = t2
        BY <1>5
    <2> QED
        BY <2>1, <2>2
<1>12. r2 = (r1 + (t1 - t2)) % Wrap
    <2>1. t1 - t2 \in Int /\ t2 + (t1 - t2) = t1
        BY <1>5
    <2>2. Ago(t2) = (Ago(t2 + (t1 - t2)) + (t1 - t2)) % Wrap
        BY <2>1, <1>5, AgoGoesOn
    <2> QED
        BY <2>1, <2>2
<1> HIDE DEF r1, r2, r4, c, s, e, m
<1>13. (e - s) * Second = Second * e - Second * s
    BY <1>4, <1>8
<1>14. CASE r2 + t2 < Wrap
    <2>1. r2 + t2 \in -Wrap .. 2 * Wrap - 1 /\ r2 + t2 >= 0
        BY <1>4, <1>5, <1>6
    <2>2. r4 = r2 + t2
        BY <2>1, <1>4, <1>11, <1>14, ModNear
    <2>3. e - s \in {0, 1}
        <3>1. t2 \in Nat /\ t2 <= Second /\ r2 \in Int
            BY <1>4, <1>5, <1>6
        <3>2. e >= s /\ e <= s + 1
            BY <3>1, <2>2, <1>4, DivGrows DEF e, s
        <3> QED
            BY <3>2, <1>8
    <2>4. (e - s) * Second \in {0, Second}
        BY <2>3, <1>4
    <2>5. gap \in -(2 * Second - 1) .. 2 * Second - 1
        BY <2>4, <1>4, <1>7, <1>8, <1>9
    <2> QED
        BY <2>5, <1>10, LongOf
<1>15. CASE r2 + t2 >= Wrap
    <2>1. r2 + t2 \in -Wrap .. 2 * Wrap - 1
        BY <1>4, <1>5, <1>6
    <2>2. r4 = r2 + t2 - Wrap
        <3>1. t2 \in 0 .. Wrap
            BY <1>4, <1>5
        <3> QED
            BY <3>1, <1>4, <1>6, <1>11, <1>15, ModCarry
    <2>3. r1 + (t1 - t2) \in -Wrap .. 2 * Wrap - 1 /\ r1 + (t1 - t2) >= 0
        BY <1>4, <1>5, <1>6
    <2>4. r2 = r1 + (t1 - t2)
        <3>1. r1 + (t1 - t2) < Wrap => r2 = r1 + (t1 - t2)
            BY <2>3, <1>4, <1>12, ModNear
        <3>2. r1 + (t1 - t2) >= Wrap => r2 = r1 + (t1 - t2) - Wrap
            <4>1. t1 - t2 \in 0 .. Wrap
                BY <1>4, <1>5
            <4> QED
                BY <4>1, <1>4, <1>6, <1>12, ModCarry
        <3> QED
            BY <3>1, <3>2, <2>3, <1>4, <1>5, <1>6, <1>15
    <2>5. r2 % Second <= (r1 % Second) + (t1 - t2)
        <3>1. t1 - t2 \in Nat /\ r1 \in Int
            BY <1>5, <1>6, <1>4
        <3> QED
            BY <3>1, <2>4, <1>4, ModGrows
    <2>6. e = 0
        <3>1. r4 \in Nat /\ r4 < Second
            BY <2>2, <1>4, <1>5, <1>6
        <3> QED
            BY <3>1, <1>4, DivNat DEF e
    <2>7. Second * e = 0
        BY <2>6, <1>4
    <2>8. gap + Wrap \in -(2 * Second - 1) .. 2 * Second - 1
        BY <2>2, <2>5, <2>7, <1>4, <1>5, <1>6, <1>7, <1>8, <1>9, <1>13
    <2>9. gap \in Int /\ gap = (gap + Wrap) - Wrap
        BY <1>4, <1>7, <1>8, <1>9, <1>13
    <2> HIDE DEF gap
    <2>10. Long((gap + Wrap) - Wrap) = gap + Wrap
        BY <2>8, LongOf
    <2> QED
        BY <2>8, <2>9, <2>10, <1>10
<1> QED
    BY <1>4, <1>5, <1>6, <1>14, <1>15

(* So an update leaves the base where it is, and all of the drift to slew. *)
LEMMA CorrectLeavesBase ==
    ASSUME ClockTypes, ReadInOrder, pc = "curEpoch", CorrectClock
    PROVE  epocMS' = epocMS /\ driftMS' = Drift
<1> DEFINE m == Minute * Second
<1>1. m \in Nat \ {0} /\ 2 * Second <= m /\ Second \in Nat /\ Wrap \in Nat \ {0}
    BY Constants, Timing
<1>2. Drift \in -(2 * Second - 1) .. 2 * Second - 1
    BY DriftBound
<1>3. driftMS' = Rem(Drift, m)
    BY DEF CorrectClock
<1>4. epocMS' = (epocMS + Wrap + Drift - driftMS') % Wrap
    BY DEF CorrectClock
<1> HIDE DEF m
<1>5. Drift \in -(m - 1) .. m - 1
    BY <1>1, <1>2
<1>6. driftMS' = Drift
    BY <1>1, <1>3, <1>5, RemOf
<1>7. epocMS \in 0 .. Wrap - 1
    BY DEF ClockTypes
<1>8. epocMS + Wrap + Drift - driftMS' = epocMS + Wrap
    BY <1>1, <1>2, <1>6, <1>7
<1>9. (epocMS + Wrap) % Wrap = epocMS
    <2>1. epocMS + Wrap \in -Wrap .. 2 * Wrap - 1 /\ epocMS + Wrap >= Wrap
        BY <1>1, <1>7
    <2>2. (epocMS + Wrap) % Wrap = epocMS + Wrap - Wrap
        BY <2>1, <1>1, <1>7, ModNear
    <2> QED
        BY <2>2, <1>1, <1>7
<1> QED
    BY <1>4, <1>6, <1>8, <1>9
-----------------------------------------------------------------------------
(* Nothing was read, asked or received before the first round.             *)
LEMMA DriftInit == Init => DriftIInv
<1> SUFFICES ASSUME Init PROVE DriftIInv
    OBVIOUS
<1>1. ticks \in Nat /\ start \in Nat
    BY NtpClockAssumption DEF Init
<1>2. PollsBounded
    BY <1>1 DEF Init, PollsBounded, Asking, Reads, Never, Utc
<1>3. 0 \in 0 .. MaxStall - stall /\ 0 \in 0 .. 0
    BY Constants DEF Init
<1>4. ReadInOrder
    BY <1>3 DEF Init, ReadInOrder
<1>5. TypeOK
    BY Constants DEF Init, TypeOK
<1> QED
    BY <1>2, <1>4, <1>5 DEF DriftIInv

(* A server stamps its answer before it arrives. *)
LEMMA PollsStayBounded ==
    ASSUME ClockTypes, PollsBounded, StampsFromStart, [Next]_vars
    PROVE  PollsBounded'
<1>1. /\ ticks \in Nat /\ start \in Nat /\ MaxPolls \in Nat
      /\ ntp.polls \in Nat /\ ntp.stamp \in Int
      /\ late \in Int
    BY Constants DEF ClockTypes, Ntp, StampsFromStart, Never
<1>2. late <= Utc /\ Utc \in Int
    BY <1>1 DEF PollsBounded, Utc
<1>3. CASE Tick
    <2>1. ticks' = ticks + 1 /\ UNCHANGED <<start, pc, ntp, late>>
        BY <1>3 DEF Tick
    <2>2. Utc' = Utc + 1
        BY <2>1, <1>1 DEF Utc
    <2> QED
        BY <2>1, <2>2, <1>1, <1>2 DEF PollsBounded
<1>4. CASE NoAnswer
    <2>1. /\ pc = "poll" /\ pc' = "poll" /\ ticks' = ticks + 1
          /\ UNCHANGED <<start, late>> /\ ntp.polls <= MaxPolls
          /\ ntp' = [ntp EXCEPT !.polls = @ + 1]
        BY <1>4 DEF NoAnswer, Polling
    <2>2. Utc' = Utc + 1
        BY <2>1, <1>1 DEF Utc
    <2>3. ntp'.polls = ntp.polls + 1
        BY <2>1 DEF ClockTypes, Ntp
    <2> QED
        BY <2>1, <2>2, <2>3, <1>1, <1>2 DEF PollsBounded, Reads
<1>5. CASE Answer
    <2>1. /\ pc = "poll" /\ pc' = "prevMs" /\ ticks' = ticks + 1
          /\ start' = start /\ ntp.polls <= MaxPolls
          /\ late' \in {Never, Utc + 1}
        BY <1>5 DEF Answer, Polling
    <2>2. PICK stamp \in {late, Utc - ntp.polls, Utc + 1} :
              ntp' = [ntp EXCEPT !.polls = @ + 1, !.stamp = stamp]
        BY <1>5 DEF Answer
    <2>3. Utc' = Utc + 1 /\ Utc >= 0
        BY <2>1, <1>1 DEF Utc
    <2>4. ntp'.polls = ntp.polls + 1 /\ ntp'.stamp = stamp
        BY <2>2 DEF ClockTypes, Ntp
    <2>5. ntp.polls <= ticks
        BY <2>1 DEF StampsFromStart
    <2>6. stamp <= Utc + 1 /\ late' <= Utc + 1
        BY <2>1, <2>3, <1>1, <1>2 DEF Never
    <2> QED
        BY <2>1, <2>3, <2>4, <2>5, <2>6, <1>1 DEF PollsBounded
<1>6. CASE GiveUp
    <2>1. /\ ticks' = ticks + 1 /\ start' = start /\ pc' \in {"second", "use"}
          /\ late' \in {late, Utc + 1}
        BY <1>6 DEF GiveUp, Polling, Back
    <2>2. Utc' = Utc + 1
        BY <2>1, <1>1 DEF Utc
    <2> QED
        BY <2>1, <2>2, <1>1, <1>2 DEF PollsBounded, Asking, Reads
<1>7. CASE ReadPrevMs \/ ReadPrevEpoch \/ ReadCurMs
    <2>1. /\ pc \in Reads /\ UNCHANGED <<ticks, start, late>>
        BY <1>7 DEF ReadPrevMs, ReadPrevEpoch, ReadCurMs, Part, world, Reads
    <2>2. ntp'.polls = ntp.polls /\ ntp'.stamp = ntp.stamp
        BY <1>7 DEF ReadPrevMs, ReadPrevEpoch, ReadCurMs, ClockTypes, Ntp
    <2> QED
        BY <2>1, <2>2 DEF PollsBounded, Asking, Utc
<1>8. CASE StartUpdate
    <2>1. /\ pc' = "poll" /\ ntp' = NoNtp /\ UNCHANGED <<ticks, start, late>>
        BY <1>8 DEF StartUpdate, Reading, world
    <2> QED
        BY <2>1, <1>1, <1>2 DEF PollsBounded, Reads, Utc, NoNtp
<1>9. CASE \/ ReadSecond \/ SameSecond \/ NotDue \/ Slew \/ FinishUpdate \/ UseTime
    <2>1. /\ pc' \notin Asking /\ UNCHANGED <<ticks, start, late>>
        BY <1>9 DEF ReadSecond, SameSecond, NotDue, Slew, FinishUpdate, UseTime,
                    Reading, Back, world, Asking, Reads
    <2> QED
        BY <2>1, <1>2 DEF PollsBounded, Asking, Utc
<1>10. CASE UNCHANGED vars
    BY <1>10 DEF vars, PollsBounded, Utc
<1> QED
    BY <1>3, <1>4, <1>5, <1>6, <1>7, <1>8, <1>9, <1>10 DEF Next

(* Each reading stays as long ago as ticks passed since.                   *)
LEMMA ReadsStayInOrder ==
    ASSUME ClockTypes, PollsBounded, ReadInOrder, [Next]_vars
    PROVE  ReadInOrder'
<1>1. /\ ticks \in Nat /\ start \in Nat /\ epocMS \in Int /\ stall \in 0 .. MaxStall
      /\ MaxStall \in Nat /\ ntp.polls \in Nat /\ ntp.stamp \in Int
    BY Constants DEF ClockTypes, Ntp
<1>2. ASSUME pc' \notin {"prevEpoch", "curMs", "curEpoch"}, stall' \in 0 .. MaxStall
      PROVE  ReadInOrder'
    <2>1. 0 \in 0 .. MaxStall - stall' /\ 0 \in 0 .. 0
        <3>1. \A left \in 0 .. MaxStall : 0 \in 0 .. MaxStall - left /\ 0 \in 0 .. 0
            BY <1>1
        <3> QED
            BY <3>1, <1>2
    <2> QED
        BY <2>1, <1>2 DEF ReadInOrder
<1> DEFINE Were(t1, t2, t3) ==
        /\ pc \in {"prevEpoch", "curMs", "curEpoch"} =>
              ntp.prevMs = Ago(t1) % Second
        /\ pc \in {"curMs", "curEpoch"} =>
              ntp.prevEpoch = currentEpoc + Ago(t2) \div Second
        /\ pc = "curEpoch" =>
              /\ ntp.curMs = Ago(t3) % Second
              /\ ntp.ms = (ticks - t3) % Wrap
              /\ ntp.polls + t3 <= ticks /\ ntp.stamp + t3 <= Utc
<1>3. PICK t1 \in 0 .. MaxStall - stall, t2 \in Int, t3 \in Int :
          t2 \in 0 .. t1 /\ t3 \in 0 .. t2 /\ Were(t1, t2, t3)
    BY DEF ReadInOrder
<1>4. t1 \in Int /\ t1 <= MaxStall - stall /\ 0 <= t3 /\ t3 <= t2 /\ t2 <= t1
    BY <1>1, <1>3
<1>5. ASSUME NEW u1 \in 0 .. MaxStall - stall', NEW u2 \in 0 .. u1,
             NEW u3 \in 0 .. u2, Were(u1, u2, u3)'
      PROVE  ReadInOrder'
    BY <1>5 DEF ReadInOrder
<1>6. CASE Tick
    <2>1. /\ ticks' = ticks + 1 /\ stall' = stall - 1
          /\ UNCHANGED <<start, epocMS, currentEpoc, pc, ntp>>
        BY <1>6 DEF Tick, client
    <2>2. ASSUME NEW t \in Int PROVE Ago(t + 1)' = Ago(t)
        <3>1. (ticks + 1) - (t + 1) - epocMS = ticks - t - epocMS
            BY <1>1
        <3> QED
            BY <3>1, <2>1 DEF Ago
    <2>3. /\ t1 + 1 \in 0 .. MaxStall - stall' /\ t2 + 1 \in 0 .. t1 + 1
          /\ t3 + 1 \in 0 .. t2 + 1
        BY <2>1, <1>1, <1>3, <1>4
    <2>4. /\ Ago(t1 + 1)' = Ago(t1) /\ Ago(t2 + 1)' = Ago(t2)
          /\ Ago(t3 + 1)' = Ago(t3)
        BY <2>2, <1>3, <1>4
    <2>5. /\ ticks' - (t3 + 1) = ticks - t3 /\ Utc' = Utc + 1
          /\ Utc \in Int
        BY <2>1, <1>1, <1>3 DEF Utc
    <2>6. Were(t1 + 1, t2 + 1, t3 + 1)'
        BY <2>1, <2>4, <2>5, <1>1, <1>3
    <2> HIDE DEF Were
    <2> QED
        BY <2>3, <2>6, <1>5
<1>7. CASE ReadPrevMs
    <2>1. /\ pc' = "prevEpoch" /\ ntp' = [ntp EXCEPT !.prevMs = GetMillis]
          /\ UNCHANGED <<ticks, epocMS, stall>>
        BY <1>7 DEF ReadPrevMs, Part, client, world
    <2>2. ntp'.prevMs = Ago(0) % Second /\ Ago(0)' = Ago(0)
        BY <2>1, AgoIs DEF ClockTypes, Ntp, Ago
    <2>3. 0 \in 0 .. MaxStall - stall' /\ 0 \in 0 .. 0
        BY <2>1, <1>1
    <2>4. Were(0, 0, 0)'
        BY <2>1, <2>2
    <2> HIDE DEF Were
    <2> QED
        BY <2>3, <2>4, <1>5
<1>8. CASE ReadPrevEpoch
    <2>1. /\ pc = "prevEpoch" /\ pc' = "curMs"
          /\ ntp' = [ntp EXCEPT !.prevEpoch = GetEpochTime]
          /\ UNCHANGED <<ticks, epocMS, currentEpoc, stall>>
        BY <1>8 DEF ReadPrevEpoch, Part, client, world
    <2>2. /\ ntp'.prevMs = ntp.prevMs
          /\ ntp'.prevEpoch = currentEpoc + Ago(0) \div Second
        BY <2>1, AgoIs DEF ClockTypes, Ntp
    <2>3. Ago(0)' = Ago(0) /\ Ago(t1)' = Ago(t1)
        BY <2>1 DEF Ago
    <2>4. t1 \in 0 .. MaxStall - stall' /\ 0 \in 0 .. t1 /\ 0 \in 0 .. 0
        BY <2>1, <1>1, <1>3, <1>4
    <2>5. Were(t1, 0, 0)'
        BY <2>1, <2>2, <2>3, <1>3
    <2> HIDE DEF Were
    <2> QED
        BY <2>4, <2>5, <1>5
<1>9. CASE ReadCurMs
    <2>1. /\ pc = "curMs" /\ pc' = "curEpoch"
          /\ ntp' = [ntp EXCEPT !.ms = Millis, !.curMs = GetMillis]
          /\ UNCHANGED <<ticks, start, epocMS, currentEpoc, stall>>
        BY <1>9 DEF ReadCurMs, Part, client, world
    <2>2. /\ ntp'.prevMs = ntp.prevMs /\ ntp'.prevEpoch = ntp.prevEpoch
          /\ ntp'.curMs = Ago(0) % Second /\ ntp'.ms = Millis
          /\ ntp'.polls = ntp.polls /\ ntp'.stamp = ntp.stamp
        BY <2>1, AgoIs DEF ClockTypes, Ntp
    <2>3. /\ Ago(0)' = Ago(0) /\ Ago(t1)' = Ago(t1) /\ Ago(t2)' = Ago(t2)
        BY <2>1 DEF Ago
    <2>4. /\ t1 \in 0 .. MaxStall - stall' /\ t2 \in 0 .. t1 /\ 0 \in 0 .. t2
        BY <2>1, <1>1, <1>3, <1>4
    <2>5. Millis = (ticks - 0) % Wrap
        BY <1>1 DEF Millis
    <2>6. ntp.polls <= ticks /\ ntp.stamp <= Utc /\ Utc' = Utc
        BY <2>1 DEF PollsBounded, Reads, Utc
    <2>7. ntp.polls + 0 <= ticks /\ ntp.stamp + 0 <= Utc
        BY <2>6, <1>1
    <2>8. Were(t1, t2, 0)'
        BY <2>1, <2>2, <2>3, <2>5, <2>6, <2>7, <1>3
    <2> HIDE DEF Were
    <2> QED
        BY <2>4, <2>8, <1>5
<1>10. CASE \/ ReadSecond \/ SameSecond \/ StartUpdate \/ NotDue \/ Slew
            \/ NoAnswer \/ Answer \/ GiveUp \/ FinishUpdate \/ UseTime
    <2>1. pc' \notin {"prevEpoch", "curMs", "curEpoch"}
        BY <1>10 DEF ReadSecond, SameSecond, StartUpdate, NotDue, Slew, NoAnswer,
                     Answer, GiveUp, FinishUpdate, UseTime, Reading, Polling, Back
    <2>2. stall' \in {stall, MaxStall}
        BY <1>10 DEF ReadSecond, SameSecond, StartUpdate, NotDue, Slew, NoAnswer,
                     Answer, GiveUp, FinishUpdate, UseTime, Reading, Polling
    <2> QED
        BY <2>1, <2>2, <1>1, <1>2
<1>11. CASE UNCHANGED vars
    BY <1>11 DEF vars, client, ReadInOrder, Ago, Utc
<1> QED
    BY <1>6, <1>7, <1>8, <1>9, <1>10, <1>11 DEF Next

(* What there is to slew was a drift.                                      *)
LEMMA DriftStaysSmall ==
    ASSUME ClockTypes, ClockTypes', ReadInOrder, TypeOK, [Next]_vars
    PROVE  TypeOK'
<1>1. {lastUpdate, lastSlew, epocMS}' \subseteq 0 .. Wrap - 1 /\ sec' \in 0 .. InBegin
    BY DEF ClockTypes
<1>2. driftMS \in -2 * Second .. 2 * Second /\ Second \in Nat \ {0}
    BY Constants DEF TypeOK
<1>3. driftMS' \in -2 * Second .. 2 * Second
    <2>1. CASE Slew
        <3>1. driftMS' \in {driftMS, driftMS - Sign(driftMS)}
            BY <2>1 DEF Slew
        <3> QED
            BY <3>1, <1>2 DEF Sign
    <2>2. CASE FinishUpdate
        <3>1. CASE IsSynced
            <4>1. pc = "curEpoch" /\ CorrectClock
                BY <2>2, <3>1 DEF FinishUpdate
            <4>2. driftMS' = Drift
                BY <4>1, CorrectLeavesBase
            <4>3. Drift \in -(2 * Second - 1) .. 2 * Second - 1
                BY <4>1, DriftBound
            <4> QED
                BY <4>2, <4>3, <1>2
        <3>2. CASE ~IsSynced
            <4>1. driftMS' = 0
                BY <2>2, <3>2 DEF FinishUpdate, SetClock
            <4> QED
                BY <4>1, <1>2
        <3> QED
            BY <3>1, <3>2
    <2>3. CASE driftMS' = driftMS
        BY <2>3, <1>2
    <2>4. Slew \/ FinishUpdate \/ driftMS' = driftMS
        BY DEF Next, Tick, ReadSecond, SameSecond, StartUpdate, NotDue, NoAnswer,
               Answer, GiveUp, ReadPrevMs, ReadPrevEpoch, ReadCurMs, UseTime,
               Reading, Polling, Part, client, vars
    <2> QED
        BY <2>1, <2>2, <2>3, <2>4
<1> QED
    BY <1>1, <1>3 DEF TypeOK

(* The invariant holds in every state.                                     *)
LEMMA DriftInvariance == Spec => []DriftIInv
<1>1. DriftIInv /\ ClockIInv /\ ClockIInv' /\ [Next]_vars => DriftIInv'
    BY PollsStayBounded, ReadsStayInOrder, DriftStaysSmall DEF DriftIInv, ClockIInv
<1> QED
    BY DriftInit, ClockInvariance, <1>1, PTL DEF Spec

(***************************************************************************)
(* Every counter of the clock keeps its width, and the drift to be slewed  *)
(* is less than two seconds, whatever millis() does in an update.          *)
(***************************************************************************)
THEOREM TypeCorrect == Spec => []TypeOK
<1>1. DriftIInv => TypeOK
    BY DEF DriftIInv
<1> QED
    BY <1>1, DriftInvariance, PTL
-----------------------------------------------------------------------------
(* Each slew comes a minute after the last one. *)
LEMMA SlewsGrow ==
    ASSUME NEW a \in Nat, NEW b \in Nat, a <= b
    PROVE  /\ SlewsAt(a) \in Nat /\ SlewsAt(b) \in Nat
           /\ SlewsAt(a) <= SlewsAt(b)
           /\ b - a >= Minute * Second => SlewsAt(a) + 1 <= SlewsAt(b)
<1> DEFINE m == Minute * Second
           h == a \div m
<1>1. m \in Nat \ {0}
    BY Constants
<1> HIDE DEF m
<1>2. h \in Nat /\ b \div m \in Nat /\ a % m \in 0 .. m - 1 /\ a = m * h + (a % m)
    <2>1. h \in Nat /\ b \div m \in Nat
        BY <1>1, DivNat
    <2> QED
        BY <2>1, <1>1, DivMod
<1> HIDE DEF h
<1>3. h \in Int /\ h + 1 \in Int /\ b \in Int /\ m * (h + 1) = m * h + m
    BY <1>1, <1>2
<1>4. h <= b \div m
    <2>1. m * h <= b
        BY <1>1, <1>2
    <2> QED
        BY <2>1, <1>1, <1>3, DivBounds
<1>5. b - a >= m => h + 1 <= b \div m
    <2>1. b - a >= m => m * (h + 1) <= b
        BY <1>1, <1>2, <1>3
    <2> QED
        BY <2>1, <1>1, <1>3, DivBounds
<1> QED
    BY <1>2, <1>4, <1>5 DEF SlewsAt, m, h

(* A tick later the clock shows a tick more.                               *)
LEMMA SinceGoesOn ==
    ASSUME ClockTypes, ticks' = ticks + 1, epocMS' = epocMS
    PROVE  Since(epocMS)' = (Since(epocMS) + 1) % Wrap
<1>1. ticks \in Int /\ epocMS \in Int /\ ticks + 1 \in Int /\ Wrap \in Nat \ {0}
    BY Constants DEF ClockTypes
<1>2. Since(epocMS) = (ticks - epocMS) % Wrap
    BY <1>1, SinceAt DEF Since, Millis
<1>3. Since(epocMS)' = ((ticks + 1) - epocMS) % Wrap
    <2>1. (((ticks + 1) % Wrap) + Wrap - epocMS) % Wrap = ((ticks + 1) - epocMS) % Wrap
        BY <1>1, SinceAt
    <2> QED
        BY <2>1 DEF Since, Millis
<1>4. ticks - epocMS \in Int /\ (ticks + 1) - epocMS = (ticks - epocMS) + 1
    BY <1>1
<1>5. (((ticks - epocMS) % Wrap) + 1) % Wrap = ((ticks - epocMS) + 1) % Wrap
    <2>1. ticks - epocMS \in Int /\ 1 \in Int /\ Wrap \in Nat \ {0}
        BY <1>1, <1>4
    <2> QED
        BY ONLY <2>1, ModShift
<1> QED
    BY <1>2, <1>3, <1>4, <1>5

(* Slewing shows a tick more or less.                                      *)
LEMMA SinceSlewed ==
    ASSUME ClockTypes, NEW n \in Int, ticks' = ticks,
           epocMS' = (epocMS + Wrap + n) % Wrap
    PROVE  Since(epocMS)' = (Since(epocMS) - n) % Wrap
<1>1. ticks \in Int /\ epocMS \in Int /\ Wrap \in Nat \ {0}
    BY Constants DEF ClockTypes
<1> DEFINE b == epocMS + Wrap + n
           q == b \div Wrap
           r == b % Wrap
<1>2. b \in Int
    BY <1>1
<1>3. q \in Int /\ r \in Int /\ b = Wrap * q + r
    BY <1>1, <1>2, DivMod
<1>4. Since(epocMS)' = (ticks - r) % Wrap
    <2>1. ((ticks % Wrap) + Wrap - r) % Wrap = (ticks - r) % Wrap
        BY <1>1, <1>3, SinceAt
    <2> QED
        BY <2>1 DEF Since, Millis
<1>5. Since(epocMS) = (ticks - epocMS) % Wrap
    BY <1>1, SinceAt DEF Since, Millis
<1> HIDE DEF q, r
<1>6. (ticks - r) % Wrap = (ticks - epocMS - n) % Wrap
    <2> DEFINE y == ticks - epocMS - n
               s == y \div Wrap
               t == y % Wrap
    <2>1. y \in Int
        BY <1>1
    <2>2. s \in Int /\ t \in 0 .. Wrap - 1 /\ y = Wrap * s + t
        BY <1>1, <2>1, DivMod
    <2> HIDE DEF s, t
    <2>3. ticks - r = (s + q - 1) * Wrap + t
        BY <1>1, <1>3, <2>2
    <2>4. s + q - 1 \in Int
        BY <1>3, <2>2
    <2>5. ((s + q - 1) * Wrap + t) % Wrap = t
        BY <1>1, <2>2, <2>4, ModUnique
    <2> QED
        BY <2>3, <2>5 DEF t
<1>7. ticks - epocMS \in Int /\ -n \in Int
    BY <1>1
<1>8. (((ticks - epocMS) % Wrap) + (-n)) % Wrap = ((ticks - epocMS) + (-n)) % Wrap
    BY <1>1, <1>7, ModShift
<1>9. (ticks - epocMS) + (-n) = ticks - epocMS - n
    BY <1>1
<1>10. Since(epocMS) + (-n) = Since(epocMS) - n
    BY Readings, <1>1
<1> QED
    BY <1>4, <1>5, <1>6, <1>8, <1>9, <1>10

(* It was early before it is. *)
LEMMA EarlyBefore ==
    ASSUME ClockTypes, ticks' \in {ticks, ticks + 1}, Early'
    PROVE  /\ Early /\ Slewed \in Nat
           /\ ticks' = ticks + 1 => ticks + 1 + Second + Slewed < Wrap
<1>1. /\ ticks \in Nat /\ ticks' \in Nat /\ ticks <= ticks'
      /\ Wrap \in Nat \ {0} /\ Second \in Nat \ {0}
    BY Constants DEF ClockTypes
<1>2. SlewsAt(ticks) \in Nat /\ SlewsAt(ticks') \in Nat /\ SlewsAt(ticks) <= SlewsAt(ticks')
    BY <1>1, SlewsGrow
<1>3. Slewed = SlewsAt(ticks) + 1 /\ Slewed' = SlewsAt(ticks') + 1
    BY DEF Slewed, SlewsAt
<1>4. ticks' + Second + Slewed' < Wrap
    BY DEF Early
<1> QED
    BY <1>1, <1>2, <1>3, <1>4 DEF Early

(* The clock goes with the time. *)
LEMMA KeepsAsTimePasses ==
    ASSUME ClockTypes, KeepsIInv, Early', ticks' = ticks + 1,
           UNCHANGED <<start, lastUpdate, lastSlew, epocMS, currentEpoc, age>>
    PROVE  KeepsIInv'
<1>1. /\ ticks \in Nat /\ start \in Nat /\ lastSlew \in Nat /\ age \in Int
      /\ Second \in Nat /\ Wrap \in Nat \ {0} /\ MaxPolls \in Nat
    BY Constants DEF ClockTypes, KeepsIInv
<1>2. Early /\ Slewed \in Nat /\ ticks + 1 + Second + Slewed < Wrap
    BY EarlyBefore
<1>3. lastSlew <= ticks
    BY <1>2 DEF KeepsIInv
<1> DEFINE n == SlewsAt(lastSlew)
           e == Since(epocMS)
           p == currentEpoc * Second
<1>4. n \in Nat /\ n + 1 <= Slewed
    <2>1. n \in Nat /\ SlewsAt(ticks) \in Nat /\ n <= SlewsAt(ticks)
        BY <1>1, <1>3, SlewsGrow
    <2>2. Slewed = SlewsAt(ticks) + 1
        BY DEF Slewed, SlewsAt
    <2> QED
        BY <2>1, <2>2
<1>5. e \in 0 .. Wrap - 1 /\ p \in Int
    <2>1. epocMS \in Int /\ currentEpoc \in Int
        BY <1>1 DEF ClockTypes
    <2> QED
        BY <2>1, <1>1, Readings
<1>6. SlewsAt(lastSlew)' = n /\ (currentEpoc * Second)' = p /\ age' = age
    BY DEF SlewsAt
<1>7. Utc' = Utc + 1 /\ Utc \in Int
    BY <1>1 DEF Utc
<1>8. ASSUME IsSynced PROVE NotFarOff'
    <2>1. /\ p + e - Utc \in -age - Second - n .. MaxPolls + 2 + n
          /\ e >= 1 \/ e >= ticks - lastSlew
          /\ e <= ticks + Second + n
        BY <1>2, <1>8 DEF KeepsIInv, NotFarOff
    <2>2. Since(epocMS)' = e + 1
        <3>1. Since(epocMS)' = (e + 1) % Wrap
            BY SinceGoesOn
        <3> HIDE DEF e, n
        <3>2. e + 1 < Wrap /\ 1 \in 0 .. Wrap
            BY <1>1, <1>2, <1>4, <1>5, <2>1
        <3> QED
            BY <3>1, <3>2, <1>1, <1>5, ModCarry
    <2> HIDE DEF e, n, p
    <2>3. p + (e + 1) - (Utc + 1) = p + e - Utc
        BY <1>5, <1>7, <1>1
    <2>4. /\ e + 1 >= 1 /\ e + 1 <= (ticks + 1) + Second + n
        BY <1>1, <1>4, <1>5, <2>1
    <2> QED
        BY <2>1, <2>2, <2>3, <2>4, <1>6, <1>7 DEF NotFarOff
<1> QED
    BY <1>1, <1>3, <1>8 DEF KeepsIInv, IsSynced

(* A slew costs a tick, once in a minute.                                  *)
LEMMA KeepsAsSlewed ==
    ASSUME ClockTypes, KeepsIInv, Early', ticks' = ticks, lastSlew' = Millis,
           IsSynced, Since(lastSlew) >= Minute * Second,
           epocMS' = (epocMS + Wrap + Sign(driftMS)) % Wrap,
           UNCHANGED <<start, lastUpdate, currentEpoc, age>>
    PROVE  KeepsIInv'
<1>1. /\ ticks \in Nat /\ start \in Nat /\ lastSlew \in Nat /\ age \in Int
      /\ Second \in Nat \ {0} /\ Wrap \in Nat \ {0} /\ MaxPolls \in Nat
      /\ Minute * Second >= 1
    BY Constants DEF ClockTypes, KeepsIInv
<1>2. Early /\ Slewed \in Nat /\ ticks + Second + Slewed < Wrap
    BY EarlyBefore DEF Early
<1>3. lastSlew <= ticks /\ NotFarOff
    BY <1>2 DEF KeepsIInv
<1>4. Millis = ticks
    <2>1. /\ ticks \in -Wrap .. 2 * Wrap - 1 /\ ticks >= 0 /\ ticks < Wrap
          /\ Wrap \in Nat \ {0}
        BY <1>1, <1>2
    <2>2. ticks % Wrap = ticks
        BY ONLY <2>1, ModNear
    <2> QED
        BY <2>2 DEF Millis
<1>5. ticks - lastSlew >= Minute * Second
    <2>1. Since(lastSlew) = (ticks - lastSlew) % Wrap
        <3>1. ticks \in Int /\ lastSlew \in Int
            BY <1>1
        <3>2. ((ticks % Wrap) + Wrap - lastSlew) % Wrap = (ticks - lastSlew) % Wrap
            BY ONLY <3>1, SinceAt
        <3> QED
            BY <3>2 DEF Since, Millis
    <2>2. ticks - lastSlew \in -Wrap .. 2 * Wrap - 1 /\ ticks - lastSlew < Wrap
          /\ ticks - lastSlew >= 0
        BY <1>1, <1>2, <1>3
    <2>3. (ticks - lastSlew) % Wrap = ticks - lastSlew
        BY <2>2, <1>1, ModNear
    <2> QED
        BY <2>1, <2>3
<1> DEFINE n == SlewsAt(lastSlew)
           k == SlewsAt(ticks)
           e == Since(epocMS)
           p == currentEpoc * Second
           s == Sign(driftMS)
<1>6. n \in Nat /\ k \in Nat /\ n + 1 <= k /\ Slewed = k + 1
    BY <1>1, <1>3, <1>5, SlewsGrow DEF Slewed, SlewsAt
<1>7. e \in 0 .. Wrap - 1 /\ p \in Int /\ s \in -1 .. 1
    <2>1. epocMS \in Int /\ currentEpoc \in Int
        BY <1>1 DEF ClockTypes
    <2> QED
        BY <2>1, <1>1, Readings DEF Sign
<1>8. /\ p + e - Utc \in -age - Second - n .. MaxPolls + 2 + n
      /\ e >= 1 \/ e >= ticks - lastSlew
      /\ e <= ticks + Second + n
    BY <1>3 DEF NotFarOff
<1>9. Since(epocMS)' = (e - s) % Wrap
    BY <1>7, SinceSlewed
<1>10. SlewsAt(lastSlew)' = k /\ (currentEpoc * Second)' = p /\ Utc' = Utc /\ Utc \in Int
    BY <1>1, <1>4 DEF SlewsAt, Utc
<1> HIDE DEF n, k, e, p, s
<1>11. e - s >= 0 /\ e - s < Wrap /\ e - s \in -Wrap .. 2 * Wrap - 1
    <2>1. ticks - lastSlew >= 1
        BY <1>1, <1>5, Constants
    <2>2. e - s >= 0
        BY <2>1, <1>1, <1>7, <1>8
    <2>3. e - s < Wrap
        BY <1>1, <1>2, <1>6, <1>7, <1>8
    <2> QED
        BY <2>2, <2>3, <1>1, <1>7
<1>12. Since(epocMS)' = e - s
    BY <1>9, <1>11, <1>1, ModNear
<1>13. p + (e - s) - Utc \in -age - Second - k .. MaxPolls + 2 + k
    BY <1>1, <1>6, <1>7, <1>8, <1>10
<1>14. e - s >= ticks - lastSlew' /\ e - s <= ticks + Second + k
    BY <1>1, <1>4, <1>6, <1>7, <1>8, <1>11
<1>15. NotFarOff'
    BY <1>10, <1>12, <1>13, <1>14 DEF NotFarOff
<1> QED
    BY <1>1, <1>4, <1>15 DEF KeepsIInv

(* The first answer sets the clock, to the second and an eighth of the     *)
(* fraction, and behind the time it was read by the polls.                 *)
LEMMA KeepsAsSet ==
    ASSUME ClockTypes, KeepsIInv, PollsBounded, ReadInOrder, Early',
           pc = "curEpoch", SetClock, UNCHANGED <<ticks, start, lastSlew>>
    PROVE  KeepsIInv'
<1>1. /\ ticks \in Nat /\ start \in Nat /\ lastSlew \in Nat
      /\ Second \in Nat \ {0} /\ Wrap \in Nat \ {0} /\ MaxPolls \in Nat
      /\ ntp.polls \in Nat /\ ntp.stamp \in Int /\ ntp.ms \in 0 .. Wrap - 1
    BY Constants DEF ClockTypes, Ntp
<1>2. Early /\ Slewed \in Nat /\ ticks + Second + Slewed < Wrap
    BY EarlyBefore DEF Early
<1>3. lastSlew <= ticks
    BY <1>2 DEF KeepsIInv
<1>4. PICK t3 \in Nat : /\ ntp.ms = (ticks - t3) % Wrap
                        /\ ntp.polls + t3 <= ticks /\ ntp.stamp + t3 <= Utc
    <2>1. PICK t1 \in 0 .. MaxStall - stall, t2 \in Int, t3 \in Int :
              /\ t2 \in 0 .. t1 /\ t3 \in 0 .. t2
              /\ ntp.ms = (ticks - t3) % Wrap
              /\ ntp.polls + t3 <= ticks /\ ntp.stamp + t3 <= Utc
        BY DEF ReadInOrder
    <2> QED
        BY <2>1
<1> DEFINE x == ntp.stamp % Second
           q == ntp.stamp \div Second
           m == Mssec
           k == SlewsAt(lastSlew)
<1>5. x \in 0 .. Second - 1 /\ m \in 0 .. x
    BY <1>1, MssecBound
<1>6. q \in Int /\ ntp.stamp = Second * q + x
    BY <1>1, DivMod
<1>7. k \in Nat
    BY <1>1, <1>3, SlewsGrow
<1>8. ntp.ms = ticks - t3
    <2>1. ticks - t3 \in -Wrap .. 2 * Wrap - 1 /\ ticks - t3 >= 0 /\ ticks - t3 < Wrap
        BY <1>1, <1>2, <1>4
    <2> QED
        BY <2>1, <1>1, <1>4, ModNear
<1>9. /\ currentEpoc' = q /\ age' = Utc - ntp.stamp
      /\ epocMS' = (ntp.ms + Wrap - (ntp.polls + 1) - m) % Wrap
    BY DEF SetClock, Secs
<1> DEFINE e == t3 + ntp.polls + 1 + m
<1>10. e \in 1 .. ticks + Second /\ e < Wrap
    BY <1>1, <1>2, <1>4, <1>5
<1>11. Since(epocMS)' = e
    <2> DEFINE b == ntp.ms + Wrap - (ntp.polls + 1) - m
    <2>1. b \in -Wrap .. 2 * Wrap - 1 /\ b >= 0
        BY <1>1, <1>2, <1>4, <1>5, <1>8
    <2>2. /\ b < Wrap => epocMS' = b
          /\ b >= Wrap => epocMS' = b - Wrap
        <3>1. epocMS' = b % Wrap
            BY <1>9
        <3>2. /\ b \in Int /\ b \in -Wrap .. 2 * Wrap - 1 /\ b >= 0
              /\ Wrap \in Nat \ {0}
            BY <2>1, <1>1
        <3> HIDE DEF b
        <3>3. (b < Wrap => b % Wrap = b) /\ (b >= Wrap => b % Wrap = b - Wrap)
            BY ONLY <3>2, ModNear
        <3> QED
            BY <3>1, <3>3
    <2>3. ticks - epocMS' \in {e - Wrap, e} /\ epocMS' \in Int
        <3>1. b = ticks - e + Wrap
            BY <1>1, <1>5, <1>8
        <3>2. e \in Int /\ b \in Int
            BY <1>1, <1>5
        <3> HIDE DEF b, e
        <3> QED
            BY <3>1, <3>2, <2>2, <1>1
    <2>4. Since(epocMS)' = (ticks - epocMS') % Wrap
        <3>1. \A ms \in Int : ((ticks % Wrap) + Wrap - ms) % Wrap = (ticks - ms) % Wrap
            <4>1. ticks \in Int
                BY <1>1
            <4> QED
                BY ONLY <4>1, SinceAt
        <3>2. ((ticks % Wrap) + Wrap - epocMS') % Wrap = (ticks - epocMS') % Wrap
            BY <3>1, <2>3
        <3> QED
            BY <3>2 DEF Since, Millis
    <2> HIDE DEF e, b
    <2>5. e \in -Wrap .. 2 * Wrap - 1 /\ e - Wrap \in -Wrap .. 2 * Wrap - 1
          /\ e \in Int /\ e - Wrap < 0 /\ e >= 0
        BY <1>1, <1>2, <1>10
    <2>6. e % Wrap = e /\ (e - Wrap) % Wrap = e - Wrap + Wrap
        BY <2>5, <1>1, <1>10, ModNear
    <2>7. (e - Wrap) % Wrap = e
        BY <2>5, <2>6, <1>1
    <2> QED
        BY <2>3, <2>4, <2>6, <2>7
<1>12. Utc \in Int /\ Utc' = Utc /\ ntp.polls <= MaxPolls + 1
    BY <1>1 DEF Utc, PollsBounded, Asking, Reads
<1>13. q * Second = ntp.stamp - x
    BY <1>1, <1>5, <1>6
<1> HIDE DEF x, q, m, k
<1>14. q * Second + e - Utc \in -age' - Second - k .. MaxPolls + 2 + k
    BY <1>1, <1>4, <1>5, <1>7, <1>9, <1>12, <1>13
<1>15. e >= 1 /\ e <= ticks + Second + k
    BY <1>1, <1>7, <1>10
<1>16. SlewsAt(lastSlew)' = k
    BY DEF SlewsAt, k
<1>17. NotFarOff'
    BY <1>9, <1>11, <1>12, <1>14, <1>15, <1>16 DEF NotFarOff
<1>18. age' \in Int /\ (lastSlew <= ticks)'
    BY <1>1, <1>3, <1>9, <1>12
<1> QED
    BY <1>17, <1>18 DEF KeepsIInv

(* Nothing else touches the base. *)
LEMMA KeepsAsBefore ==
    ASSUME KeepsIInv, IsSynced' => IsSynced,
           UNCHANGED <<ticks, start, lastSlew, epocMS, currentEpoc, age>>
    PROVE  KeepsIInv'
<1>1. Early' = Early /\ Since(epocMS)' = Since(epocMS) /\ Utc' = Utc
      /\ SlewsAt(lastSlew)' = SlewsAt(lastSlew)
    BY DEF Early, Slewed, Since, Millis, Utc, SlewsAt
<1>2. NotFarOff => NotFarOff'
    BY <1>1 DEF NotFarOff
<1> QED
    BY <1>1, <1>2 DEF KeepsIInv

LEMMA KeepsStep ==
    ClockIInv /\ DriftIInv /\ KeepsIInv /\ [Next]_vars => KeepsIInv'
<1> SUFFICES ASSUME ClockIInv, DriftIInv, KeepsIInv, [Next]_vars
             PROVE  KeepsIInv'
    OBVIOUS
<1>1. ClockTypes /\ PollsBounded /\ ReadInOrder
    BY DEF ClockIInv, DriftIInv
<1>2. age' \in Int
    <2>1. CASE age' = age
        BY <2>1 DEF KeepsIInv
    <2>2. CASE age' = Utc - ntp.stamp
        BY <2>2, <1>1, Constants DEF ClockTypes, Ntp, Utc
    <2>3. age' = age \/ age' = Utc - ntp.stamp
        BY DEF Next, Tick, ReadSecond, SameSecond, StartUpdate, NotDue, Slew, NoAnswer,
               Answer, GiveUp, ReadPrevMs, ReadPrevEpoch, ReadCurMs, FinishUpdate,
               CorrectClock, SetClock, UseTime, Reading, Polling, Part, ghosts, vars
    <2> QED
        BY <2>1, <2>2, <2>3
<1>3. CASE ~Early'
    BY <1>2, <1>3 DEF KeepsIInv
<1>4. CASE Early'
    <2>1. CASE Tick \/ NoAnswer \/ Answer \/ GiveUp
        <3>1. /\ ticks' = ticks + 1
              /\ UNCHANGED <<start, lastUpdate, lastSlew, epocMS, currentEpoc, age>>
            BY <2>1 DEF Tick, NoAnswer, Answer, GiveUp, Polling, client, ghosts
        <3> QED
            BY <3>1, <1>1, <1>4, KeepsAsTimePasses
    <2>2. CASE Slew /\ IsSynced /\ Since(lastSlew) >= Minute * Second
        <3>1. /\ ticks' = ticks /\ lastSlew' = Millis
              /\ epocMS' = (epocMS + Wrap + Sign(driftMS)) % Wrap
              /\ UNCHANGED <<start, lastUpdate, currentEpoc, age>>
            BY <2>2 DEF Slew, Reading, world, ghosts
        <3> QED
            BY <3>1, <2>2, <1>1, <1>4, KeepsAsSlewed
    <2>3. CASE FinishUpdate /\ ~IsSynced
        <3>1. pc = "curEpoch" /\ SetClock /\ UNCHANGED <<ticks, start, lastSlew>>
            BY <2>3 DEF FinishUpdate, world
        <3> QED
            BY <3>1, <1>1, <1>4, KeepsAsSet
    <2>4. CASE FinishUpdate /\ IsSynced
        <3>1. /\ pc = "curEpoch" /\ CorrectClock
              /\ UNCHANGED <<ticks, start, lastSlew, currentEpoc, age>>
            BY <2>4 DEF FinishUpdate, CorrectClock, world
        <3>2. epocMS' = epocMS
            BY <3>1, <1>1, CorrectLeavesBase
        <3> QED
            BY <3>1, <3>2, <2>4, KeepsAsBefore
    <2>5. CASE \/ ReadSecond \/ SameSecond \/ StartUpdate \/ NotDue \/ UseTime
               \/ Slew /\ ~(IsSynced /\ Since(lastSlew) >= Minute * Second)
               \/ ReadPrevMs \/ ReadPrevEpoch \/ ReadCurMs \/ UNCHANGED vars
        <3>1. UNCHANGED <<ticks, start, lastUpdate, lastSlew, epocMS, currentEpoc, age>>
            BY <2>5 DEF ReadSecond, SameSecond, StartUpdate, NotDue, Slew, UseTime,
                        ReadPrevMs, ReadPrevEpoch, ReadCurMs, Reading, Part,
                        client, world, ghosts, vars
        <3> QED
            BY <3>1, KeepsAsBefore DEF IsSynced
    <2> QED
        BY <2>1, <2>2, <2>3, <2>4, <2>5 DEF Next
<1> QED
    BY <1>3, <1>4

(* The invariant holds in every state.                                     *)
LEMMA KeepsInvariance == Spec => []KeepsIInv
<1>1. Init => KeepsIInv
    <2> SUFFICES ASSUME Init PROVE KeepsIInv
        OBVIOUS
    <2>1. ticks \in Nat
        BY NtpClockAssumption DEF Init
    <2> QED
        BY <2>1 DEF Init, KeepsIInv, IsSynced
<1> QED
    BY <1>1, KeepsStep, ClockInvariance, DriftInvariance, PTL DEF Spec

(***************************************************************************)
(* Until millis() wraps the clock is off by the age of the answer it was   *)
(* set by, a second or the polls, and a tick for each minute since the     *)
(* start.                                                                  *)
(***************************************************************************)
THEOREM ClockKeepsTime == Spec => []KeepsTime
<1>1. ClockIInv /\ KeepsIInv => KeepsTime
    <2> SUFFICES ASSUME ClockIInv, KeepsIInv, IsSynced, Early
                 PROVE  Ahead \in -age - Second - Slewed .. MaxPolls + 1 + Slewed
        BY DEF KeepsTime, Early
    <2>1. /\ ClockTypes /\ ticks \in Nat /\ start \in Nat /\ lastSlew \in Nat
          /\ lastSlew <= ticks /\ age \in Int /\ currentEpoc \in Int
          /\ Second \in Nat \ {0} /\ Wrap \in Nat \ {0} /\ MaxPolls \in Nat
          /\ epocMS \in Int
        BY Constants DEF ClockIInv, ClockTypes, KeepsIInv
    <2> DEFINE e == Since(epocMS)
               q == e \div Second
               r == e % Second
               p == currentEpoc * Second
               n == SlewsAt(lastSlew)
    <2>2. e \in 0 .. Wrap - 1
        BY <2>1, Readings
    <2>3. q \in Int /\ r \in Int /\ e = Second * q + r
        <3>1. e \in Int /\ Second \in Nat \ {0}
            BY <2>1, <2>2
        <3> HIDE DEF e
        <3> QED
            BY <3>1, DivMod
    <2>4. p + e - Utc \in -age - Second - n .. MaxPolls + 2 + n
        BY DEF KeepsIInv, NotFarOff
    <2>5. n \in Nat /\ Slewed \in Nat /\ n + 1 <= Slewed
        <3>1. n \in Nat /\ SlewsAt(ticks) \in Nat /\ n <= SlewsAt(ticks)
            BY <2>1, SlewsGrow
        <3>2. Slewed = SlewsAt(ticks) + 1
            BY DEF Slewed, SlewsAt
        <3> QED
            BY <3>1, <3>2
    <2>6. Ahead = (currentEpoc + q) * Second + r - Utc /\ Utc \in Int
        BY <2>1 DEF Ahead, GetEpochTime, GetMillis, Utc
    <2> HIDE DEF e, q, r, n
    <2>7. (currentEpoc + q) * Second + r = p + e /\ p \in Int
        BY <2>1, <2>3
    <2> HIDE DEF p
    <2>8. Ahead = p + e - Utc
        <3>1. (currentEpoc + q) * Second \in Int
            BY <2>1, <2>3
        <3> QED
            BY <3>1, <2>1, <2>2, <2>3, <2>6, <2>7
    <2>9. e \in Int /\ p + e - Utc \in Int
        BY <2>1, <2>2, <2>6, <2>7
    <2> QED
        BY <2>1, <2>4, <2>5, <2>8, <2>9
<1> QED
    BY <1>1, ClockInvariance, KeepsInvariance, PTL
-----------------------------------------------------------------------------
(* With time that passes, and slewing, the RTC follows as before.          *)
LEMMA FollowsOn ==
    ASSUME ClockTypes, NEW rho \in 0 .. Wrap - 1, NEW e \in Int, NEW k \in Int,
           Since(epocMS) = (rho + e) % Wrap,
           Since(epocMS)' = (Since(epocMS) + k) % Wrap
    PROVE  Since(epocMS)' = (rho + (e + k)) % Wrap
<1>1. Wrap \in Nat \ {0} /\ rho + e \in Int /\ k \in Int
    BY Constants
<1>2. (((rho + e) % Wrap) + k) % Wrap = ((rho + e) + k) % Wrap
    BY ONLY <1>1, ModShift
<1>3. (rho + e) + k = rho + (e + k)
    BY <1>1
<1> QED
    BY <1>2, <1>3

(* The main loop asks whether the clock is to be updated, by a second that *)
(* is the one of the RTC or the next one.                                  *)
LEMMA SecondIsNear ==
    ASSUME ClockTypes, NEW rho \in 0 .. Wrap - 1, NEW e \in 0 .. Second,
           rtc = currentEpoc + rho \div Second,
           Since(epocMS) = (rho + e) % Wrap, rho + e < Wrap
    PROVE  NearSecond(GetEpochTime % Minute)
<1>1. /\ Wrap \in Nat \ {0} /\ Second \in Nat \ {0} /\ currentEpoc \in Int
      /\ rho \in Int /\ e \in Nat /\ e <= Second
    BY Constants DEF ClockTypes
<1>2. (rho + e) % Wrap = rho + e
    <2>1. /\ rho + e \in -Wrap .. 2 * Wrap - 1 /\ rho + e >= 0 /\ rho + e < Wrap
          /\ Wrap \in Nat \ {0}
        BY <1>1
    <2> QED
        BY ONLY <2>1, ModNear
<1>3. /\ rho \div Second \in Int /\ (rho + e) \div Second \in Int
      /\ (rho + e) \div Second \in {rho \div Second, rho \div Second + 1}
    <2>1. /\ (rho + e) \div Second \in Int /\ (rho + e) \div Second >= rho \div Second
          /\ (rho + e) \div Second <= rho \div Second + 1
        BY <1>1, DivGrows
    <2>2. rho \div Second \in Int
        BY <1>1, DivMod
    <2> QED
        BY <2>1, <2>2
<1>4. GetEpochTime = currentEpoc + (rho + e) \div Second
    BY <1>2 DEF GetEpochTime
<1>5. GetEpochTime = rtc + 0 \/ GetEpochTime = rtc + 1
    BY <1>1, <1>3, <1>4
<1> QED
    BY <1>5 DEF NearSecond

(* The readings of the RTC, however the time since the base went.          *)
LEMMA RtcReads ==
    ASSUME ClockTypes, NEW rho \in 0 .. Wrap - 1, NEW e \in -1 .. 2 * Second,
           rtc = currentEpoc + rho \div Second,
           Since(epocMS) = (rho + e) % Wrap
    PROVE  /\ rtc \in Int /\ GetEpochTime \in Int
           /\ \/ /\ rho + e < Wrap
                 /\ rtc - 1 <= GetEpochTime /\ GetEpochTime <= rtc + 2
                 /\ e <= Second => GetEpochTime <= rtc + 1
              \/ GetEpochTime <= rtc /\ Leaps(GetEpochTime, rtc)
              \/ GetEpochTime >= rtc /\ Leaps(rtc, GetEpochTime)
<1> DEFINE q == rho \div Second
           r == Since(epocMS)
           h == r \div Second
           w == Wrap \div Second
<1>1. /\ Wrap \in Nat \ {0} /\ Second \in Nat \ {0} /\ currentEpoc \in Int
      /\ rho \in Int /\ e \in Int /\ 4 * Second <= Wrap
    BY Constants, Timing DEF ClockTypes
<1>2. r \in Int /\ q \in Int /\ h \in Int /\ w \in Int /\ 0 <= h /\ 0 <= q
    <2>1. r \in Nat /\ rho \in Nat /\ Wrap \in Nat
        BY <1>1, Readings
    <2> QED
        BY <2>1, <1>1, DivNat
<1>3. rtc = currentEpoc + q /\ GetEpochTime = currentEpoc + h
    BY DEF GetEpochTime
<1>4. rtc \in Int /\ GetEpochTime \in Int
    BY <1>1, <1>2, <1>3
<1> DEFINE x == rho + e
<1>5. /\ x \in -Wrap .. 2 * Wrap - 1 /\ x >= -1
      /\ Wrap \in Nat \ {0}
    BY <1>1
<1> HIDE DEF x
<1>6. /\ x < 0 => x % Wrap = x + Wrap
      /\ x >= 0 /\ x < Wrap => x % Wrap = x
      /\ x >= Wrap => x % Wrap = x - Wrap
    BY ONLY <1>5, ModNear
<1>7. r = x % Wrap
    BY DEF x
<1> HIDE DEF r
<1>8. CASE x >= 0 /\ x < Wrap /\ e >= 0
    <2>1. r = rho + e
        BY <1>6, <1>7, <1>8 DEF x
    <2>2. e \in Nat /\ e <= 2 * Second
        BY <1>1, <1>8
    <2>3. /\ h >= q /\ h <= q + 2 /\ (e <= Second => h <= q + 1)
        BY <2>1, <2>2, <1>1, DivGrows
    <2> HIDE DEF q, h
    <2>4. /\ rtc - 1 <= GetEpochTime /\ GetEpochTime <= rtc + 2
          /\ e <= Second => GetEpochTime <= rtc + 1
        BY <2>3, <1>1, <1>2, <1>3
    <2> QED
        BY <2>4, <1>4, <1>8 DEF x
<1>9. CASE x >= 0 /\ x < Wrap /\ e = -1
    <2>1. rho = r + 1
        BY <1>1, <1>2, <1>6, <1>7, <1>9 DEF x
    <2>2. q >= h /\ q <= h + 1
        <3>1. 1 \in Nat /\ 1 <= Second
            BY <1>1
        <3>2. (r + 1) \div Second >= r \div Second
              /\ (r + 1) \div Second <= r \div Second + 1
            BY <3>1, <1>1, <1>2, DivGrows
        <3> QED
            BY <3>2, <2>1
    <2> HIDE DEF q, h
    <2>3. /\ rtc - 1 <= GetEpochTime /\ GetEpochTime <= rtc + 1
        BY <2>2, <1>1, <1>2, <1>3
    <2> QED
        BY <2>3, <1>4, <1>9 DEF x
<1>10. CASE x >= Wrap
    <2>1. r = rho + e - Wrap
        BY <1>1, <1>6, <1>7, <1>10 DEF x
    <2>2. h <= 1
        <3>1. r < Second * 1 + Second
            BY <2>1, <1>1
        <3> QED
            BY <3>1, <1>1, <1>2, DivBounds
    <2>3. w <= q + 2
        <3> DEFINE u == Wrap - rho
        <3>1. u \in Nat /\ u <= 2 * Second /\ rho + u = Wrap
            BY <1>1, <1>10 DEF x
        <3> HIDE DEF u
        <3>2. (rho + u) \div Second <= q + 2
            BY <3>1, <1>1, DivGrows
        <3> QED
            BY <3>1, <3>2
    <2>4. w >= 4
        <3>1. Second * 4 <= Wrap
            BY <1>1
        <3> QED
            BY <3>1, <1>1, DivBounds
    <2> HIDE DEF q, h, w
    <2>5. GetEpochTime <= rtc /\ rtc - GetEpochTime >= w - 3
        BY <2>2, <2>3, <2>4, <1>1, <1>2, <1>3
    <2> QED
        BY <2>5, <1>4 DEF Leaps, w
<1>11. CASE x < 0
    <2>1. r = Wrap - 1 /\ rho = 0
        BY <1>1, <1>5, <1>6, <1>7, <1>11 DEF x
    <2>2. q = 0
        BY <2>1, <1>1, DivNat
    <2>3. w <= h + 1
        <3>1. 1 \in Nat /\ 1 <= Second /\ r + 1 = Wrap
            BY <2>1, <1>1
        <3>2. (r + 1) \div Second <= r \div Second + 1
            BY <3>1, <1>1, <1>2, DivGrows
        <3> QED
            BY <3>1, <3>2
    <2> HIDE DEF q, h, w
    <2>4. GetEpochTime >= rtc /\ GetEpochTime - rtc >= w - 3
        BY <2>2, <2>3, <1>1, <1>2, <1>3
    <2> QED
        BY <2>4, <1>4 DEF Leaps, w
<1> QED
    BY <1>1, <1>5, <1>8, <1>9, <1>10, <1>11

(* How a round begins, with nothing or something to ask, and ends.         *)
LEMMA RtcStep ==
    ClockIInv /\ ClockIInv' /\ DriftIInv /\ DriftIInv' /\ RtcIInv /\ [Next]_vars
        => RtcIInv'
<1> SUFFICES ASSUME ClockIInv, ClockIInv', DriftIInv, DriftIInv', RtcIInv,
                    [Next]_vars
             PROVE  RtcIInv'
    OBVIOUS
<1>1. /\ ClockTypes /\ PollsBounded /\ ReadInOrder
      /\ stall \in 0 .. MaxStall /\ MaxStall \in Nat /\ MaxPolls \in Nat
      /\ Second \in Nat \ {0} /\ Wrap \in Nat \ {0}
      /\ MaxStall < Second /\ MaxStall + MaxPolls + 2 <= 2 * Second
      /\ ntp.polls \in Nat /\ (pc \in Asking => ntp.polls <= MaxPolls + 1)
      /\ pc \in {"second", "update", "use"} \cup Asking
    BY Constants, Timing DEF ClockIInv, DriftIInv, ClockTypes, Ntp, PollsBounded
<1>2. (sec = InBegin /\ pc # "second" => ~IsSynced)'
    <2>1. CASE ReadSecond
        <3>1. GetEpochTime \in Int
            BY <1>1, Readings
        <3>2. Minute \in Nat \ {0} /\ InBegin = Minute
            BY Constants
        <3>3. GetEpochTime % Minute \in 0 .. Minute - 1
            BY <3>1, <3>2, DivMod
        <3> QED
            BY <2>1, <3>2, <3>3 DEF ReadSecond
    <2>2. CASE UseTime
        BY <2>2 DEF UseTime
    <2>3. CASE FinishUpdate
        BY <2>3 DEF FinishUpdate, Back
    <2>4. CASE ~(ReadSecond \/ UseTime \/ FinishUpdate)
        <3>1. /\ sec' = sec /\ lastUpdate' = lastUpdate
              /\ pc' # "second" /\ sec = InBegin => pc # "second"
            BY <2>4 DEF Next, Tick, SameSecond, StartUpdate, NotDue, Slew, NoAnswer,
                        Answer, GiveUp, ReadPrevMs, ReadPrevEpoch, ReadCurMs,
                        Reading, Polling, Part, Back, client, vars
        <3> QED
            BY <3>1 DEF RtcIInv, IsSynced
    <2> QED
        BY <2>1, <2>2, <2>3, <2>4
<1>int. rtc' \in Int
    <2>1. GetEpochTime \in Int /\ rtc \in Int
        BY <1>1, Readings DEF RtcIInv
    <2>2. rtc' \in {rtc, GetEpochTime}
        BY DEF Next, Tick, ReadSecond, SameSecond, StartUpdate, NotDue, Slew, NoAnswer,
               Answer, GiveUp, ReadPrevMs, ReadPrevEpoch, ReadCurMs, FinishUpdate,
               UseTime, Reading, Polling, Part, vars
    <2> QED
        BY <2>1, <2>2
<1>3. SUFFICES ASSUME IsSynced', ~set'
               PROVE  \E rho \in 0 .. Wrap - 1, e \in -1 .. 2 * Second :
                          RtcFollows(rho, e)'
    BY <1>int, <1>2 DEF RtcIInv
<1>4. CASE UseTime
    <2>1. /\ UNCHANGED <<ticks, lastUpdate, epocMS, currentEpoc>>
          /\ stall' = MaxStall /\ pc' = "second"
        BY <1>4 DEF UseTime, client, world
    <2>2. rtc' = GetEpochTime
        BY <2>1, <1>3, <1>4 DEF UseTime, IsSynced
    <2>3. PICK r \in 0 .. Wrap - 1 : r = Since(epocMS)
        <3>1. epocMS \in Int
            BY <1>1, Constants DEF ClockTypes
        <3> QED
            BY <3>1, <1>1, Readings
    <2>4. rtc' = currentEpoc' + r \div Second
        BY <2>1, <2>2, <2>3 DEF GetEpochTime
    <2>5. Since(epocMS)' = (r + 0) % Wrap
        <3>1. Since(epocMS)' = r
            BY <2>1, <2>3 DEF Since, Millis
        <3>2. (r + 0) \in -Wrap .. 2 * Wrap - 1 /\ r + 0 >= 0 /\ r + 0 < Wrap /\ r + 0 = r
            BY <2>3, <1>1
        <3>3. (r + 0) % Wrap = r + 0
            BY <3>2, <1>1, ModNear
        <3> QED
            BY <3>1, <3>2, <3>3
    <2>6. 0 <= MaxStall - stall' + Polled' /\ pc' \notin Asking
        <3>1. pc' \notin Asking /\ pc' # "use"
            BY <2>1 DEF Asking, Reads
        <3>2. Polled' = 0
            BY <3>1 DEF Polled
        <3> QED
            BY <3>1, <3>2, <2>1, <1>1
    <2>7. 0 \in -1 .. 2 * Second
        BY <1>1
    <2>8. RtcFollows(r, 0)'
        BY <2>1, <2>4, <2>5, <2>6 DEF RtcFollows
    <2> QED
        BY <2>3, <2>7, <2>8
<1>5. CASE FinishUpdate /\ ~IsSynced
    BY <1>3, <1>5 DEF FinishUpdate, SetClock
<1>6. CASE ~UseTime /\ ~(FinishUpdate /\ ~IsSynced)
    <2>1. /\ IsSynced /\ ~set
          /\ UNCHANGED <<rtc, currentEpoc>>
        <3>1. CASE FinishUpdate
            BY <1>3, <1>6, <3>1 DEF FinishUpdate, CorrectClock
        <3>2. CASE ~FinishUpdate
            <4>1. UNCHANGED <<lastUpdate, set, rtc, currentEpoc>>
                BY <1>6, <3>2 DEF Next, Tick, ReadSecond, SameSecond, StartUpdate, NotDue,
                       Slew, NoAnswer, Answer, GiveUp, ReadPrevMs, ReadPrevEpoch,
                       ReadCurMs, Reading, Polling, Part, client, ghosts, vars
            <4> QED
                BY <4>1, <1>3 DEF IsSynced
        <3> QED
            BY <3>1, <3>2
    <2>2. PICK rho \in 0 .. Wrap - 1, e \in -1 .. 2 * Second : RtcFollows(rho, e)
        BY <2>1 DEF RtcIInv
    <2>3. /\ rtc = currentEpoc + rho \div Second
          /\ Since(epocMS) = (rho + e) % Wrap
          /\ e <= MaxStall - stall + Polled
          /\ pc # "use" => e >= 0
          /\ pc = "update" => rho + e >= Wrap \/ NearSecond(sec)
          /\ pc \in Asking => rho + e >= Wrap \/ NearSecond(UpdateSec)
          /\ pc = "use" => \/ rho + e >= Wrap \/ NearSecond(UpdateSec)
                           \/ e <= MaxStall - stall + 1
        BY <2>2 DEF RtcFollows
    <2>4. rtc' = currentEpoc' + rho \div Second
        BY <2>1, <2>3
    <2>5. \A s : NearSecond(s)' = NearSecond(s)
        BY <2>1 DEF NearSecond
    <2>6. pc # "second" => sec # InBegin
        BY <2>1 DEF RtcIInv
    <2>7. e \in Int /\ rho \in Int
        BY <1>1
    <2>8. stall' \in 0 .. MaxStall /\ Polled' \in 0 .. MaxPolls + 2
        <3>1. /\ stall' \in 0 .. MaxStall /\ ntp'.polls \in Nat
              /\ pc' \in Asking => ntp'.polls <= MaxPolls + 1
            BY DEF ClockIInv, ClockTypes, Ntp, DriftIInv, PollsBounded
        <3> QED
            BY <3>1, <1>1 DEF Polled
    <2>9. ASSUME NEW k \in -1 .. 1, Since(epocMS)' = (Since(epocMS) + k) % Wrap,
                 e + k <= MaxStall - stall' + Polled', e + k >= -1,
                 pc' # "use" => e + k >= 0,
                 pc' = "update" => rho + (e + k) >= Wrap \/ NearSecond(sec)',
                 pc' \in Asking => rho + (e + k) >= Wrap \/ NearSecond(UpdateSec),
                 pc' = "use" => \/ rho + (e + k) >= Wrap \/ NearSecond(UpdateSec)
                                \/ e + k <= MaxStall - stall' + 1
          PROVE  \E r \in 0 .. Wrap - 1, f \in -1 .. 2 * Second : RtcFollows(r, f)'
        <3>1. k \in Int
            OBVIOUS
        <3>2. Since(epocMS)' = (rho + (e + k)) % Wrap
            BY <3>1, <2>3, <2>7, <2>9, <1>1, FollowsOn
        <3>3. e + k \in -1 .. 2 * Second
            <4>1. \A l \in 0 .. MaxStall, d \in 0 .. MaxPolls + 2 :
                      e + k <= MaxStall - l + d => e + k <= 2 * Second
                BY <3>1, <2>7, <1>1
            <4>2. e + k <= 2 * Second
                BY <4>1, <2>8, <2>9
            <4> QED
                BY <4>2, <3>1, <2>7, <2>9, <1>1
        <3>4. NearSecond(UpdateSec)' = NearSecond(UpdateSec)
            BY <2>5
        <3>5. RtcFollows(rho, e + k)'
            BY <3>2, <3>4, <2>4, <2>9 DEF RtcFollows
        <3> QED
            BY <3>3, <3>5
    <2>10. ASSUME ticks' = ticks, epocMS' = epocMS
           PROVE  Since(epocMS)' = (Since(epocMS) + 0) % Wrap
        <3> DEFINE r == Since(epocMS)
        <3>1. r \in 0 .. Wrap - 1
            <4>1. epocMS \in Int
                BY <1>1, Constants DEF ClockTypes
            <4> QED
                BY <4>1, <1>1, Readings
        <3>2. Since(epocMS)' = r
            BY <2>10 DEF Since, Millis
        <3> HIDE DEF r
        <3>3. r + 0 \in -Wrap .. 2 * Wrap - 1 /\ r + 0 >= 0 /\ r + 0 < Wrap /\ r + 0 = r
              /\ Wrap \in Nat \ {0}
            BY <3>1, <1>1
        <3>4. (r + 0) % Wrap = r + 0
            BY ONLY <3>3, ModNear
        <3> QED
            BY <3>2, <3>3, <3>4 DEF r
    <2>11. CASE Tick
        <3>1. /\ ticks' = ticks + 1 /\ stall' = stall - 1
              /\ UNCHANGED <<epocMS, pc, sec, ntp>>
            BY <2>11 DEF Tick, client
        <3>2. Since(epocMS)' = (Since(epocMS) + 1) % Wrap
            BY <3>1, <1>1, SinceGoesOn
        <3>3. Polled' = Polled /\ Polled \in Int /\ NearSecond(sec)' = NearSecond(sec)
            BY <3>1, <2>1, <1>1 DEF Polled, NearSecond
        <3>4. /\ e + 1 <= MaxStall - stall' + Polled'
              /\ e + 1 >= -1 /\ 1 \in -1 .. 1
              /\ pc' # "use" => e + 1 >= 0
            BY <3>1, <3>3, <2>3, <2>7, <1>1
        <3>5. /\ rho + e >= Wrap => rho + (e + 1) >= Wrap
              /\ e <= MaxStall - stall + 1 => e + 1 <= MaxStall - stall' + 1
            BY <3>1, <2>7, <1>1
        <3> QED
            BY <3>1, <3>2, <3>3, <3>4, <3>5, <2>3, <2>9
    <2>12. CASE NoAnswer \/ Answer \/ GiveUp
        <3>1. /\ pc = "poll" /\ ticks' = ticks + 1 /\ UNCHANGED <<epocMS, stall>>
            BY <2>12 DEF NoAnswer, Answer, GiveUp, Polling, client
        <3>2. Since(epocMS)' = (Since(epocMS) + 1) % Wrap
            BY <3>1, <1>1, SinceGoesOn
        <3>3. /\ pc \in Asking /\ Polled = ntp.polls /\ e >= 0
              /\ ntp.polls <= MaxPolls + 1
            BY <3>1, <2>3, <1>1 DEF Asking, Polled
        <3>4. \/ pc' \in Asking /\ pc' \notin {"update", "use"} /\ Polled' = ntp.polls + 1
              \/ pc' = "use" /\ pc' \notin Asking /\ Polled' = MaxPolls + 2
            <4>1. CASE NoAnswer \/ Answer
                <5>1. pc' \in {"poll", "prevMs"} /\ ntp'.polls = ntp.polls + 1
                    BY <4>1, <1>1 DEF NoAnswer, Answer, Polling, ClockTypes, Ntp
                <5> QED
                    BY <5>1 DEF Polled, Asking, Reads
            <4>2. CASE GiveUp
                <5>1. pc' = "use"
                    BY <4>2, <3>1, <2>6 DEF GiveUp, Polling, Back
                <5> QED
                    BY <5>1 DEF Polled, Asking, Reads
            <4> QED
                BY <4>1, <4>2, <2>12
        <3>5. /\ e + 1 <= MaxStall - stall' + Polled'
              /\ e + 1 >= -1 /\ 1 \in -1 .. 1 /\ e + 1 >= 0
              /\ rho + e >= Wrap => rho + (e + 1) >= Wrap
            BY <3>1, <3>3, <3>4, <2>3, <2>7, <1>1
        <3> QED
            BY <3>2, <3>3, <3>4, <3>5, <2>3, <2>9
    <2>13. CASE ReadSecond
        <3>1. /\ pc = "second" /\ pc' = "update" /\ sec' = GetEpochTime % Minute
              /\ UNCHANGED <<ticks, epocMS, stall>>
            BY <2>13 DEF ReadSecond, client, world
        <3>2. pc \notin Asking /\ pc' \notin Asking /\ Polled = 0 /\ Polled' = 0
            BY <3>1 DEF Polled, Asking, Reads
        <3>3. e >= 0 /\ e <= MaxStall - stall
            BY <3>1, <3>2, <2>3, <2>7, <1>1
        <3>4. e \in 0 .. Second
            BY <3>3, <2>7, <1>1
        <3>5. rho + e >= Wrap \/ NearSecond(GetEpochTime % Minute)
            <4>1. rho + e \in Int
                BY <2>7
            <4> QED
                BY <4>1, <3>4, <2>2, <2>3, <1>1, SecondIsNear
        <3>6. rho + e >= Wrap \/ NearSecond(sec)'
            BY <3>1, <3>5, <2>1 DEF NearSecond
        <3>7. e + 0 = e /\ 0 \in -1 .. 1
            BY <2>7
        <3> QED
            BY <3>1, <3>2, <3>3, <3>6, <3>7, <2>3, <2>9, <2>10
    <2>14. CASE SameSecond \/ NotDue \/ Slew
        <3>1. /\ pc = "update" /\ pc' = "use" /\ UNCHANGED <<ticks, stall>>
            BY <2>6, <2>14 DEF SameSecond, NotDue, Slew, Reading, Back, world
        <3>2. pc \notin Asking /\ pc' \notin Asking /\ Polled = 0 /\ Polled' = MaxPolls + 2
            BY <3>1 DEF Polled, Asking, Reads
        <3>3. e >= 0 /\ e <= MaxStall - stall'
            BY <3>1, <3>2, <2>3, <2>7, <1>1
        <3>4. PICK k \in -1 .. 1 : Since(epocMS)' = (Since(epocMS) + k) % Wrap
            <4>1. CASE UNCHANGED epocMS
                <5>1. 0 \in -1 .. 1
                    OBVIOUS
                <5> QED
                    BY <5>1, <4>1, <3>1, <2>10
            <4>2. CASE epocMS' = (epocMS + Wrap + Sign(driftMS)) % Wrap
                <5>1. Sign(driftMS) \in Int /\ -Sign(driftMS) \in -1 .. 1
                    <6>1. Sign(driftMS) \in {-1, 0, 1}
                        BY DEF Sign
                    <6> QED
                        BY <6>1
                <5>2. Since(epocMS)' = (Since(epocMS) - Sign(driftMS)) % Wrap
                    BY <5>1, <4>2, <3>1, <1>1, SinceSlewed
                <5>3. Since(epocMS) \in Int
                    <6>1. epocMS \in Int
                        BY <1>1, Constants DEF ClockTypes
                    <6> QED
                        BY <6>1, <1>1, Readings
                <5>4. Since(epocMS) - Sign(driftMS) = Since(epocMS) + (-Sign(driftMS))
                    BY <5>1, <5>3
                <5> QED
                    BY <5>1, <5>2, <5>4
            <4> QED
                BY <4>1, <4>2, <2>14 DEF SameSecond, NotDue, Slew, client
        <3>5. k \in -1 .. 1 /\ k \in Int
            BY <3>4
        <3>6. /\ e + k <= MaxStall - stall' + Polled'
              /\ e + k >= -1
              /\ e + k <= MaxStall - stall' + 1
            BY <3>1, <3>2, <3>3, <3>5, <2>7, <1>1
        <3> QED
            BY <3>1, <3>2, <3>4, <3>5, <3>6, <2>9
    <2>15. CASE StartUpdate
        <3>1. /\ pc = "update" /\ pc' = "poll" /\ UNCHANGED <<ticks, epocMS, stall>>
              /\ ntp' = NoNtp /\ CanUpdate
            BY <2>15 DEF StartUpdate, Reading, client, world
        <3>2. /\ pc \notin Asking /\ pc' \in Asking /\ Polled = 0 /\ Polled' = 0
            BY <3>1 DEF Polled, Asking, Reads, NoNtp
        <3>3. sec = UpdateSec
            BY <3>1, <2>6 DEF CanUpdate
        <3>4. e + 0 = e /\ 0 \in -1 .. 1 /\ e >= -1
            BY <2>7
        <3> QED
            BY <3>1, <3>2, <3>3, <3>4, <2>3, <2>9, <2>10
    <2>16. CASE ReadPrevMs \/ ReadPrevEpoch \/ ReadCurMs
        <3>1. /\ pc \in Reads /\ pc' \in Reads /\ UNCHANGED <<ticks, epocMS, stall>>
            BY <2>16 DEF ReadPrevMs, ReadPrevEpoch, ReadCurMs, Part, client, world, Reads
        <3>2. ntp'.polls = ntp.polls
            BY <2>16, <1>1 DEF ReadPrevMs, ReadPrevEpoch, ReadCurMs, ClockTypes, Ntp
        <3>3. /\ pc \in Asking /\ pc' \in Asking /\ Polled' = Polled
              /\ pc' \notin {"use", "update"} /\ pc \notin {"use", "update"}
            BY <3>1, <3>2 DEF Polled, Asking, Reads
        <3>4. e + 0 = e /\ 0 \in -1 .. 1 /\ e >= -1
            BY <2>7
        <3> QED
            BY <3>1, <3>3, <3>4, <2>3, <2>9, <2>10
    <2>17. CASE FinishUpdate
        <3>1. /\ pc = "curEpoch" /\ CorrectClock /\ UNCHANGED <<ticks, stall>>
              /\ pc' = Back
            BY <2>1, <2>17 DEF FinishUpdate, world
        <3>2. epocMS' = epocMS
            BY <3>1, <1>1, CorrectLeavesBase
        <3>3. /\ pc' = "use" /\ pc \in Asking /\ pc' \notin Asking
              /\ Polled = ntp.polls /\ Polled' = MaxPolls + 2
            BY <3>1, <2>6 DEF Back, Polled, Asking, Reads
        <3>4. /\ e + 0 = e /\ 0 \in -1 .. 1 /\ e >= -1
              /\ e <= MaxStall - stall' + Polled'
            BY <3>1, <3>3, <2>3, <2>7, <1>1
        <3> QED
            BY <3>1, <3>2, <3>3, <3>4, <2>3, <2>9, <2>10
    <2>18. CASE UNCHANGED vars
        <3>1. UNCHANGED <<ticks, epocMS, stall, pc, sec, ntp>>
            BY <2>18 DEF vars
        <3>2. Polled' = Polled /\ NearSecond(sec)' = NearSecond(sec)
            BY <3>1, <2>1 DEF Polled, NearSecond
        <3>3. e + 0 = e /\ 0 \in -1 .. 1 /\ e >= -1
            BY <2>7
        <3> QED
            BY <3>1, <3>2, <3>3, <2>3, <2>9, <2>10
    <2> QED
        BY <2>11, <2>12, <2>13, <2>14, <2>15, <2>16, <2>17, <2>18, <1>6 DEF Next
<1> QED
    BY <1>4, <1>5, <1>6

(* The invariant holds in every state.                                     *)
LEMMA RtcInvariance == Spec => []RtcIInv
<1>1. Init => RtcIInv
    BY DEF Init, RtcIInv, IsSynced
<1> QED
    BY <1>1, RtcStep, ClockInvariance, DriftInvariance, PTL DEF Spec

(***************************************************************************)
(* The RTC goes back by a second at most, unless millis() wrapped.         *)
(***************************************************************************)
THEOREM RtcGoesOn == Spec => SecondsGoBackByOne
<1>1. ClockIInv /\ RtcIInv /\ [Next]_vars
        => [~set /\ rtc' < rtc => rtc' = rtc - 1 \/ Leaps(rtc', rtc)]_vars
    <2> SUFFICES ASSUME ClockIInv, RtcIInv, [Next]_vars, ~set, rtc' < rtc
                 PROVE  rtc' = rtc - 1 \/ Leaps(rtc', rtc)
        OBVIOUS
    <2>1. CASE rtc' = rtc
        BY <2>1 DEF RtcIInv
    <2>2. CASE UseTime /\ IsSynced
        <3>1. rtc' = GetEpochTime
            BY <2>2 DEF UseTime
        <3>2. PICK rho \in 0 .. Wrap - 1, e \in -1 .. 2 * Second : RtcFollows(rho, e)
            BY <2>2 DEF RtcIInv
        <3>3. /\ rtc \in Int /\ GetEpochTime \in Int
              /\ \/ rtc - 1 <= GetEpochTime
                 \/ Leaps(GetEpochTime, rtc)
                 \/ GetEpochTime >= rtc
            BY <3>2, RtcReads DEF ClockIInv, RtcFollows
        <3> QED
            BY <3>1, <3>3
    <2> QED
        BY <2>1, <2>2
           DEF Next, Tick, ReadSecond, SameSecond, StartUpdate, NotDue, Slew, NoAnswer,
               Answer, GiveUp, ReadPrevMs, ReadPrevEpoch, ReadCurMs, FinishUpdate,
               UseTime, Reading, Polling, Part, vars
<1> QED
    BY <1>1, ClockInvariance, RtcInvariance, PTL DEF Spec, SecondsGoBackByOne

(***************************************************************************)
(* The protocol sees every second that it sends a sync in, unless the      *)
(* clock was set or millis() wrapped: only an update takes longer than a   *)
(* second, and it starts where none of these seconds is skipped.           *)
(***************************************************************************)
THEOREM NoSyncSecondSkipped == Spec => SyncSecondsSeen
<1>1. ClockIInv /\ DriftIInv /\ RtcIInv /\ [Next]_vars
        => [rtc # 0 /\ ~set =>
              \/ Leaps(rtc, rtc')
              \/ \A s \in rtc + 1 .. rtc' - 1 : s % Minute \notin SyncSecs]_vars
    <2> SUFFICES ASSUME ClockIInv, DriftIInv, RtcIInv, [Next]_vars, ~set,
                        ~Leaps(rtc, rtc'), NEW s \in rtc + 1 .. rtc' - 1
                 PROVE  s % Minute \notin SyncSecs
        OBVIOUS
    <2>1. rtc \in Int
        BY DEF RtcIInv
    <2>2. CASE rtc' = rtc
        BY <2>1, <2>2
    <2>3. CASE UseTime /\ IsSynced
        <3>1. pc = "use" /\ rtc' = GetEpochTime
            BY <2>3 DEF UseTime
        <3>2. PICK rho \in 0 .. Wrap - 1, e \in -1 .. 2 * Second : RtcFollows(rho, e)
            BY <2>3 DEF RtcIInv
        <3>3. /\ rtc \in Int /\ GetEpochTime \in Int
              /\ \/ /\ rho + e < Wrap /\ GetEpochTime <= rtc + 2
                    /\ e <= Second => GetEpochTime <= rtc + 1
                 \/ GetEpochTime <= rtc
                 \/ Leaps(rtc, GetEpochTime)
            BY <3>2, RtcReads DEF ClockIInv, RtcFollows
        <3>4. /\ s \in Int /\ rtc + 1 <= s /\ s <= GetEpochTime - 1
            BY <3>1, <3>3
        <3>5. /\ rho + e < Wrap /\ s = rtc + 1 /\ ~(e <= Second)
            BY <3>1, <3>3, <3>4
        <3>6. NearSecond(UpdateSec)
            <4>1. /\ stall \in 0 .. MaxStall /\ MaxStall \in Nat /\ MaxStall < Second
                  /\ Second \in Nat /\ e \in Int /\ rho \in Int /\ Wrap \in Nat
                BY <3>2, Constants, Timing DEF ClockIInv, ClockTypes
            <4>2. e <= MaxStall - stall + 1 => e <= Second
                BY <4>1
            <4>3. ~(rho + e >= Wrap)
                BY <4>1, <3>5
            <4> QED
                BY <4>2, <4>3, <3>1, <3>2, <3>5 DEF RtcFollows
        <3>7. PICK d \in {0, 1} : (rtc + d) % Minute = UpdateSec
            BY <3>6 DEF NearSecond
        <3>8. CASE d = 1
            BY <3>5, <3>7, <3>8, TimingAssumption
        <3>9. CASE d = 0
            <4>1. rtc % Minute = UpdateSec
                <5>1. rtc + 0 = rtc
                    BY <3>3
                <5> QED
                    BY <5>1, <3>7, <3>9
            <4>2. rtc \in Int /\ 1 \in Int /\ Minute \in Nat \ {0}
                BY <3>3, Constants
            <4>3. ((rtc % Minute) + 1) % Minute = (rtc + 1) % Minute
                BY ONLY <4>2, ModShift
            <4> QED
                BY <4>1, <4>3, <3>5, TimingAssumption
        <3> QED
            BY <3>7, <3>8, <3>9
    <2> QED
        BY <2>2, <2>3
           DEF Next, Tick, ReadSecond, SameSecond, StartUpdate, NotDue, Slew, NoAnswer,
               Answer, GiveUp, ReadPrevMs, ReadPrevEpoch, ReadCurMs, FinishUpdate,
               UseTime, Reading, Polling, Part, vars
<1> QED
    BY <1>1, ClockInvariance, DriftInvariance, RtcInvariance, PTL
       DEF Spec, SyncSecondsSeen
=============================================================================
