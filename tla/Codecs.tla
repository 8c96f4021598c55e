------------------------------- MODULE Codecs -------------------------------
(***************************************************************************)
(* Values as text, the way they are published and the way payloads are     *)
(* read: StrMaker and Str (src/src/str.h, str.cc) and the converters on    *)
(* top of them (src/src/converters.h).  A text is a sequence of digits and *)
(* signs; letters are all alike, since the only comparison of words,       *)
(* equalsIgnoreCase, compares a text with itself and looks at lengths.     *)
(***************************************************************************)
EXTENDS Integers, SequencesExt

Digit  == 0 .. 9
Dot    == 10
Colon  == 11
Minus  == 12
Letter == 13
Char   == 0 .. 13

(* StrMaker += : the digits of a number, which has at least one. *)
DecimalsOf(n) == Min({k \in 1 .. 5 : n < 10 ^ k})
Digits(n) ==
    LET len == DecimalsOf(n)
    IN [i \in 1 .. len |-> (n \div 10 ^ (len - i)) % 10]

(* Simple::to_str of a number and of a truth value. *)
WriteInt(n)  == Digits(n)
WriteBool(b) == IF b THEN [i \in 1 .. 4 |-> Letter] ELSE [i \in 1 .. 5 |-> Letter]

(* TempHalfC::to_str: halves are exact in a float. *)
WriteHalf(n) == Digits(n \div 2) \o <<Dot>> \o Digits(5 * (n % 2))

(* TimeHHMM::to_str. *)
WriteTime(n) ==
    Digits(n \div 60) \o <<Colon>> \o (IF n % 60 < 10 THEN <<0>> ELSE <<>>)
                      \o Digits(n % 60)

(***************************************************************************)
(* Temp001C::to_str: float(temp) / 100 is m / 2^(e + 2) with 24 bits in m, *)
(* rounded; what is behind the point is cut off after two digits, and      *)
(* written as a number of its own, without leading zeros.                  *)
(***************************************************************************)
Exponent(k) == CHOOSE e \in 0 .. 30 :
                  LET m == (2 * k * 2 ^ e + 25) \div 50
                  IN m \in 2 ^ 23 .. 2 ^ 24 - 1
Mantissa(k) == (2 * k * 2 ^ Exponent(k) + 25) \div 50

(* Mutant: the whole part is rounded. *)
WholeRounded(k) == (Mantissa(k) + 2 ^ (Exponent(k) + 1)) \div 2 ^ (Exponent(k) + 2)

Whole(k)    == Mantissa(k) \div 2 ^ (Exponent(k) + 2)
Behind(k)   ==
    LET unit == 2 ^ (Exponent(k) + 2)
    IN ((Mantissa(k) % unit) * 100) \div unit

WriteHundredths(k) ==
    IF k = 0 THEN <<0, Dot, 0>>
             ELSE Digits(Whole(k)) \o <<Dot>> \o Digits(Behind(k))
-----------------------------------------------------------------------------
(* Str::toInt: a sign, then digits only, of which there may be none. *)
Unsigned(t)  == IF t # <<>> /\ t[1] = Minus THEN Tail(t) ELSE t
IsInt(t)     == \A i \in DOMAIN Unsigned(t) : Unsigned(t)[i] \in Digit
Number(t)    ==
    LET upTo[i \in 0 .. Len(t)] ==
          IF i = 0 THEN 0 ELSE 10 * upTo[i - 1] + t[i]
    IN  upTo[Len(t)]
ReadInt(t)   == IF Unsigned(t) = t THEN Number(t) ELSE -Number(Tail(t))

(* toInt of an unsigned byte or word. *)
IsNat(t)     == IsInt(t) /\ ReadInt(t) >= 0
ReadByte(t)  == ReadInt(t) % 2 ^ 8
ReadWord(t)  == ReadInt(t) % 2 ^ 16

(* Simple::from_str of a truth value: true and on, false and off. *)
IsBool(t)    == Len(t) \in {2, 3, 4, 5} \/ IsInt(t)
ReadBool(t)  ==
    CASE Len(t) \in {4, 2} -> TRUE
      [] Len(t) \in {5, 3} -> FALSE
      [] OTHER -> ReadInt(t) # 0

(* Where a sign is first, or 0. *)
Find(c, t) ==
    IF \E i \in DOMAIN t : t[i] = c THEN Min({i \in DOMAIN t : t[i] = c}) ELSE 0

Before(c, t) == IF Find(c, t) = 0 THEN t ELSE SubSeq(t, 1, Find(c, t) - 1)
After(c, t)  == IF Find(c, t) = 0 THEN <<>> ELSE SubSeq(t, Find(c, t) + 1, Len(t))

(* TempHalfC::from_str, toFloat: of a temperature without a sign, which    *)
(* fits; of the digits behind the point the first one decides.             *)
IsTemp(t) ==
    /\ \E i \in DOMAIN t : t[i] \in Digit
    /\ \A i \in DOMAIN t : t[i] \in Digit \/ i = Find(Dot, t)

ReadHalf(t) ==
    LET behind == After(Dot, t)
        half   == IF behind # <<>> /\ behind[1] >= 5 THEN 1 ELSE 0
    IN 2 * Number(Before(Dot, t)) + half

(* TimeHHMM::from_str: with a colon, which is not the last sign, or in     *)
(* minutes.                                                                *)
IsTime(t) ==
    IF Find(Colon, t) = 0 THEN IsNat(t)
    ELSE /\ Find(Colon, t) < Len(t)
         /\ IsNat(Before(Colon, t)) /\ IsNat(After(Colon, t))
ReadTime(t) ==
    IF Find(Colon, t) = 0 THEN ReadWord(t)
    ELSE (ReadWord(Before(Colon, t)) * 60 + ReadWord(After(Colon, t))) % 2 ^ 16

(* The word of a timer (timer.h).  set takes hour, minute and mode; those  *)
(* that call it hand over the mode first.                                  *)
TimerTime(w) == w % 2 ^ 12
TimerMode(w) == w \div 2 ^ 12

SetTimer(hour, min, mode) ==
    (mode * 2 ^ 12 + (hour % 24) * 60 + (IF min < 60 THEN min ELSE 0)) % 2 ^ 16

SetTimerMode(w, mode) ==
    SetTimer(mode, TimerTime(w) \div 60, TimerTime(w) % 60)
SetTimerTime(w, time) ==
    SetTimer(TimerMode(w), (time \div 60) % 2 ^ 8, time % 60)
-----------------------------------------------------------------------------
(* What is published can be sent back: every value is read as it was       *)
(* written.  An average temperature is printed to less than a hundredth    *)
(* below it, counting what is behind the point in hundredths: cutting off  *)
(* after rounding to a float loses one at most.  Whatever is set of a      *)
(* timer, its time is one of the day (timer.h: "to stop producing crap     *)
(* timers"), though by a topic not the one that was meant.                 *)
Agreement ==
    /\ \A b \in BOOLEAN : IsBool(WriteBool(b)) /\ ReadBool(WriteBool(b)) = b
    /\ \A n \in 0 .. 2 ^ 8 - 1 :
          /\ IsNat(WriteInt(n)) /\ ReadByte(WriteInt(n)) = n
          /\ IsTemp(WriteHalf(n)) /\ ReadHalf(WriteHalf(n)) = n
    /\ \A n \in 0 .. 2 ^ 12 - 1 : IsTime(WriteTime(n)) /\ ReadTime(WriteTime(n)) = n
    /\ \A k \in 1 .. 2 ^ 14 - 1 :
          Whole(k) = k \div 100 /\ (k % 100) - Behind(k) \in {0, 1}
    /\ \A hour, min \in 0 .. 2 ^ 8 - 1 :
          /\ TimerTime(SetTimer(hour, min, 15)) < 24 * 60
          /\ TimerMode(SetTimer(hour, min, 15)) = 15
    /\ \A n \in 0 .. 2 ^ 16 - 1 :
          /\ TimerTime(SetTimerMode(n, 15)) < 24 * 60
          /\ TimerTime(SetTimerTime(15 * 2 ^ 12, n)) < 24 * 60
=============================================================================
