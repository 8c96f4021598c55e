------------------------ MODULE TopicCallbackProofs ------------------------
(***************************************************************************)
(* Proofs about TopicCallback for any clients, topics and payloads: what   *)
(* arrives is to the client model a request as any other, and it is one    *)
(* only if its topic is the one of a value that can be set; and what is    *)
(* published of a value is read back as that value, from its topic and     *)
(* from its text.                                                          *)
(***************************************************************************)
EXTENDS TopicCallback, ClientRegistryProofs, SequenceTheorems

(* A topic of the set branch: the prefix, the level of the branch, and     *)
(* what names the client and the value.                                    *)
SetLevel == Len(Prefix) + 1

(* Where the levels of such a topic are.                                  *)
LEMMA SetTopic ==
    ASSUME NEW s \in Seq(Level), Below(s) # <<>>, Below(s)[1] = Word("set")
    PROVE  /\ Tail(Below(s)) \in Seq(Level)
           /\ Len(s) = SetLevel + Len(Tail(Below(s)))
           /\ \A i \in 1 .. Len(Prefix) : s[i] = Prefix[i]
           /\ s[SetLevel] = Word("set")
           /\ \A i \in 1 .. Len(Tail(Below(s))) :
                 s[SetLevel + i] = Tail(Below(s))[i]
<1> DEFINE n == Len(Prefix)
           r == Below(s)
<1>1. /\ Prefix \in Seq(Words) /\ n \in Nat
      /\ Len(s) \in Nat /\ Len(s) > n /\ SubSeq(s, 1, n) = Prefix
      /\ r = SubSeq(s, n + 1, Len(s))
    BY PrefixAssumption DEF Below
<1>2. r \in Seq(Level) /\ Len(r) = Len(s) - n
      /\ \A i \in 1 .. Len(r) : r[i] = s[n + i]
    BY <1>1
<1>3. /\ Tail(r) \in Seq(Level) /\ Len(Tail(r)) = Len(r) - 1
      /\ \A i \in 1 .. Len(r) - 1 : Tail(r)[i] = r[i + 1]
    BY <1>1, <1>2
<1>4. \A i \in 1 .. n : s[i] = Prefix[i]
    <2>1. ASSUME NEW i \in 1 .. n PROVE s[i] = Prefix[i]
        <3>1. SubSeq(s, 1, n)[i] = s[i]
            BY <1>1
        <3> QED
            BY <3>1, <1>1
    <2> QED
        BY <2>1
<1>5. s[SetLevel] = Word("set")
    BY <1>1, <1>2 DEF SetLevel
<1> HIDE DEF r
<1>6. \A i \in 1 .. Len(Tail(r)) : s[SetLevel + i] = Tail(r)[i]
    <2>1. ASSUME NEW i \in 1 .. Len(Tail(r)) PROVE s[SetLevel + i] = Tail(r)[i]
        <3>1. i + 1 \in 1 .. Len(r) /\ i \in 1 .. Len(r) - 1
            BY <1>1, <1>2, <1>3
        <3>2. Tail(r)[i] = s[n + (i + 1)]
            BY <3>1, <1>2, <1>3
        <3>3. SetLevel + i = n + (i + 1)
            BY <1>1 DEF SetLevel
        <3> QED
            BY <3>2, <3>3
    <2> QED
        BY <2>1
<1>7. Len(s) = SetLevel + Len(Tail(r))
    <2> DEFINE below == Len(r)
               rest == Len(Tail(r))
               all == Len(s)
    <2>1. all \in Nat /\ n \in Nat /\ SetLevel = n + 1
        BY <1>1 DEF SetLevel
    <2>2. below = all - n /\ rest = below - 1
        BY <1>2, <1>3
    <2> HIDE DEF n, below, rest, all
    <2>3. all = SetLevel + rest
        BY <2>1, <2>2
    <2> QED
        BY <2>3 DEF all, rest
<1> QED
    BY <1>3, <1>4, <1>5, <1>6, <1>7 DEF r

(* A level that is a number fits into a byte once to_num has read it.      *)
LEMMA NumLevel ==
    ASSUME NEW l \in Level, IsNum(l)
    PROVE  l.num \in Nat /\ ToNum(l) \in 0 .. 255
<1>1. l.num \in Nat
    BY DEF Level, Words, IsNum
<1>2. l.num % 256 \in 0 .. 255
    BY <1>1
<1> QED
    BY <1>1, <1>2 DEF ToNum

(* A level that is no number is the word.                                  *)
LEMMA WordLevel ==
    ASSUME NEW l \in Level, ~IsNum(l)
    PROVE  l = Word(l.word)
BY DEF Level, Words, IsNum, Word

(* The topics of the set branch below its level, and what is read of them. *)
PlainTopic(t, p) ==
    /\ Len(t) = 2 /\ t[2].word \in Settable
    /\ p = PlainPath(ToNum(t[1]), TRUE, t[2].word)

EepromTopic(t, p) ==
    /\ Len(t) = 4 /\ t[2].word \in EepromWords
    /\ IsNum(t[3]) /\ t[4].word \in Accesses
    /\ p = EepromPath(ToNum(t[1]), TRUE, t[4].word, ToNum(t[3]))

TimerTopic(t, p) ==
    /\ Len(t) = 5 /\ t[2].word \in TimerWords
    /\ IsNum(t[3]) /\ IsNum(t[4]) /\ t[5].word \in TimerTopics
    /\ p = TimerPath(ToNum(t[1]), TRUE, t[5].word, ToNum(t[3]), ToNum(t[4]))

SettableTopic(t, p) == PlainTopic(t, p) \/ EepromTopic(t, p) \/ TimerTopic(t, p)

(* The three kinds of topics of a client exclude each other, so that the   *)
(* order in which Path::parse tries them is no matter.                     *)
LEMMA ClientKinds ==
    ASSUME NEW t, NEW set
    PROVE  \/ ParseClient(t, set) = NoPath
           \/ /\ Len(t) > 1 /\ IsNum(t[1])
              /\ \/ /\ IsPlain(t)
                    /\ ParseClient(t, set) = PlainPath(ToNum(t[1]), set, t[2].word)
                 \/ /\ IsEeprom(t, set)
                    /\ ParseClient(t, set) =
                          EepromPath(ToNum(t[1]), set, Access(t, set), ToNum(t[3]))
                 \/ /\ IsTimer(t)
                    /\ ParseClient(t, set) =
                          TimerPath(ToNum(t[1]), set, t[5].word, ToNum(t[3]),
                                    ToNum(t[4]))
<1>1. /\ ~(IsPlain(t) /\ (IsEeprom(t, set) \/ IsTimer(t)))
      /\ ~(IsEeprom(t, set) /\ IsTimer(t))
    BY DEF IsPlain, IsEeprom, IsTimer, EepromWords, TimerWords
<1>2. CASE ~(Len(t) > 1 /\ IsNum(t[1]))
    BY <1>2 DEF ParseClient
<1>3. CASE Len(t) > 1 /\ IsNum(t[1]) /\ IsPlain(t)
    <2>1. ~IsEeprom(t, set) /\ ~IsTimer(t)
        BY <1>1, <1>3
    <2>2. ParseClient(t, set) = PlainPath(ToNum(t[1]), set, t[2].word)
        BY <2>1, <1>3, SMT DEF ParseClient
    <2> QED
        BY <2>2, <1>3
<1>4. CASE Len(t) > 1 /\ IsNum(t[1]) /\ IsEeprom(t, set)
    BY <1>1, <1>4, SMT DEF ParseClient
<1>5. CASE Len(t) > 1 /\ IsNum(t[1]) /\ IsTimer(t)
    BY <1>1, <1>5, SMT DEF ParseClient
<1>6. CASE Len(t) > 1 /\ IsNum(t[1]) /\ ~IsPlain(t) /\ ~IsEeprom(t, set)
              /\ ~IsTimer(t)
    BY <1>6, SMT DEF ParseClient
<1> QED
    BY <1>2, <1>3, <1>4, <1>5, <1>6

(* A path says which branch its topic was in.                              *)
LEMMA ParsedSet ==
    ASSUME NEW t, NEW set
    PROVE  ParseClient(t, set) = NoPath \/ ParseClient(t, set).set = set
<1>1. \A x, y : PlainPath(x, set, y).set = set
    BY DEF PlainPath, Path
<1>2. \A w, x, y : EepromPath(w, set, x, y).set = set
    BY DEF EepromPath, Path
<1>3. \A w, x, y, z : TimerPath(w, set, x, y, z).set = set
    BY DEF TimerPath, Path
<1> QED
    BY <1>1, <1>2, <1>3, ClientKinds

(* What callback takes comes from the set branch and names a client.       *)
LEMMA TakenKinds ==
    ASSUME NEW s \in Seq(Level), Takes(Parse(s))
    PROVE  LET r == Below(s)
               t == Tail(r)
           IN  /\ r # <<>> /\ r[1] = Word("set")
               /\ Len(t) > 1 /\ IsNum(t[1])
               /\ SettableTopic(t, Parse(s))
<1> DEFINE r == Below(s)
           t == Tail(r)
           p == Parse(s)
<1>1. p.set /\ p.topic \in Settable \cup {"eeprom", "timer"}
    BY DEF Takes
<1>2. p # NoPath
    <2>1. NoPath.set = FALSE
        BY DEF NoPath, PlainPath, Path
    <2> HIDE DEF p
    <2> QED
        BY <1>1, <2>1
<1>3. r # <<>> /\ r[1] = Word("set") /\ p = ParseClient(t, TRUE)
    <2>1. SUFFICES ASSUME ~(r # <<>> /\ r[1] = Word("set")) PROVE FALSE
        BY DEF Parse
    <2>2. p = ParseClient(r, FALSE)
        BY <2>1 DEF Parse
    <2>3. p.set = FALSE
        BY <2>2, <1>2, ParsedSet
    <2> QED
        BY <2>3, <1>1
<1>4. Access(t, TRUE) = t[4].word
    BY DEF Access
<1>5. Len(t) > 1 /\ IsNum(t[1])
    BY <1>2, <1>3, ClientKinds
<1> HIDE DEF t, p, r
<1>6. CASE IsPlain(t) /\ p = PlainPath(ToNum(t[1]), TRUE, t[2].word)
    <2>1. p.topic = t[2].word
        BY <1>6 DEF PlainPath, Path
    <2>2. t[2].word \in Settable
        BY <2>1, <1>1, <1>6 DEF IsPlain, Settable, ReadOnly
    <2>3. PlainTopic(t, p)
        BY <2>2, <1>6 DEF PlainTopic, IsPlain
    <2> QED
        BY <2>3, <1>3, <1>5 DEF SettableTopic, p, t, r
<1>7. CASE /\ IsEeprom(t, TRUE)
           /\ p = EepromPath(ToNum(t[1]), TRUE, Access(t, TRUE), ToNum(t[3]))
    <2>1. EepromTopic(t, p)
        BY <1>4, <1>7 DEF EepromTopic, IsEeprom
    <2> QED
        BY <2>1, <1>3, <1>5 DEF SettableTopic, p, t, r
<1>8. CASE /\ IsTimer(t)
           /\ p = TimerPath(ToNum(t[1]), TRUE, t[5].word, ToNum(t[3]), ToNum(t[4]))
    <2>1. TimerTopic(t, p)
        BY <1>8 DEF TimerTopic, IsTimer
    <2> QED
        BY <2>1, <1>3, <1>5 DEF SettableTopic, p, t, r
<1> QED
    BY <1>2, <1>3, <1>6, <1>7, <1>8, ClientKinds DEF p

(* The paths of the values that can be set.                                *)
LEMMA SetPathKinds ==
    ASSUME NEW a
    PROVE  /\ \A t \in Settable : PlainPath(a, TRUE, t) \in SetPaths(a)
           /\ \A x \in Accesses, c \in EepromCells :
                 EepromPath(a, TRUE, x, c) \in SetPaths(a)
           /\ \A t \in TimerTopics, d \in Days, h \in Hours :
                 TimerPath(a, TRUE, t, d, h) \in SetPaths(a)
<1> DEFINE P == {PlainPath(a, TRUE, t) : t \in Settable}
           E(c) == {EepromPath(a, TRUE, x, c) : x \in Accesses}
           T(d, s) == {TimerPath(a, TRUE, t, d, s) : t \in TimerTopics}
           S(s) == UNION {T(d, s) : d \in Days}
           U == UNION {S(s) : s \in Hours}
           V == UNION {E(c) : c \in EepromCells}
<1>1. SetPaths(a) = P \cup V \cup U
    BY DEF SetPaths
<1>2. ASSUME NEW t \in Settable PROVE PlainPath(a, TRUE, t) \in SetPaths(a)
    BY <1>1
<1>3. ASSUME NEW x \in Accesses, NEW c \in EepromCells
      PROVE  EepromPath(a, TRUE, x, c) \in SetPaths(a)
    <2>1. EepromPath(a, TRUE, x, c) \in E(c)
        OBVIOUS
    <2> HIDE DEF E
    <2> QED
        BY <2>1, <1>1
<1>4. ASSUME NEW t \in TimerTopics, NEW d \in Days, NEW h \in Hours
      PROVE  TimerPath(a, TRUE, t, d, h) \in SetPaths(a)
    <2>1. TimerPath(a, TRUE, t, d, h) \in T(d, h)
        OBVIOUS
    <2> HIDE DEF T
    <2>2. TimerPath(a, TRUE, t, d, h) \in S(h)
        BY <2>1
    <2> HIDE DEF S
    <2>3. TimerPath(a, TRUE, t, d, h) \in U
        BY <2>2
    <2> HIDE DEF P, U, V
    <2> QED
        BY <2>3, <1>1
<1> QED
    BY <1>2, <1>3, <1>4

(* What callback takes is the path of a value that can be set. *)
LEMMA TakenIsSettable ==
    ASSUME NEW m \in Messages, Takes(Parse(m.topic))
    PROVE  /\ Parse(m.topic).addr \in 1 .. 255
           /\ Parse(m.topic) \in SetPaths(Parse(m.topic).addr)
<1> DEFINE t == Tail(Below(m.topic))
           a == ToNum(t[1])
           p == Parse(m.topic)
<1>1. m.topic \in Seq(Level) /\ (p.topic = "eeprom" => p.cell \in EepromCells)
    BY TopicsAssumption
<1>2. /\ Below(m.topic) # <<>> /\ Below(m.topic)[1] = Word("set")
      /\ Len(t) > 1 /\ IsNum(t[1]) /\ SettableTopic(t, p)
    BY <1>1, TakenKinds
<1>3. t \in Seq(Level)
    BY <1>1, <1>2, SetTopic
<1>4. a \in 0 .. 255
    <2>1. t[1] \in Level
        <3> HIDE DEF t
        <3>1. 1 \in 1 .. Len(t)
            BY <1>2, <1>3
        <3> QED
            BY <3>1, <1>3
    <2> QED
        BY <2>1, <1>2, NumLevel
<1>5. /\ p.addr # 0
      /\ p.topic = "timer" => p.day < TimerDays /\ p.slot < SlotsPerDay
    BY DEF Takes
<1> HIDE DEF t, p
<1>6. CASE PlainTopic(t, p)
    <2>1. p = PlainPath(a, TRUE, t[2].word) /\ t[2].word \in Settable
        BY <1>6 DEF PlainTopic
    <2>2. p.addr = a
        BY <2>1 DEF PlainPath, Path
    <2> HIDE DEF a
    <2>3. p \in SetPaths(p.addr)
        BY <2>1, <2>2, SetPathKinds
    <2> QED
        BY <2>2, <2>3, <1>4, <1>5 DEF p
<1>7. CASE EepromTopic(t, p)
    <2>1. /\ p = EepromPath(a, TRUE, t[4].word, ToNum(t[3]))
          /\ t[4].word \in Accesses
        BY <1>7 DEF EepromTopic
    <2>2. p.addr = a /\ p.topic = "eeprom" /\ p.cell = ToNum(t[3])
        BY <2>1 DEF EepromPath, Path
    <2> HIDE DEF a
    <2>3. ToNum(t[3]) \in EepromCells
        BY <2>2, <1>1 DEF p
    <2>4. p \in SetPaths(p.addr)
        BY <2>1, <2>2, <2>3, SetPathKinds
    <2> QED
        BY <2>2, <2>4, <1>4, <1>5 DEF p
<1>8. CASE TimerTopic(t, p)
    <2>1. /\ p = TimerPath(a, TRUE, t[5].word, ToNum(t[3]), ToNum(t[4]))
          /\ t[5].word \in TimerTopics
          /\ Len(t) = 5 /\ IsNum(t[3]) /\ IsNum(t[4])
        BY <1>8 DEF TimerTopic
    <2>2. /\ p.addr = a /\ p.topic = "timer"
          /\ p.day = ToNum(t[3]) /\ p.slot = ToNum(t[4])
        BY <2>1 DEF TimerPath, Path
    <2>3. t[3] \in Level /\ t[4] \in Level
        <3>1. 3 \in 1 .. Len(t) /\ 4 \in 1 .. Len(t)
            BY <2>1
        <3> QED
            BY <3>1, <1>3
    <2>4. ToNum(t[3]) \in 0 .. 255 /\ ToNum(t[4]) \in 0 .. 255
        BY <2>1, <2>3, NumLevel
    <2> HIDE DEF a
    <2>5. ToNum(t[3]) < TimerDays /\ ToNum(t[4]) < SlotsPerDay
        BY <2>2, <1>5
    <2>6. ToNum(t[3]) \in Days /\ ToNum(t[4]) \in Hours
        BY <2>4, <2>5, CallbackAssumption DEF Days, Hours
    <2>7. p \in SetPaths(p.addr)
        BY <2>1, <2>2, <2>6, SetPathKinds
    <2> QED
        BY <2>2, <2>7, <1>4, <1>5 DEF p
<1> QED
    BY <1>2, <1>6, <1>7, <1>8 DEF SettableTopic
-----------------------------------------------------------------------------
(* Levels that are taken for the ones that compose writes. *)
LEMMA SameNum ==
    ASSUME NEW l \in Level, IsNum(l)
    PROVE  SameLevel(l, Num(ToNum(l)))
<1>1. IsNum(Num(ToNum(l))) /\ Num(ToNum(l)).num = l.num % 256
    BY DEF IsNum, Num, ToNum
<1>2. Num(ToNum(l)).word = ""
    BY DEF Num
<1> QED
    BY <1>1, <1>2 DEF SameLevel

(* A word is taken for itself. *)
LEMMA SameWord ==
    ASSUME NEW w, w # ""
    PROVE  SameLevel(Word(w), Word(w))
<1>1. ~IsNum(Word(w)) /\ Word(w).word = w
    BY DEF IsNum, Word
<1> QED
    BY <1>1 DEF SameLevel, EepromWords, TimerWords

(* The topic that compose writes for a value to be set. *)
LEMMA ComposedTopic ==
    ASSUME NEW S, Words \subseteq S, NEW p, p.set = TRUE,
           Word("set") \in S, Num(p.addr) \in S, Word(p.topic) \in S,
           SubLevels(p) \in Seq(S)
    PROVE  /\ Len(Compose(p)) = SetLevel + 2 + Len(SubLevels(p))
           /\ \A i \in 1 .. Len(Prefix) : Compose(p)[i] = Prefix[i]
           /\ Compose(p)[SetLevel] = Word("set")
           /\ Compose(p)[SetLevel + 1] = Num(p.addr)
           /\ Compose(p)[SetLevel + 2] = Word(p.topic)
           /\ \A i \in 1 .. Len(SubLevels(p)) :
                 Compose(p)[SetLevel + 2 + i] = SubLevels(p)[i]
<1> DEFINE x == <<Word("set")>>
           y == <<Num(p.addr), Word(p.topic)>>
           u == SubLevels(p)
           px == Prefix \o x
           pxy == px \o y
<1>1. Prefix \in Seq(S) /\ x \in Seq(S) /\ y \in Seq(S) /\ u \in Seq(S)
    <2>1. Prefix \in Seq(S)
        BY PrefixAssumption, SeqMonotonic
    <2> QED
        BY <2>1
<1>2. Compose(p) = pxy \o u
    BY DEF Compose
<1>3. /\ px \in Seq(S) /\ Len(px) = SetLevel
      /\ \A i \in 1 .. Len(Prefix) : px[i] = Prefix[i]
      /\ px[SetLevel] = Word("set")
    BY <1>1 DEF SetLevel
<1>4. /\ pxy \in Seq(S) /\ Len(pxy) = SetLevel + 2
      /\ \A i \in 1 .. SetLevel : pxy[i] = px[i]
      /\ pxy[SetLevel + 1] = Num(p.addr) /\ pxy[SetLevel + 2] = Word(p.topic)
    <2> HIDE DEF px
    <2>1. SetLevel \in Nat
        BY <1>1 DEF SetLevel
    <2> QED
        BY <1>1, <1>3, <2>1
<1>5. SetLevel \in Nat /\ SetLevel = Len(Prefix) + 1 /\ Len(Prefix) \in Nat
    BY <1>1 DEF SetLevel
<1> HIDE DEF px, pxy, u
<1>6. /\ Len(pxy \o u) = SetLevel + 2 + Len(u)
      /\ \A i \in 1 .. SetLevel + 2 : (pxy \o u)[i] = pxy[i]
      /\ \A i \in 1 .. Len(u) : (pxy \o u)[SetLevel + 2 + i] = u[i]
    <2> DEFINE k == SetLevel + 2
    <2>1. k \in Nat /\ Len(pxy) = k /\ Len(u) \in Nat
        BY <1>1, <1>4, <1>5
    <2> HIDE DEF k
    <2>2. /\ Len(pxy \o u) = k + Len(u)
          /\ \A i \in 1 .. k : (pxy \o u)[i] = pxy[i]
        <3>1. k = Len(pxy) /\ pxy \in Seq(S) /\ u \in Seq(S)
            BY <2>1, <1>1, <1>4
        <3> QED
            BY <3>1, <2>1, ConcatProperties
    <2>3. \A i \in 1 .. Len(u) : (pxy \o u)[k + i] = u[i]
        BY <2>1, <1>1, <1>4
    <2> QED
        BY <2>2, <2>3 DEF k
<1> QED
    BY <1>2, <1>3, <1>4, <1>5, <1>6 DEF u

(* Topics of equal length whose levels are taken for each other. *)
LEMMA SameByLevels ==
    ASSUME NEW s \in Seq(Level), NEW p, NEW u,
           Below(s) # <<>>, Below(s)[1] = Word("set"),
           Len(Tail(Below(s))) = 2 + Len(u), Len(u) \in Nat,
           Len(Compose(p)) = SetLevel + 2 + Len(u),
           \A i \in 1 .. Len(Prefix) : Compose(p)[i] = Prefix[i],
           Compose(p)[SetLevel] = Word("set"),
           SameLevel(Tail(Below(s))[1], Compose(p)[SetLevel + 1]),
           SameLevel(Tail(Below(s))[2], Compose(p)[SetLevel + 2]),
           \A i \in 1 .. Len(u) :
              SameLevel(Tail(Below(s))[2 + i], Compose(p)[SetLevel + 2 + i])
    PROVE  SameTopic(s, Compose(p))
<1> DEFINE t == Tail(Below(s))
           c == Compose(p)
           n == Len(Prefix)
           k == Len(u)
<1>1. /\ Len(s) = SetLevel + Len(t) /\ n \in Nat /\ SetLevel = n + 1
      /\ \A i \in 1 .. n : s[i] = Prefix[i]
      /\ s[SetLevel] = Word("set")
      /\ \A i \in 1 .. Len(t) : s[SetLevel + i] = t[i]
    <2>1. n \in Nat /\ SetLevel = n + 1
        BY PrefixAssumption DEF SetLevel
    <2> QED
        BY <2>1, SetTopic
<1>2. \A l \in Words : SameLevel(l, l)
    <2>1. ASSUME NEW l \in Words PROVE SameLevel(l, l)
        <3>1. l = Word(l.word) /\ l.word # ""
            BY DEF Words, Word
        <3> QED
            BY <3>1, SameWord
    <2> QED
        BY <2>1
<1>3. SameLevel(Word("set"), Word("set"))
    BY SameWord
<1>4. /\ Len(t) = 2 + k /\ k \in Nat /\ Len(c) = SetLevel + 2 + k
      /\ \A i \in 1 .. n : c[i] = Prefix[i]
      /\ c[SetLevel] = Word("set")
      /\ SameLevel(t[1], c[SetLevel + 1]) /\ SameLevel(t[2], c[SetLevel + 2])
      /\ \A i \in 1 .. k : SameLevel(t[2 + i], c[SetLevel + 2 + i])
    OBVIOUS
<1>5. \A i \in 1 .. n : Prefix[i] \in Words
    BY PrefixAssumption
<1> HIDE DEF t, c, n, k
<1>6. Len(s) = Len(c)
    BY <1>1, <1>4
<1>7. DOMAIN s = 1 .. SetLevel + 2 + k
    BY <1>1, <1>4
<1>8. ASSUME NEW i \in 1 .. SetLevel + 2 + k PROVE SameLevel(s[i], c[i])
    <2>1. CASE i \in 1 .. n
        BY <2>1, <1>1, <1>2, <1>4, <1>5
    <2>2. CASE i = SetLevel
        BY <2>2, <1>1, <1>3, <1>4
    <2>3. CASE i = SetLevel + 1
        <3>1. 1 \in 1 .. Len(t)
            BY <1>4
        <3> QED
            BY <3>1, <2>3, <1>1, <1>4
    <2>4. CASE i = SetLevel + 2
        <3>1. 2 \in 1 .. Len(t)
            BY <1>4
        <3> QED
            BY <3>1, <2>4, <1>1, <1>4
    <2>5. CASE i > SetLevel + 2
        <3>1. PICK j \in 1 .. k : i = SetLevel + 2 + j
            <4>1. i - (SetLevel + 2) \in 1 .. k /\
                  i = SetLevel + 2 + (i - (SetLevel + 2))
                BY <2>5, <1>1, <1>4
            <4> QED
                BY <4>1
        <3>2. 2 + j \in 1 .. Len(t) /\ i = SetLevel + (2 + j)
            BY <3>1, <1>1, <1>4
        <3>3. s[i] = t[2 + j]
            BY <3>2, <1>1
        <3> QED
            BY <3>1, <3>3, <1>4
    <2> QED
        BY <2>1, <2>2, <2>3, <2>4, <2>5, <1>1
<1> QED
    BY <1>6, <1>7, <1>8 DEF SameTopic, c

(* What callback takes came by the topic of the value, as far as           *)
(* Path::parse tells topics apart.                                         *)
LEMMA TakenByItsTopic ==
    ASSUME NEW m \in Messages, Takes(Parse(m.topic))
    PROVE  SameTopic(m.topic, Compose(Parse(m.topic)))
<1> DEFINE s == m.topic
           t == Tail(Below(s))
           p == Parse(s)
           S == Level \cup {Word("set"), Word(p.topic), Word(p.sub), Num(p.addr),
                            Num(p.cell), Num(p.day), Num(p.slot)}
           u == SubLevels(p)
<1>1. /\ s \in Seq(Level) /\ p.set
      /\ Below(s) # <<>> /\ Below(s)[1] = Word("set")
      /\ Len(t) > 1 /\ IsNum(t[1]) /\ SettableTopic(t, p)
    BY TopicsAssumption, TakenKinds DEF Takes
<1>2. t \in Seq(Level)
    BY <1>1, SetTopic
<1> HIDE DEF s, t, p
<1>3. \A i \in 1 .. Len(t) : t[i] \in Level
    BY <1>2
<1>4. ASSUME u \in Seq(S), Len(t) = 2 + Len(u), p.set = TRUE,
             ToNum(t[1]) = p.addr, SameLevel(t[2], Word(p.topic)),
             \A i \in 1 .. Len(u) : SameLevel(t[2 + i], u[i])
      PROVE  SameTopic(s, Compose(p))
    <2>1. /\ Words \subseteq S /\ Word("set") \in S /\ Num(p.addr) \in S
          /\ Word(p.topic) \in S
        BY DEF Level
    <2>2. u \in Seq(S) /\ p.set = TRUE
        BY <1>4
    <2> HIDE DEF S
    <2>3. /\ Len(Compose(p)) = SetLevel + 2 + Len(u)
          /\ \A i \in 1 .. Len(Prefix) : Compose(p)[i] = Prefix[i]
          /\ Compose(p)[SetLevel] = Word("set")
          /\ Compose(p)[SetLevel + 1] = Num(p.addr)
          /\ Compose(p)[SetLevel + 2] = Word(p.topic)
          /\ \A i \in 1 .. Len(u) : Compose(p)[SetLevel + 2 + i] = u[i]
        BY <2>1, <2>2, ComposedTopic
    <2>4. SameLevel(t[1], Compose(p)[SetLevel + 1])
        <3>1. t[1] \in Level
            <4>1. 1 \in 1 .. Len(t)
                BY <1>1, <1>2
            <4> QED
                BY <4>1, <1>3
        <3> QED
            BY <3>1, <2>3, <1>1, <1>4, SameNum
    <2>5. Len(u) \in Nat
        BY <2>2
    <2>6. \A i \in 1 .. Len(u) :
              SameLevel(t[2 + i], Compose(p)[SetLevel + 2 + i])
        BY <2>3, <1>4
    <2> HIDE DEF u
    <2> QED
        BY <1>1, <1>4, <2>3, <2>4, <2>5, <2>6, SameByLevels DEF t
<1>5. CASE PlainTopic(t, p)
    <2>1. /\ p = PlainPath(ToNum(t[1]), TRUE, t[2].word) /\ t[2].word \in Settable
          /\ Len(t) = 2
        BY <1>5 DEF PlainTopic
    <2>2. p.addr = ToNum(t[1]) /\ p.topic = t[2].word /\ p.set = TRUE
        BY <2>1 DEF PlainPath, Path
    <2>3. p.topic # "eeprom" /\ p.topic # "timer" /\ p.topic # ""
        BY <2>1, <2>2 DEF Settable
    <2>4. u = <<>>
        BY <2>3 DEF SubLevels
    <2>5. t[2] \in Level
        BY <2>1, <1>3
    <2>6. SameLevel(t[2], Word(p.topic))
        BY <2>2, <2>3, <2>5, WordLevel, SameWord DEF IsNum
    <2> HIDE DEF u, S
    <2>7. u \in Seq(S) /\ Len(u) = 0
        BY <2>4
    <2>8. SameTopic(s, Compose(p))
        <3>1. Len(t) = 2 + Len(u)
            BY <2>1, <2>7
        <3>2. \A i \in 1 .. Len(u) : SameLevel(t[2 + i], u[i])
            BY <2>7
        <3>3. u \in Seq(S) /\ p.set = TRUE /\ ToNum(t[1]) = p.addr
              /\ SameLevel(t[2], Word(p.topic))
            BY <2>2, <2>6, <2>7
        <3> QED
            BY <3>1, <3>2, <3>3, <1>4
    <2> QED
        BY <2>8 DEF s, p
<1>6. CASE EepromTopic(t, p)
    <2>1. /\ p = EepromPath(ToNum(t[1]), TRUE, t[4].word, ToNum(t[3]))
          /\ t[2].word \in EepromWords /\ t[4].word \in Accesses
          /\ IsNum(t[3]) /\ Len(t) = 4
        BY <1>6 DEF EepromTopic
    <2>2. /\ p.addr = ToNum(t[1]) /\ p.topic = "eeprom" /\ p.set = TRUE
          /\ p.cell = ToNum(t[3]) /\ p.sub = t[4].word
        BY <2>1 DEF EepromPath, Path
    <2>3. u = <<Num(p.cell)>> \o <<Word(p.sub)>>
        BY <2>2 DEF SubLevels
    <2>4. t[2] \in Level /\ t[3] \in Level /\ t[4] \in Level
        <3>1. 2 \in 1 .. Len(t) /\ 3 \in 1 .. Len(t) /\ 4 \in 1 .. Len(t)
            BY <2>1
        <3> QED
            BY <3>1, <1>3
    <2>5. SameLevel(t[2], Word(p.topic))
        BY <2>1, <2>2 DEF SameLevel, IsNum, Word
    <2>6. SameLevel(t[3], Num(p.cell))
        BY <2>1, <2>2, <2>4, SameNum
    <2>7. t[4].word # ""
        BY <2>1 DEF Accesses
    <2>8. SameLevel(t[4], Word(p.sub))
        BY <2>2, <2>4, <2>7, WordLevel, SameWord DEF IsNum
    <2>9. Num(p.cell) \in S /\ Word(p.sub) \in S
        OBVIOUS
    <2> HIDE DEF u, S
    <2>10. u \in Seq(S) /\ Len(u) = 2 /\ u[1] = Num(p.cell) /\ u[2] = Word(p.sub)
        <3>1. <<Num(p.cell)>> \in Seq(S) /\ <<Word(p.sub)>> \in Seq(S)
            BY <2>9
        <3> QED
            BY <3>1, <2>3
    <2>11. \A i \in 1 .. Len(u) : SameLevel(t[2 + i], u[i])
        BY <2>6, <2>8, <2>10
    <2>12. SameTopic(s, Compose(p))
        <3>1. Len(t) = 2 + Len(u)
            BY <2>1, <2>10
        <3>2. \A i \in 1 .. Len(u) : SameLevel(t[2 + i], u[i])
            BY <2>11
        <3>3. u \in Seq(S) /\ p.set = TRUE /\ ToNum(t[1]) = p.addr
              /\ SameLevel(t[2], Word(p.topic))
            BY <2>2, <2>5, <2>10
        <3> QED
            BY <3>1, <3>2, <3>3, <1>4
    <2> QED
        BY <2>12 DEF s, p
<1>7. CASE TimerTopic(t, p)
    <2>1. /\ p = TimerPath(ToNum(t[1]), TRUE, t[5].word, ToNum(t[3]), ToNum(t[4]))
          /\ t[2].word \in TimerWords /\ t[5].word \in TimerTopics
          /\ IsNum(t[3]) /\ IsNum(t[4]) /\ Len(t) = 5
        BY <1>7 DEF TimerTopic
    <2>2. /\ p.addr = ToNum(t[1]) /\ p.topic = "timer" /\ p.set = TRUE
          /\ p.day = ToNum(t[3]) /\ p.slot = ToNum(t[4]) /\ p.sub = t[5].word
        BY <2>1 DEF TimerPath, Path
    <2>3. u = <<Num(p.day), Num(p.slot), Word(p.sub)>>
        BY <2>2 DEF SubLevels
    <2>4. t[2] \in Level /\ t[3] \in Level /\ t[4] \in Level /\ t[5] \in Level
        <3>1. /\ 2 \in 1 .. Len(t) /\ 3 \in 1 .. Len(t)
              /\ 4 \in 1 .. Len(t) /\ 5 \in 1 .. Len(t)
            BY <2>1
        <3> QED
            BY <3>1, <1>3
    <2>5. SameLevel(t[2], Word(p.topic))
        BY <2>1, <2>2 DEF SameLevel, IsNum, Word
    <2>6. SameLevel(t[3], Num(p.day)) /\ SameLevel(t[4], Num(p.slot))
        BY <2>1, <2>2, <2>4, SameNum
    <2>7. t[5].word # ""
        BY <2>1 DEF TimerTopics
    <2>8. SameLevel(t[5], Word(p.sub))
        BY <2>2, <2>4, <2>7, WordLevel, SameWord DEF IsNum
    <2>9. Num(p.day) \in S /\ Num(p.slot) \in S /\ Word(p.sub) \in S
        OBVIOUS
    <2> HIDE DEF u, S
    <2>10. /\ u \in Seq(S) /\ Len(u) = 3
           /\ u[1] = Num(p.day) /\ u[2] = Num(p.slot) /\ u[3] = Word(p.sub)
        BY <2>3, <2>9
    <2>11. \A i \in 1 .. Len(u) : SameLevel(t[2 + i], u[i])
        BY <2>6, <2>8, <2>10
    <2>12. SameTopic(s, Compose(p))
        <3>1. Len(t) = 2 + Len(u)
            BY <2>1, <2>10
        <3>2. \A i \in 1 .. Len(u) : SameLevel(t[2 + i], u[i])
            BY <2>11
        <3>3. u \in Seq(S) /\ p.set = TRUE /\ ToNum(t[1]) = p.addr
              /\ SameLevel(t[2], Word(p.topic))
            BY <2>2, <2>5, <2>10
        <3> QED
            BY <3>1, <3>2, <3>3, <1>4
    <2> QED
        BY <2>12 DEF s, p
<1> QED
    BY <1>1, <1>5, <1>6, <1>7 DEF SettableTopic, s, p
-----------------------------------------------------------------------------
(* A payload is read as something for the value the topic names; the one   *)
(* of a mode is something for three values. *)
LEMMA RequestedByTopic ==
    ASSUME NEW m \in Messages, NEW seen \in BOOLEAN, Takes(Parse(m.topic)),
           NEW w \in Requested(Parse(m.topic), m, seen)
    PROVE  w.of \in Assigned(Parse(m.topic))
<1> DEFINE p == Parse(m.topic)
           t == Tail(Below(m.topic))
           Plain(x) == Request(PlainPath(0, TRUE, x))
<1>1. p.topic \in Settable \cup {"eeprom", "timer"} /\ SettableTopic(t, p)
    BY TopicsAssumption, TakenKinds DEF Takes
<1>2. ASSUME NEW v PROVE Assign(p, v).of = Request(p)
    BY DEF Assign
<1>3. ASSUME NEW x, NEW v PROVE AssignTo(x, v).of = Plain(x)
    BY DEF AssignTo, Assign
<1>4. \A r \in ReadLock(m.text) : r.of = Plain("lock")
    BY <1>3 DEF ReadLock
<1>5. \A r \in ReadMode(m.word, seen) :
          r.of \in {Plain("auto"), Plain("requested_temp")}
    <2> DEFINE off  == {AssignTo("auto", 0), AssignTo("requested_temp", TempOff)}
               open == {AssignTo("auto", 0), AssignTo("requested_temp", TempOpen)}
    <2>1. ReadMode(m.word, seen) \in
              {{}, off, open, {AssignTo("auto", 1)}, {AssignTo("auto", 0)}}
        BY DEF ReadMode
    <2>2. \A v : AssignTo("auto", v).of = Plain("auto")
        BY <1>3
    <2>3. \A v : AssignTo("requested_temp", v).of = Plain("requested_temp")
        BY <1>3
    <2>4. ASSUME NEW r \in ReadMode(m.word, seen)
          PROVE  r.of \in {Plain("auto"), Plain("requested_temp")}
        <3>1. (\E v : r = AssignTo("auto", v)) \/ (\E v : r = AssignTo("requested_temp", v))
            BY <2>1, <2>4
        <3> HIDE DEF Plain
        <3> QED
            BY <3>1, <2>2, <2>3
    <2> QED
        BY <2>4
<1>6. p.topic = "lock" => Plain("lock") = Request(p)
    <2>1. SUFFICES ASSUME p.topic = "lock" PROVE Plain("lock") = Request(p)
        OBVIOUS
    <2> HIDE DEF p, t
    <2>2. p = PlainPath(ToNum(t[1]), TRUE, t[2].word)
        <3>1. ~EepromTopic(t, p)
            BY <2>1 DEF EepromTopic, EepromPath, Path
        <3>2. ~TimerTopic(t, p)
            BY <2>1 DEF TimerTopic, TimerPath, Path
        <3> QED
            BY <3>1, <3>2, <1>1 DEF SettableTopic, PlainTopic
    <2>3. /\ p.topic = t[2].word /\ p.sub = ""
          /\ p.day = 0 /\ p.slot = 0 /\ p.cell = 0
        BY <2>2 DEF PlainPath, Path
    <2> QED
        BY <2>1, <2>3 DEF Request, PlainPath, Path
<1> HIDE DEF p, t, Plain
<1>7. w \in Requested(p, m, seen)
    BY DEF p
<1>8. CASE p.topic = "mode"
    <2>1. w \in ReadMode(m.word, seen) \cup ReadLock(m.text)
        BY <1>7, <1>8 DEF Requested
    <2>2. w.of \in {Plain("auto"), Plain("requested_temp"), Plain("lock")}
        BY <2>1, <1>4, <1>5
    <2>3. Assigned(p) = {Plain(x) : x \in {"auto", "requested_temp", "lock"}}
        BY <1>8 DEF Assigned, Plain
    <2> QED
        BY <2>2, <2>3 DEF p
<1>9. CASE p.topic # "mode"
    <2>1. Assigned(p) = {Request(p)}
        BY <1>9 DEF Assigned
    <2>2. CASE p.topic = "lock"
        <3>1. w \in ReadLock(m.text)
            BY <2>2, <1>7 DEF Requested
        <3> QED
            BY <3>1, <2>1, <2>2, <1>4, <1>6 DEF p
    <2>3. CASE p.topic \in {"requested_temp", "auto"}
        <3>1. \E v : w = Assign(p, v)
            BY <2>3, <1>7 DEF Requested
        <3> QED
            BY <3>1, <2>1, <1>2 DEF p
    <2>4. CASE p.topic = "eeprom"
        <3>1. w \in ReadEeprom(p, m.text)
            BY <2>4, <1>7 DEF Requested
        <3>2. \E v : w = Assign(p, v)
            BY <3>1 DEF ReadEeprom
        <3> QED
            BY <3>2, <2>1, <1>2 DEF p
    <2>5. CASE p.topic = "timer"
        <3>1. w \in ReadTimer(p, m.text)
            BY <2>5, <1>7 DEF Requested
        <3>2. \E v : w = Assign(p, v)
            BY <3>1 DEF ReadTimer
        <3> QED
            BY <3>2, <2>1, <1>2 DEF p
    <2> QED
        BY <2>2, <2>3, <2>4, <2>5, <1>1, <1>9 DEF Settable
<1> QED
    BY <1>8, <1>9
-----------------------------------------------------------------------------
(* The invariant of the registry, and that every client enrolled is one    *)
(* that packets come from: a topic may name any number. *)
CallbackIInv == IInv /\ Enrolled \subseteq Addrs

(* A request asks the client its topic names for a value that exists.      *)
LEMMA RequestAsks ==
    ASSUME CallbackIInv, NEW m \in Messages, OnRequest(m)
    PROVE  LET p == Parse(m.topic)
           IN  /\ p.addr \in Addrs /\ p.addr \in Enrolled
               /\ p \in SetPaths(p.addr) /\ SameTopic(m.topic, Compose(p))
               /\ \E v \in Values : /\ Ask(p.addr, v)
                                    /\ \A w \in v : w.of \in Assigned(p)
               /\ message' = m
<1> DEFINE p == Parse(m.topic)
<1>1. PICK seen \in BOOLEAN :
          /\ Takes(p) /\ Requested(p, m, seen) # {}
          /\ Ask(p.addr, Requested(p, m, seen)) /\ message' = m
    BY DEF OnRequest
<1>2. /\ p.addr \in 1 .. 255 /\ p \in SetPaths(p.addr)
      /\ SameTopic(m.topic, Compose(p))
    BY <1>1, TakenIsSettable, TakenByItsTopic
<1>3. Requested(p, m, seen) \in Values
    BY <1>1, <1>2, CallbackAssumption
<1>4. \A w \in Requested(p, m, seen) : w.of \in Assigned(p)
    BY <1>1, RequestedByTopic
<1> HIDE DEF p
<1>5. p.addr \in Enrolled
    BY <1>1, <1>2, RegistryAssumption DEF Ask, Known, Enrolled, ValidAddrs
<1>6. p.addr \in Addrs
    BY <1>5 DEF CallbackIInv
<1> QED
    BY <1>1, <1>2, <1>3, <1>4, <1>5, <1>6 DEF p

(* No client is enrolled at first.                                         *)
LEMMA CallbackInitIInv == CallbackInit => CallbackIInv
<1> SUFFICES ASSUME CallbackInit PROVE CallbackIInv
    OBVIOUS
<1>1. IInv
    BY InitIInv DEF CallbackInit
<1>2. Enrolled = {}
    BY RegistryAssumption DEF CallbackInit, Init, Enrolled, ValidAddrs
<1> QED
    BY <1>1, <1>2 DEF CallbackIInv

(* Whatever arrives is a step of the registry, or none. *)
LEMMA CallbackStep ==
    CallbackIInv /\ [CallbackNext]_callbackVars => [Next]_vars
<1> SUFFICES ASSUME CallbackIInv, [CallbackNext]_callbackVars PROVE [Next]_vars
    OBVIOUS
<1>1. CASE UNCHANGED callbackVars
    BY <1>1 DEF callbackVars, vars
<1>2. ASSUME NEW m \in Messages, OnRequest(m) PROVE Next
    BY <1>2, RequestAsks DEF Next
<1>3. ASSUME NEW m \in Messages, OnOther(m) PROVE UNCHANGED vars
    BY <1>3 DEF OnOther
<1>4. ASSUME NEW a \in Addrs, NEW v \in Reports, OnPacket(a, v) PROVE Next
    <2>1. v \in Values
        BY CallbackAssumption
    <2> QED
        BY <2>1, <1>4 DEF OnPacket, Next
<1> QED
    BY <1>1, <1>2, <1>3, <1>4 DEF CallbackNext

(* The invariant is kept by whatever arrives.                              *)
LEMMA CallbackNextIInv ==
    CallbackIInv /\ [CallbackNext]_callbackVars => CallbackIInv'
<1> SUFFICES ASSUME CallbackIInv, [CallbackNext]_callbackVars PROVE CallbackIInv'
    OBVIOUS
<1>1. IInv /\ [Next]_vars
    BY CallbackStep DEF CallbackIInv
<1>2. IInv'
    BY <1>1, NextIInv
<1>3. CASE UNCHANGED vars
    BY <1>2, <1>3 DEF CallbackIInv, vars, Enrolled
<1>4. ASSUME NEW a \in Addrs, NEW v \in Values, HearKnown(a, v) \/ Ask(a, v)
      PROVE  CallbackIInv'
    BY <1>2, <1>4 DEF CallbackIInv, HearKnown, Ask, Enrolled
<1>5. ASSUME NEW a \in Addrs, NEW v \in Values, HearNew(a, v)
      PROVE  CallbackIInv'
    BY <1>1, <1>2, <1>5, EnrolledGrows DEF CallbackIInv
<1> QED
    BY <1>1, <1>3, <1>4, <1>5 DEF Next

(* The invariant holds in every state.                                     *)
LEMMA CallbackInvariance == CallbackSpec => []CallbackIInv
BY CallbackInitIInv, CallbackNextIInv, PTL DEF CallbackSpec

(***************************************************************************)
(* To the client model a message is a request as any other, for a value    *)
(* that exists, or nothing.                                                *)
(***************************************************************************)
THEOREM CallbackKeepsRegistry == CallbackSpec => KeepsRegistry
<1>1. CallbackInit => Init
    BY DEF CallbackInit
<1> QED
    BY <1>1, CallbackStep, CallbackInvariance, PTL
       DEF CallbackSpec, KeepsRegistry, Spec

(* With requests by topic, too, the index and the records keep their bounds. *)
THEOREM CallbackTypeCorrect == CallbackSpec => []TypeOK
BY CallbackKeepsRegistry, TypeCorrect, PTL DEF KeepsRegistry

(* With requests by topic, too, every record has one address. *)
THEOREM CallbackRecordsAreOwned == CallbackSpec => []OneRecordEach
BY CallbackKeepsRegistry, RecordsAreOwned, PTL DEF KeepsRegistry

(* No topic writes to a record that is not given out. *)
THEOREM CallbackNothingInherited == CallbackSpec => []FreshRecords
BY CallbackKeepsRegistry, NothingInherited, PTL DEF KeepsRegistry

(* With requests by topic, too, the registry is a directory by address. *)
THEOREM CallbackImplementsDirectory == CallbackSpec => ImplementsDirectory
BY CallbackKeepsRegistry, RegistryImplementsDirectory, PTL DEF KeepsRegistry
-----------------------------------------------------------------------------
(* What a client is asked for changes by a request that names it. *)
LEMMA OthersKeepWishes ==
    ASSUME CallbackIInv, NEW a \in Enrolled, NEW b \in Addrs, NEW v \in Values,
           \/ HearKnown(b, v)
           \/ HearNew(b, v)
           \/ Ask(b, v) /\ a # b
    PROVE  clients'[index[a]].wanted = clients[index[a]].wanted
<1>1. /\ index[a] \in Slots /\ index[a] <= cidx /\ clients \in [Slots -> Client]
      /\ a \in ValidAddrs
    BY DEF CallbackIInv, IInv, TypeOK, OneRecordEach, Enrolled, Slots
<1>2. CASE HearKnown(b, v)
    <2>1. index[b] \in Slots
        BY <1>2, KnownHasRecord DEF HearKnown, CallbackIInv
    <2> QED
        BY <1>1, <1>2, <2>1 DEF HearKnown, Reported, Client
<1>3. CASE HearNew(b, v)
    <2>1. cidx' = cidx + 1 /\ cidx' \in Slots /\ cidx \in Nat
        BY <1>3, EnrolledGrows, RegistryAssumption
           DEF CallbackIInv, IInv, TypeOK
    <2>2. index[a] # cidx'
        BY <1>1, <2>1 DEF Slots
    <2> QED
        BY <1>1, <1>3, <2>1, <2>2 DEF HearNew
<1>4. CASE Ask(b, v) /\ a # b
    <2>1. index[b] \in Slots /\ b \in Enrolled
        BY <1>4, KnownHasRecord DEF Ask, CallbackIInv
    <2>2. index[a] # index[b]
        BY <2>1, <1>4 DEF CallbackIInv, IInv, OneRecordEach
    <2> QED
        BY <1>1, <1>4, <2>1, <2>2 DEF Ask
<1> QED
    BY <1>2, <1>3, <1>4

(***************************************************************************)
(* Whatever arrives, a client is asked for something only by a topic of    *)
(* the set branch that compose would write for that client and a value     *)
(* that can be set, up to the freedom of SameTopic.                        *)
(***************************************************************************)
THEOREM OnlyAskedByItsTopic == CallbackSpec => AskedByItsTopic
<1> DEFINE Wanted(a) == clients'[index[a]].wanted
           ByItsTopic ==
             \A a \in Enrolled :
                Wanted(a) # clients[index[a]].wanted =>
                   \E p \in SetPaths(a) :
                      /\ \A w \in Wanted(a) : w.of \in Assigned(p)
                      /\ SameTopic(message'.topic, Compose(p))
<1>1. CallbackIInv /\ [CallbackNext]_callbackVars => [ByItsTopic]_callbackVars
    <2>1. SUFFICES ASSUME CallbackIInv, CallbackNext, NEW a \in Enrolled,
                          Wanted(a) # clients[index[a]].wanted
                   PROVE  \E p \in SetPaths(a) :
                             /\ \A w \in Wanted(a) : w.of \in Assigned(p)
                             /\ SameTopic(message'.topic, Compose(p))
        OBVIOUS
    <2>2. ASSUME NEW m \in Messages, OnRequest(m)
          PROVE  \E p \in SetPaths(a) :
                    /\ \A w \in Wanted(a) : w.of \in Assigned(p)
                    /\ SameTopic(message'.topic, Compose(p))
        <3> DEFINE p == Parse(m.topic)
        <3>1. PICK v \in Values : Ask(p.addr, v) /\ \A w \in v : w.of \in Assigned(p)
            BY <2>2, <2>1, RequestAsks
        <3>2. /\ p.addr \in Addrs /\ p \in SetPaths(p.addr)
              /\ SameTopic(m.topic, Compose(p)) /\ message' = m
            BY <2>2, <2>1, RequestAsks
        <3> HIDE DEF p
        <3>3. a = p.addr
            BY <3>1, <3>2, <2>1, OthersKeepWishes
        <3>4. Wanted(a) = v
            <4>1. index[a] \in Slots /\ clients \in [Slots -> Client]
                BY <2>1 DEF CallbackIInv, IInv, TypeOK, Enrolled, Slots
            <4> QED
                BY <4>1, <3>1, <3>3 DEF Ask, Asked, Client
        <3> QED
            BY <3>1, <3>2, <3>3, <3>4
    <2>3. ASSUME NEW m \in Messages, OnOther(m) PROVE FALSE
        BY <2>3, <2>1 DEF OnOther, vars
    <2>4. ASSUME NEW b \in Addrs, NEW v \in Reports, OnPacket(b, v) PROVE FALSE
        <3>1. v \in Values
            BY CallbackAssumption
        <3> QED
            BY <3>1, <2>4, <2>1, OthersKeepWishes DEF OnPacket
    <2> QED
        BY <2>1, <2>2, <2>3, <2>4 DEF CallbackNext
<1>2. CallbackSpec => [][ByItsTopic]_callbackVars
    BY <1>1, CallbackInvariance, PTL DEF CallbackSpec
<1> QED
    BY <1>2 DEF AskedByItsTopic
-----------------------------------------------------------------------------
(* How numbers are written and read, digit by digit, and where the signs   *)
(* between them are.  A text of digits alone has no sign. *)
LEMMA UnsignedDigits ==
    ASSUME NEW t \in Seq(Digit)
    PROVE  /\ Unsigned(t) = t /\ IsInt(t)
           /\ ReadInt(t) = Number(t)
<1>1. ASSUME t # <<>> PROVE t[1] \in Digit
    BY <1>1
<1>2. Unsigned(t) = t
    BY <1>1 DEF Unsigned, Minus, Digit
<1> QED
    BY <1>2 DEF IsInt, ReadInt

(* What Number of Codecs adds up. *)
NumberUpTo(f, t) ==
    f = [i \in 0 .. Len(t) |-> IF i = 0 THEN 0 ELSE 10 * f[i - 1] + t[i]]

(* The number of up to three digits. *)
LEMMA NumberOf ==
    ASSUME NEW t \in Seq(Digit), Len(t) \in 1 .. 3
    PROVE  /\ Len(t) = 1 => Number(t) = t[1]
           /\ Len(t) = 2 => Number(t) = 10 * t[1] + t[2]
           /\ Len(t) = 3 => Number(t) = 100 * t[1] + 10 * t[2] + t[3]
<1> DEFINE n == Len(t)
           w == [i \in 0 .. n |->
                   IF i = 0 THEN 0 ELSE IF i = 1 THEN t[1]
                   ELSE IF i = 2 THEN 10 * t[1] + t[2]
                   ELSE 100 * t[1] + 10 * t[2] + t[3]]
<1>1. n \in 1 .. 3 /\ \A i \in 1 .. n : t[i] \in Int
    BY DEF Digit
<1>2. \A i \in 0 .. n : w[i] = IF i = 0 THEN 0 ELSE 10 * w[i - 1] + t[i]
    <2>1. w[0] = 0
        BY <1>1
    <2>2. 1 \in 1 .. n /\ w[1] = t[1]
        BY <1>1
    <2>3. n >= 2 => w[2] = 10 * t[1] + t[2] /\ t[2] \in Int
        BY <1>1
    <2>4. n >= 3 => w[3] = 100 * t[1] + 10 * t[2] + t[3] /\ t[3] \in Int
        BY <1>1
    <2> HIDE DEF w, n
    <2>6. n \in 1 .. 3
        BY <1>1
    <2>5. \A i \in 0 .. n : i = 0 \/ i = 1 \/ (i = 2 /\ n >= 2) \/ (i = 3 /\ n >= 3)
        BY <1>1
    <2> QED
        <3> SUFFICES ASSUME NEW i \in 0 .. n
                     PROVE  w[i] = IF i = 0 THEN 0 ELSE 10 * w[i - 1] + t[i]
            OBVIOUS
        <3>1. CASE i = 0
            BY <3>1, <2>1
        <3>2. CASE i = 1
            BY <3>2, <2>1, <2>2, <1>1
        <3>3. CASE i = 2 /\ n >= 2
            BY <3>3, <2>2, <2>3
        <3>4. CASE i = 3 /\ n >= 3
            <4>1. t[1] \in Int /\ t[2] \in Int
                BY <1>1, <3>4
            <4>2. i = 3 /\ i # 0 /\ i - 1 = 2 /\ n >= 3 /\ n >= 2
                BY <3>4, <2>6
            <4>3. w[2] = 10 * t[1] + t[2]
                BY <4>2, <2>3
            <4>4. w[3] = 100 * t[1] + 10 * t[2] + t[3] /\ t[3] \in Int
                BY <4>2, <2>4
            <4>5. w[3] = 10 * w[2] + t[3]
                BY <4>1, <4>3, <4>4
            <4> QED
                BY <4>2, <4>5
        <3> QED
            BY <2>5, <3>1, <3>2, <3>3, <3>4
<1>3. NumberUpTo(w, t)
    <2>1. w = [i \in 0 .. n |-> w[i]]
        OBVIOUS
    <2> HIDE DEF w
    <2> QED
        BY <1>2, <2>1 DEF NumberUpTo
<1> DEFINE f == CHOOSE g : NumberUpTo(g, t)
<1>4. NumberUpTo(f, t)
    BY <1>3
<1>5. Number(t) = f[n]
    BY Zenon DEF Number, NumberUpTo
<1> HIDE DEF f
<1>6. \A i \in 0 .. n : f[i] = IF i = 0 THEN 0 ELSE 10 * f[i - 1] + t[i]
    BY <1>4 DEF NumberUpTo
<1>7. f[0] = 0 /\ f[1] = 10 * f[0] + t[1]
    BY <1>1, <1>6
<1>8. n >= 2 => f[2] = 10 * f[1] + t[2]
    BY <1>1, <1>6
<1>9. n = 3 => f[3] = 10 * f[2] + t[3]
    BY <1>1, <1>6
<1> HIDE DEF n
<1>10. n = 1 => f[n] = t[1]
    BY <1>1, <1>7
<1>11. n = 2 => f[n] = 10 * t[1] + t[2]
    BY <1>1, <1>7, <1>8
<1>12. n = 3 => f[n] = 100 * t[1] + 10 * t[2] + t[3]
    BY <1>1, <1>7, <1>8, <1>9
<1> QED
    BY <1>5, <1>10, <1>11, <1>12 DEF n

(* How many digits a number has. *)
LEMMA LengthOfDecimals ==
    ASSUME NEW n \in 0 .. 999
    PROVE  DecimalsOf(n) = IF n < 10 THEN 1 ELSE IF n < 100 THEN 2 ELSE 3
<1> DEFINE S == {k \in 1 .. 5 : n < 10 ^ k}
           m == IF n < 10 THEN 1 ELSE IF n < 100 THEN 2 ELSE 3
<1>1. 10 ^ 1 = 10 /\ 10 ^ 2 = 100 /\ 10 ^ 3 = 1000
    OBVIOUS
<1>2. m \in S /\ \A k \in S : m <= k
    <2>1. m \in 1 .. 5 /\ n < 10 ^ m
        BY <1>1
    <2>2. ASSUME NEW k \in 1 .. 5, k < m PROVE n >= 10 ^ k
        <3>1. (k = 1 /\ n >= 10) \/ (k = 2 /\ n >= 100)
            BY <2>2
        <3> QED
            BY <3>1, <1>1
    <2>3. ASSUME NEW k \in S PROVE m <= k
        <3>1. k \in 1 .. 5 /\ n < 10 ^ k /\ 10 ^ k \in Int
            OBVIOUS
        <3> HIDE DEF m, S
        <3>2. ASSUME k < m PROVE FALSE
            <4>1. n >= 10 ^ k
                BY <2>2, <3>1, <3>2
            <4> QED
                BY <3>1, <4>1
        <3> QED
            BY <2>1, <3>1, <3>2
    <2> HIDE DEF m
    <2> QED
        BY <2>1, <2>3
<1>3. \A k \in S : (\A j \in S : k <= j) => k = m
    <2> HIDE DEF m
    <2> QED
        BY <1>2
<1> HIDE DEF S, m
<1>4. Min(S) = m
    BY <1>2, <1>3 DEF Min
<1> QED
    BY <1>4 DEF DecimalsOf, S, m

(* A number below a thousand is read as it is written. *)
LEMMA DigitsRead ==
    ASSUME NEW n \in 0 .. 999
    PROVE  /\ Digits(n) \in Seq(Digit) /\ Len(Digits(n)) \in 1 .. 3
           /\ Number(Digits(n)) = n
           /\ n < 10 => Digits(n) = <<n>>
           /\ n \in 10 .. 99 => Len(Digits(n)) = 2
<1> DEFINE d == Digits(n)
<1>1. 10 ^ 0 = 1 /\ 10 ^ 1 = 10 /\ 10 ^ 2 = 100
    OBVIOUS
<1>2. CASE n < 10
    <2>1. DecimalsOf(n) = 1
        BY <1>2, LengthOfDecimals
    <2>2. d = [i \in 1 .. 1 |-> (n \div 10 ^ (1 - i)) % 10]
        BY <2>1 DEF Digits
    <2>3. (n \div 10 ^ (1 - 1)) % 10 = n
        BY <1>1, <1>2
    <2>4. d = <<n>>
        BY <2>2, <2>3
    <2>5. d \in Seq(Digit) /\ Len(d) = 1 /\ d[1] = n
        BY <2>4, <1>2 DEF Digit
    <2> HIDE DEF d
    <2>6. Number(d) = n
        BY <2>5, NumberOf
    <2> QED
        BY <2>4, <2>5, <2>6, <1>2 DEF d
<1>3. CASE n \in 10 .. 99
    <2>1. DecimalsOf(n) = 2
        BY <1>3, LengthOfDecimals
    <2>2. d = [i \in 1 .. 2 |-> (n \div 10 ^ (2 - i)) % 10]
        BY <2>1 DEF Digits
    <2>3. /\ (n \div 10 ^ (2 - 1)) % 10 = n \div 10
          /\ (n \div 10 ^ (2 - 2)) % 10 = n % 10
        BY <1>1, <1>3
    <2>4. d = <<n \div 10, n % 10>>
        BY <2>2, <2>3
    <2>5. n \div 10 \in 0 .. 9 /\ n % 10 \in 0 .. 9 /\ 10 * (n \div 10) + (n % 10) = n
        BY <1>3
    <2>6. /\ d \in Seq(Digit) /\ Len(d) = 2
          /\ d[1] = n \div 10 /\ d[2] = n % 10
        BY <2>4, <2>5 DEF Digit
    <2> HIDE DEF d
    <2>7. Number(d) = 10 * d[1] + d[2]
        BY <2>6, NumberOf
    <2>8. Number(d) = n
        BY <2>5, <2>6, <2>7
    <2> QED
        BY <2>6, <2>8, <1>3 DEF d
<1>4. CASE n \in 100 .. 999
    <2>1. DecimalsOf(n) = 3
        BY <1>4, LengthOfDecimals
    <2>2. d = [i \in 1 .. 3 |-> (n \div 10 ^ (3 - i)) % 10]
        BY <2>1 DEF Digits
    <2>3. /\ (n \div 10 ^ (3 - 1)) % 10 = n \div 100
          /\ (n \div 10 ^ (3 - 2)) % 10 = (n \div 10) % 10
          /\ (n \div 10 ^ (3 - 3)) % 10 = n % 10
        BY <1>1, <1>4
    <2>4. d = <<n \div 100, (n \div 10) % 10, n % 10>>
        BY <2>2, <2>3
    <2>5. /\ n \div 100 \in 0 .. 9 /\ (n \div 10) % 10 \in 0 .. 9 /\ n % 10 \in 0 .. 9
          /\ 100 * (n \div 100) + 10 * ((n \div 10) % 10) + (n % 10) = n
        BY <1>4
    <2>6. /\ d \in Seq(Digit) /\ Len(d) = 3
          /\ d[1] = n \div 100 /\ d[2] = (n \div 10) % 10 /\ d[3] = n % 10
        BY <2>4, <2>5 DEF Digit
    <2> HIDE DEF d
    <2>7. Number(d) = 100 * d[1] + 10 * d[2] + d[3]
        BY <2>6, NumberOf
    <2>8. Number(d) = n
        BY <2>5, <2>6, <2>7
    <2> QED
        BY <2>6, <2>8, <1>4 DEF d
<1> QED
    BY <1>2, <1>3, <1>4

(* A number that fits a byte. *)
LEMMA ByteRead ==
    ASSUME NEW n \in 0 .. 255
    PROVE  IsInt(WriteInt(n)) /\ IsNat(WriteInt(n)) /\ ReadByte(WriteInt(n)) = n
<1> DEFINE d == Digits(n)
<1>1. d \in Seq(Digit) /\ Number(d) = n
    <2>1. n \in 0 .. 999
        OBVIOUS
    <2> QED
        BY <2>1, DigitsRead
<1> HIDE DEF d
<1>2. IsInt(d) /\ ReadInt(d) = n
    BY <1>1, UnsignedDigits
<1>3. n % 2 ^ 8 = n
    OBVIOUS
<1> QED
    BY <1>2, <1>3 DEF WriteInt, IsNat, ReadByte, d

(* A text is taken apart at the first place of a sign. *)
LEMMA TakenApart ==
    ASSUME NEW c \in Char, NEW u \in Seq(Char), NEW v \in Seq(Char),
           \A i \in DOMAIN u : u[i] # c
    PROVE  LET t == (u \o <<c>>) \o v
           IN  /\ Find(c, t) = Len(u) + 1 /\ Len(t) = Len(u) + 1 + Len(v)
               /\ Before(c, t) = u /\ After(c, t) = v
               /\ t[Len(u) + 1] = c
               /\ \A i \in 1 .. Len(u) : t[i] = u[i]
               /\ \A i \in 1 .. Len(v) : t[Len(u) + 1 + i] = v[i]
<1> DEFINE t == (u \o <<c>>) \o v
           n == Len(u)
<1>1. /\ t \in Seq(Char) /\ Len(t) = n + 1 + Len(v) /\ n \in Nat /\ Len(v) \in Nat
      /\ t[n + 1] = c
      /\ \A i \in 1 .. n : t[i] = u[i]
      /\ \A i \in 1 .. Len(v) : t[n + 1 + i] = v[i]
    OBVIOUS
<1> HIDE DEF t
<1>2. DOMAIN t = 1 .. Len(t) /\ DOMAIN u = 1 .. n
    BY <1>1
<1> DEFINE S == {i \in DOMAIN t : t[i] = c}
<1>3. n + 1 \in S /\ \A i \in S : n + 1 <= i
    BY <1>1, <1>2
<1>4. Min(S) = n + 1
    <2>1. \A k \in S : (\A j \in S : k <= j) => k = n + 1
        BY <1>1, <1>2, <1>3
    <2> HIDE DEF S
    <2> QED
        BY <1>3, <2>1 DEF Min
<1>5. Find(c, t) = n + 1
    BY <1>3, <1>4 DEF Find
<1>6. SubSeq(t, 1, n) = u
    <2> SUFFICES \A i \in 1 .. n : SubSeq(t, 1, n)[i] = u[i]
        BY <1>1
    <2> QED
        BY <1>1
<1>7. SubSeq(t, n + 2, Len(t)) = v
    <2>1. Len(SubSeq(t, n + 2, Len(t))) = Len(v)
        BY <1>1
    <2>2. \A i \in 1 .. Len(v) : SubSeq(t, n + 2, Len(t))[i] = v[i]
        BY <1>1
    <2> QED
        BY <1>1, <2>1, <2>2
<1>8. Before(c, t) = u
    BY <1>1, <1>5, <1>6 DEF Before
<1>9. After(c, t) = v
    BY <1>1, <1>5, <1>7 DEF After
<1> QED
    BY <1>1, <1>5, <1>8, <1>9 DEF t

(* Halves of a degree. *)
LEMMA HalfRead ==
    ASSUME NEW n \in 0 .. 255
    PROVE  IsTemp(WriteHalf(n)) /\ ReadHalf(WriteHalf(n)) = n
<1> DEFINE u == Digits(n \div 2)
           v == Digits(5 * (n % 2))
           t == WriteHalf(n)
<1>1. n \div 2 \in 0 .. 999 /\ n % 2 \in {0, 1} /\ 2 * (n \div 2) + (n % 2) = n
    OBVIOUS
<1>2. u \in Seq(Digit) /\ Len(u) \in 1 .. 3 /\ Number(u) = n \div 2
    BY <1>1, DigitsRead
<1>3. v = <<5 * (n % 2)>> /\ 5 * (n % 2) \in {0, 5}
    <2>1. 5 * (n % 2) \in {0, 5}
        BY <1>1
    <2>2. 5 * (n % 2) \in 0 .. 999 /\ 5 * (n % 2) < 10
        BY <2>1
    <2> QED
        BY <2>1, <2>2, DigitsRead
<1>4. t = (u \o <<Dot>>) \o v
    BY DEF WriteHalf
<1> HIDE DEF u, v, t
<1>5. u \in Seq(Char) /\ v \in Seq(Char) /\ Dot \in Char
      /\ \A i \in DOMAIN u : u[i] # Dot
    BY <1>2, <1>3 DEF Digit, Char, Dot
<1>6. /\ Find(Dot, t) = Len(u) + 1 /\ Before(Dot, t) = u /\ After(Dot, t) = v
      /\ Len(t) = Len(u) + 1 + Len(v)
      /\ \A i \in 1 .. Len(u) : t[i] = u[i]
      /\ \A i \in 1 .. Len(v) : t[Len(u) + 1 + i] = v[i]
      /\ t \in Seq(Char)
    BY <1>4, <1>5, TakenApart
<1>7. Len(v) = 1 /\ v[1] = 5 * (n % 2) /\ v # <<>>
    BY <1>3
<1>8. IsTemp(t)
    <2>1. DOMAIN t = 1 .. Len(u) + 2
        BY <1>6, <1>7, <1>2
    <2>2. \A i \in 1 .. Len(u) : t[i] \in Digit
        BY <1>2, <1>6
    <2>3. t[Len(u) + 2] \in Digit
        BY <1>2, <1>3, <1>6, <1>7 DEF Digit
    <2>4. 1 \in DOMAIN t /\ t[1] \in Digit
        BY <1>2, <2>1, <2>2
    <2>5. \A i \in 1 .. Len(u) + 2 :
             i \in 1 .. Len(u) \/ i = Len(u) + 1 \/ i = Len(u) + 2
        BY <1>2
    <2> QED
        BY <1>6, <2>1, <2>2, <2>3, <2>4, <2>5 DEF IsTemp
<1>9. ReadHalf(t) = n
    <2>1. (IF v # <<>> /\ v[1] >= 5 THEN 1 ELSE 0) = n % 2
        BY <1>1, <1>3, <1>7
    <2> QED
        BY <1>1, <1>2, <1>6, <2>1 DEF ReadHalf
<1> QED
    BY <1>8, <1>9 DEF t

(* Times of any twelve bits. *)
LEMMA TimeRead ==
    ASSUME NEW n \in 0 .. 2 ^ 12 - 1
    PROVE  IsTime(WriteTime(n)) /\ ReadTime(WriteTime(n)) = n
<1> DEFINE h == n \div 60
           m == n % 60
           u == Digits(h)
           pad == IF m < 10 THEN <<0>> ELSE <<>>
           v == pad \o Digits(m)
           t == WriteTime(n)
<1>1. h \in 0 .. 68 /\ m \in 0 .. 59 /\ h * 60 + m = n
    OBVIOUS
<1> HIDE DEF h, m
<1>2. u \in Seq(Digit) /\ Len(u) \in 1 .. 3 /\ Number(u) = h
    <2>1. h \in 0 .. 999
        BY <1>1
    <2> QED
        BY <2>1, DigitsRead
<1>3. m \in 0 .. 999
    BY <1>1
<1>4. v \in Seq(Digit) /\ Len(v) = 2 /\ Number(v) = m
    <2>1. CASE m < 10
        <3>1. Digits(m) = <<m>> /\ pad = <<0>>
            BY <1>3, <2>1, DigitsRead
        <3>2. 0 \in Digit /\ m \in Digit
            BY <1>1, <2>1 DEF Digit
        <3>3. v = <<0>> \o <<m>>
            BY <3>1
        <3> HIDE DEF v
        <3>4. v \in Seq(Digit) /\ Len(v) = 2 /\ v[1] = 0 /\ v[2] = m
            BY <3>2, <3>3
        <3>5. Number(v) = 10 * v[1] + v[2]
            BY <3>4, NumberOf
        <3> QED
            BY <1>1, <3>4, <3>5
    <2>2. CASE m >= 10
        <3>1. m \in 10 .. 99
            BY <1>1, <2>2
        <3>2. Digits(m) \in Seq(Digit) /\ Len(Digits(m)) = 2 /\ Number(Digits(m)) = m
            BY <1>3, <3>1, DigitsRead
        <3>3. pad = <<>>
            BY <1>1, <2>2
        <3>4. v = Digits(m)
            <4>1. v = <<>> \o Digits(m)
                BY <3>3
            <4> HIDE DEF v
            <4> QED
                BY <3>2, <4>1, ConcatEmptySeq
        <3> QED
            BY <3>2, <3>4
    <2> QED
        BY <1>1, <2>1, <2>2
<1>5. t = (u \o <<Colon>>) \o v
    <2>1. t = ((u \o <<Colon>>) \o pad) \o Digits(m)
        BY DEF WriteTime, h, m
    <2>2. Digits(m) \in Seq(Digit)
        BY <1>3, DigitsRead
    <2>3. u \o <<Colon>> \in Seq(Char) /\ pad \in Seq(Char) /\ Digits(m) \in Seq(Char)
        <3>1. <<Colon>> \in Seq(Char) /\ pad \in Seq(Char)
            <4>1. 0 \in Char /\ Colon \in Char
                BY DEF Char, Colon
            <4>2. <<0>> \in Seq(Char) /\ <<>> \in Seq(Char) /\ <<Colon>> \in Seq(Char)
                BY <4>1
            <4> QED
                BY <4>2
        <3>2. \A x \in Seq(Digit) : x \in Seq(Char)
            BY DEF Digit, Char
        <3>3. u \in Seq(Char)
            BY <1>2, <3>2
        <3> QED
            BY <2>2, <3>1, <3>2, <3>3
    <2> HIDE DEF u, pad, t
    <2> QED
        BY <2>1, <2>3, ConcatAssociative
<1> HIDE DEF u, pad, v, t
<1>6. u \in Seq(Char) /\ v \in Seq(Char) /\ Colon \in Char
      /\ \A i \in DOMAIN u : u[i] # Colon
    BY <1>2, <1>4 DEF Digit, Char, Colon
<1>7. /\ Find(Colon, t) = Len(u) + 1 /\ Before(Colon, t) = u /\ After(Colon, t) = v
      /\ Len(t) = Len(u) + 1 + Len(v)
    BY <1>5, <1>6, TakenApart
<1>8. /\ IsInt(u) /\ ReadInt(u) = h /\ IsInt(v) /\ ReadInt(v) = m
    BY <1>2, <1>4, UnsignedDigits
<1>9. IsNat(u) /\ IsNat(v)
    BY <1>1, <1>8 DEF IsNat
<1>10. ReadWord(u) = h /\ ReadWord(v) = m
    <2>1. h % 2 ^ 16 = h /\ m % 2 ^ 16 = m
        BY <1>1
    <2> QED
        BY <1>8, <2>1 DEF ReadWord
<1>11. IsTime(t)
    BY <1>2, <1>4, <1>7, <1>9 DEF IsTime
<1>12. ReadTime(t) = n
    <2>1. (h * 60 + m) % 2 ^ 16 = n
        BY <1>1
    <2> QED
        BY <1>2, <1>7, <1>10, <2>1 DEF ReadTime
<1> QED
    BY <1>11, <1>12 DEF t

(* Truth values. *)
LEMMA BoolRead ==
    ASSUME NEW b \in BOOLEAN
    PROVE  IsBool(WriteBool(b)) /\ ReadBool(WriteBool(b)) = b
<1>1. CASE b
    <2>1. WriteBool(b) = <<Letter, Letter, Letter, Letter>>
        BY <1>1 DEF WriteBool
    <2>2. Len(WriteBool(b)) = 4
        BY <2>1
    <2>3. IsBool(WriteBool(b))
        BY <2>2 DEF IsBool
    <2>4. ReadBool(WriteBool(b)) = TRUE
        BY <2>2 DEF ReadBool
    <2> QED
        BY <1>1, <2>3, <2>4
<1>2. CASE ~b
    <2>1. WriteBool(b) = <<Letter, Letter, Letter, Letter, Letter>>
        BY <1>2 DEF WriteBool
    <2>2. Len(WriteBool(b)) = 5
        BY <2>1
    <2>3. IsBool(WriteBool(b))
        BY <2>2 DEF IsBool
    <2>4. ReadBool(WriteBool(b)) = FALSE
        BY <2>2 DEF ReadBool
    <2> QED
        BY <1>2, <2>3, <2>4
<1> QED
    BY <1>1, <1>2
-----------------------------------------------------------------------------
(* The powers of two that scale a float. *)
LEMMA Powers ==
    ASSUME NEW e \in 0 .. 30
    PROVE  /\ 2 ^ e \in Nat /\ 2 ^ e >= 1
           /\ 2 ^ (e + 1) = 2 * 2 ^ e /\ 2 ^ (e + 2) = 4 * 2 ^ e
           /\ e <= 3 => 2 ^ e <= 8
           /\ e >= 4 => 2 ^ e >= 16
<1> DEFINE f == [i \in 0 .. 32 |-> 2 ^ i]
<1>1. /\ f[0] = 1 /\ f[1] = 2 /\ f[2] = 4 /\ f[3] = 8
      /\ f[4] = 16 /\ f[5] = 32 /\ f[6] = 64 /\ f[7] = 128
      /\ f[8] = 256 /\ f[9] = 512 /\ f[10] = 1024 /\ f[11] = 2048
      /\ f[12] = 4096 /\ f[13] = 8192 /\ f[14] = 16384 /\ f[15] = 32768
      /\ f[16] = 65536 /\ f[17] = 131072 /\ f[18] = 262144 /\ f[19] = 524288
      /\ f[20] = 1048576 /\ f[21] = 2097152 /\ f[22] = 4194304 /\ f[23] = 8388608
      /\ f[24] = 16777216 /\ f[25] = 33554432 /\ f[26] = 67108864 /\ f[27] = 134217728
      /\ f[28] = 268435456 /\ f[29] = 536870912 /\ f[30] = 1073741824 /\ f[31] = 2147483648
      /\ f[32] = 4294967296
    OBVIOUS
<1>2. f[e] = 2 ^ e /\ f[e + 1] = 2 ^ (e + 1) /\ f[e + 2] = 2 ^ (e + 2)
    OBVIOUS
<1> HIDE DEF f
<1>3. /\ f[e] \in Nat /\ f[e] >= 1 /\ f[e + 1] = 2 * f[e] /\ f[e + 2] = 4 * f[e]
      /\ e <= 3 => f[e] <= 8
      /\ e >= 4 => f[e] >= 16
    <2>1. CASE e \in 0 .. 7
        BY <1>1, <2>1
    <2>2. CASE e \in 8 .. 15
        BY <1>1, <2>2
    <2>3. CASE e \in 16 .. 23
        BY <1>1, <2>3
    <2>4. CASE e \in 24 .. 30
        BY <1>1, <2>4
    <2> QED
        BY <2>1, <2>2, <2>3, <2>4
<1>4. f[e] = 2 ^ e
    BY <1>2
<1>5. /\ 2 ^ e \in Nat /\ 2 ^ e >= 1
      /\ e <= 3 => 2 ^ e <= 8
      /\ e >= 4 => 2 ^ e >= 16
    BY <1>3, <1>4
<1>6. 2 ^ (e + 1) = 2 * 2 ^ e /\ 2 ^ (e + 2) = 4 * 2 ^ e
    BY <1>2, <1>3
<1> QED
    BY <1>5, <1>6

(* Quotient and remainder. *)
LEMMA DividedBy ==
    ASSUME NEW D \in Nat, D >= 1, NEW q \in Nat, NEW x \in Nat, x < D,
           NEW n \in Nat, n = q * D + x
    PROVE  n \div D = q /\ n % D = x
OBVIOUS

(* A float of hundredths: scaled by a power of two and rounded, then cut   *)
(* off, it is never above what it is of, and below it by one at most. *)
LEMMA CutOff ==
    ASSUME NEW k \in Nat, NEW P \in Nat, P >= 32
    PROVE  LET m == (k * P + 25) \div 50
           IN  /\ m \div (2 * P) = k \div 100
               /\ (k % 100) - (((m % (2 * P)) * 100) \div (2 * P)) \in {0, 1}
<1> DEFINE q == k \div 100
           r == k % 100
           D == 2 * P
           x == (r * P + 25) \div 50
           m == (k * P + 25) \div 50
<1>1. k = 100 * q + r /\ q \in Nat /\ r \in 0 .. 99
    OBVIOUS
<1> HIDE DEF q, r
<1>2. k * P = 100 * (q * P) + r * P /\ q * P \in Nat /\ r * P \in Nat
    <2>1. k * P = (100 * q) * P + r * P
        BY <1>1
    <2>2. (100 * q) * P = 100 * (q * P)
        BY <1>1
    <2> QED
        BY <1>1, <2>1, <2>2
<1>3. m = 2 * (q * P) + x /\ x \in Nat
    <2>1. \A a, b \in Nat : (100 * a + b + 25) \div 50 = 2 * a + ((b + 25) \div 50)
        OBVIOUS
    <2>2. m = 2 * (q * P) + ((r * P + 25) \div 50)
        <3>1. PICK a \in Nat : a = q * P
            BY <1>2
        <3>2. PICK b \in Nat : b = r * P
            BY <1>2
        <3>3. k * P = 100 * a + b
            BY <1>2, <3>1, <3>2
        <3>4. m = (100 * a + b + 25) \div 50
            BY <3>3
        <3> QED
            BY <2>1, <3>1, <3>2, <3>4
    <2> QED
        BY <1>2, <2>2
<1>4. r * P <= 99 * P
    BY <1>1
<1>5. 50 * x <= r * P + 25 /\ r * P + 25 < 50 * x + 50
    BY <1>2
<1>6. D \in Nat /\ D >= 64 /\ D = 2 * P
    OBVIOUS
<1>7. x < D
    BY <1>2, <1>3, <1>4, <1>5, <1>6
<1>8. m = q * D + x
    <2>1. q * D = 2 * (q * P)
        BY <1>1, <1>6
    <2> QED
        BY <1>3, <2>1
<1> HIDE DEF D, m, x
<1>9. m \div D = q /\ m % D = x
    BY <1>1, <1>3, <1>6, <1>7, <1>8, DividedBy
<1>10. /\ r * D = 2 * (r * P)
       /\ r = 0 => r * D = 0
    BY <1>1, <1>6
<1>11. 100 * x <= r * D + 50 /\ r * D < 100 * x + 50
    BY <1>2, <1>3, <1>5, <1>6, <1>10
<1>12. (x * 100) \div D \in {r - 1, r}
    <2>1. CASE 100 * x >= r * D
        <3>1. 100 * x - r * D \in Nat /\ 100 * x - r * D < D
            BY <1>1, <1>3, <1>6, <1>11, <2>1
        <3>2. x * 100 = r * D + (100 * x - r * D)
            BY <1>1, <1>3, <1>6
        <3>3. (x * 100) \div D = r
            BY <1>1, <1>6, <3>1, <3>2, DividedBy
        <3> QED
            BY <3>3
    <2>2. CASE 100 * x < r * D
        <3>1. r >= 1
            BY <1>1, <1>3, <1>10, <2>2
        <3>2. (r - 1) * D = r * D - D /\ r - 1 \in Nat
            BY <1>1, <1>6, <3>1
        <3>3. 100 * x - (r * D - D) \in Nat /\ 100 * x - (r * D - D) < D
            BY <1>1, <1>3, <1>6, <1>11, <2>2
        <3>4. x * 100 = (r - 1) * D + (100 * x - (r * D - D))
            BY <1>1, <1>3, <1>6, <3>2
        <3>5. (x * 100) \div D = r - 1
            BY <1>3, <1>6, <3>2, <3>3, <3>4, DividedBy
        <3> QED
            BY <3>5
    <2> QED
        BY <1>1, <1>3, <1>6, <2>1, <2>2
<1>13. r - ((x * 100) \div D) \in {0, 1}
    BY <1>1, <1>12
<1> QED
    BY <1>9, <1>13 DEF m, D, q, r

(* A positive number of hundredths has a float of 24 bits. *)
LEMMA HasExponent ==
    ASSUME NEW k \in 1 .. 2 ^ 14 - 1
    PROVE  \E e \in 0 .. 30 : (2 * k * 2 ^ e + 25) \div 50 \in 2 ^ 23 .. 2 ^ 24 - 1
<1>0. 2 ^ 14 = 16384 /\ 2 ^ 23 = 8388608 /\ 2 ^ 24 = 16777216
    OBVIOUS
<1>1. CASE k \in 1 .. 1
    <2>1. 2 ^ 28 = 268435456
        OBVIOUS
    <2>2. (2 * k * 2 ^ 28 + 25) \div 50 \in 2 ^ 23 .. 2 ^ 24 - 1
        BY <1>0, <1>1, <2>1
    <2> QED
        BY <2>2
<1>2. CASE k \in 2 .. 3
    <2>1. 2 ^ 27 = 134217728
        OBVIOUS
    <2>2. (2 * k * 2 ^ 27 + 25) \div 50 \in 2 ^ 23 .. 2 ^ 24 - 1
        BY <1>0, <1>2, <2>1
    <2> QED
        BY <2>2
<1>3. CASE k \in 4 .. 6
    <2>1. 2 ^ 26 = 67108864
        OBVIOUS
    <2>2. (2 * k * 2 ^ 26 + 25) \div 50 \in 2 ^ 23 .. 2 ^ 24 - 1
        BY <1>0, <1>3, <2>1
    <2> QED
        BY <2>2
<1>4. CASE k \in 7 .. 12
    <2>1. 2 ^ 25 = 33554432
        OBVIOUS
    <2>2. (2 * k * 2 ^ 25 + 25) \div 50 \in 2 ^ 23 .. 2 ^ 24 - 1
        BY <1>0, <1>4, <2>1
    <2> QED
        BY <2>2
<1>5. CASE k \in 13 .. 24
    <2>1. 2 ^ 24 = 16777216
        OBVIOUS
    <2>2. (2 * k * 2 ^ 24 + 25) \div 50 \in 2 ^ 23 .. 2 ^ 24 - 1
        BY <1>0, <1>5, <2>1
    <2> QED
        BY <2>2
<1>6. CASE k \in 25 .. 49
    <2>1. 2 ^ 23 = 8388608
        OBVIOUS
    <2>2. (2 * k * 2 ^ 23 + 25) \div 50 \in 2 ^ 23 .. 2 ^ 24 - 1
        BY <1>0, <1>6, <2>1
    <2> QED
        BY <2>2
<1>7. CASE k \in 50 .. 99
    <2>1. 2 ^ 22 = 4194304
        OBVIOUS
    <2>2. (2 * k * 2 ^ 22 + 25) \div 50 \in 2 ^ 23 .. 2 ^ 24 - 1
        BY <1>0, <1>7, <2>1
    <2> QED
        BY <2>2
<1>8. CASE k \in 100 .. 199
    <2>1. 2 ^ 21 = 2097152
        OBVIOUS
    <2>2. (2 * k * 2 ^ 21 + 25) \div 50 \in 2 ^ 23 .. 2 ^ 24 - 1
        BY <1>0, <1>8, <2>1
    <2> QED
        BY <2>2
<1>9. CASE k \in 200 .. 399
    <2>1. 2 ^ 20 = 1048576
        OBVIOUS
    <2>2. (2 * k * 2 ^ 20 + 25) \div 50 \in 2 ^ 23 .. 2 ^ 24 - 1
        BY <1>0, <1>9, <2>1
    <2> QED
        BY <2>2
<1>10. CASE k \in 400 .. 799
    <2>1. 2 ^ 19 = 524288
        OBVIOUS
    <2>2. (2 * k * 2 ^ 19 + 25) \div 50 \in 2 ^ 23 .. 2 ^ 24 - 1
        BY <1>0, <1>10, <2>1
    <2> QED
        BY <2>2
<1>11. CASE k \in 800 .. 1599
    <2>1. 2 ^ 18 = 262144
        OBVIOUS
    <2>2. (2 * k * 2 ^ 18 + 25) \div 50 \in 2 ^ 23 .. 2 ^ 24 - 1
        BY <1>0, <1>11, <2>1
    <2> QED
        BY <2>2
<1>12. CASE k \in 1600 .. 3199
    <2>1. 2 ^ 17 = 131072
        OBVIOUS
    <2>2. (2 * k * 2 ^ 17 + 25) \div 50 \in 2 ^ 23 .. 2 ^ 24 - 1
        BY <1>0, <1>12, <2>1
    <2> QED
        BY <2>2
<1>13. CASE k \in 3200 .. 6399
    <2>1. 2 ^ 16 = 65536
        OBVIOUS
    <2>2. (2 * k * 2 ^ 16 + 25) \div 50 \in 2 ^ 23 .. 2 ^ 24 - 1
        BY <1>0, <1>13, <2>1
    <2> QED
        BY <2>2
<1>14. CASE k \in 6400 .. 12799
    <2>1. 2 ^ 15 = 32768
        OBVIOUS
    <2>2. (2 * k * 2 ^ 15 + 25) \div 50 \in 2 ^ 23 .. 2 ^ 24 - 1
        BY <1>0, <1>14, <2>1
    <2> QED
        BY <2>2
<1>15. CASE k \in 12800 .. 16383
    <2>1. 2 ^ 14 = 16384
        OBVIOUS
    <2>2. (2 * k * 2 ^ 14 + 25) \div 50 \in 2 ^ 23 .. 2 ^ 24 - 1
        BY <1>0, <1>15, <2>1
    <2> QED
        BY <2>2
<1> QED
    BY <1>0, <1>1, <1>2, <1>3, <1>4, <1>5, <1>6, <1>7, <1>8, <1>9, <1>10, <1>11, <1>12, <1>13, <1>14, <1>15

(* The float of a positive number of hundredths, and its scale. *)
LEMMA FloatOf ==
    ASSUME NEW k \in 1 .. 2 ^ 14 - 1
    PROVE  \E P \in Nat : /\ P >= 32 /\ 2 ^ (Exponent(k) + 2) = 2 * P
                          /\ Mantissa(k) = (k * P + 25) \div 50
<1> DEFINE e == Exponent(k)
           P == 2 * 2 ^ e
<1>1. e \in 0 .. 30 /\ (2 * k * 2 ^ e + 25) \div 50 \in 2 ^ 23 .. 2 ^ 24 - 1
    <2> DEFINE Fits(i) == (2 * k * 2 ^ i + 25) \div 50 \in 2 ^ 23 .. 2 ^ 24 - 1
    <2>1. \E i \in 0 .. 30 : Fits(i)
        BY HasExponent
    <2>2. e = CHOOSE i \in 0 .. 30 : Fits(i)
        BY DEF Exponent
    <2> HIDE DEF Fits, e
    <2>3. e \in 0 .. 30 /\ Fits(e)
        BY <2>1, <2>2
    <2> QED
        BY <2>3 DEF Fits, e
<1>2. Mantissa(k) = (2 * k * 2 ^ e + 25) \div 50
    BY DEF Mantissa
<1> HIDE DEF e
<1>3. /\ 2 ^ e \in Nat /\ 2 ^ e >= 1 /\ 2 ^ (e + 2) = 4 * 2 ^ e
      /\ e <= 3 => 2 ^ e <= 8
      /\ e >= 4 => 2 ^ e >= 16
    BY <1>1, Powers
<1>4. PICK g \in Nat : g = 2 ^ e
    BY <1>3
<1>5. /\ g >= 1 /\ 2 ^ (e + 2) = 4 * g
      /\ e <= 3 => g <= 8
      /\ e >= 4 => g >= 16
    BY <1>3, <1>4
<1>6. (2 * k * g + 25) \div 50 >= 2 ^ 23 /\ Mantissa(k) = (2 * k * g + 25) \div 50
    BY <1>1, <1>2, <1>4
<1>7. k \in Nat /\ k <= 16383 /\ 2 ^ 23 = 8388608
    OBVIOUS
<1>8. k * g \in Nat /\ 2 * k * g = 2 * (k * g) /\ k * (2 * g) = 2 * (k * g)
    BY <1>7
<1>9. g >= 16
    <2>1. SUFFICES ASSUME g <= 8 PROVE FALSE
        BY <1>1, <1>5
    <2>2. g \in {1, 2, 3, 4, 5, 6, 7, 8}
        BY <1>5, <2>1
    <2>3. k * g <= 16383 * 8
        BY <1>7, <2>2
    <2> QED
        BY <1>6, <1>7, <1>8, <2>3
<1>10. 2 * g \in Nat /\ 2 * g >= 32 /\ 2 ^ (e + 2) = 2 * (2 * g)
       /\ Mantissa(k) = (k * (2 * g) + 25) \div 50
    BY <1>5, <1>6, <1>8, <1>9
<1> QED
    BY <1>10 DEF e

(* An average temperature is printed to less than a hundredth below it. *)
LEMMA HundredthsRead ==
    ASSUME NEW k \in 1 .. 2 ^ 14 - 1
    PROVE  Whole(k) = k \div 100 /\ (k % 100) - Behind(k) \in {0, 1}
<1>1. PICK P \in Nat : /\ P >= 32 /\ 2 ^ (Exponent(k) + 2) = 2 * P
                       /\ Mantissa(k) = (k * P + 25) \div 50
    BY FloatOf
<1>2. k \in Nat
    OBVIOUS
<1> DEFINE m == (k * P + 25) \div 50
<1>3. Whole(k) = m \div (2 * P)
    BY <1>1 DEF Whole
<1>4. Behind(k) = ((m % (2 * P)) * 100) \div (2 * P)
    BY <1>1, Zenon DEF Behind
<1> QED
    BY <1>1, <1>2, <1>3, <1>4, CutOff

(* Whatever is set of a timer, its time is one of the day. *)
LEMMA TimersOfTheDay ==
    ASSUME NEW hour \in Nat, NEW min \in Nat, NEW mode \in Nat
    PROVE  /\ TimerTime(SetTimer(hour, min, mode)) \in 0 .. 24 * 60 - 1
           /\ TimerMode(SetTimer(hour, min, mode)) = mode % 16
<1> DEFINE h == hour % 24
           m == IF min < 60 THEN min ELSE 0
           t == h * 60 + m
<1>1. h \in 0 .. 23 /\ m \in 0 .. 59
    OBVIOUS
<1>2. t \in 0 .. 1439
    BY <1>1
<1>3. 2 ^ 12 = 4096 /\ 2 ^ 16 = 65536
    OBVIOUS
<1> HIDE DEF h, m
<1>4. SetTimer(hour, min, mode) = (mode * 4096 + t) % 65536
    BY <1>1, <1>3 DEF SetTimer, h, m
<1> HIDE DEF t
<1>5. (mode * 4096 + t) % 65536 = (mode % 16) * 4096 + t
    BY <1>2
<1>6. mode % 16 \in 0 .. 15
    OBVIOUS
<1> DEFINE w == mode % 16
<1> HIDE DEF w
<1>7. (w * 4096 + t) % 4096 = t /\ (w * 4096 + t) \div 4096 = w
    BY <1>2, <1>6 DEF w
<1> QED
    BY <1>2, <1>3, <1>4, <1>5, <1>7 DEF TimerTime, TimerMode, w

(* What is published can be sent back, in the whole range of every value.  *)
LEMMA CodecsAgreement == Agreement
<1>1. 2 ^ 8 = 256 /\ 2 ^ 12 = 4096 /\ 2 ^ 16 = 65536
    OBVIOUS
<1>2. \A b \in BOOLEAN : IsBool(WriteBool(b)) /\ ReadBool(WriteBool(b)) = b
    BY BoolRead
<1>3. ASSUME NEW n \in 0 .. 2 ^ 8 - 1
      PROVE  /\ IsNat(WriteInt(n)) /\ ReadByte(WriteInt(n)) = n
             /\ IsTemp(WriteHalf(n)) /\ ReadHalf(WriteHalf(n)) = n
    <2>1. n \in 0 .. 255
        BY <1>1
    <2> QED
        BY <2>1, ByteRead, HalfRead
<1>4. ASSUME NEW n \in 0 .. 2 ^ 12 - 1
      PROVE  IsTime(WriteTime(n)) /\ ReadTime(WriteTime(n)) = n
    BY TimeRead
<1>5. \A k \in 1 .. 2 ^ 14 - 1 : Whole(k) = k \div 100 /\ (k % 100) - Behind(k) \in {0, 1}
    BY HundredthsRead
<1>6. ASSUME NEW hour \in 0 .. 2 ^ 8 - 1, NEW min \in 0 .. 2 ^ 8 - 1
      PROVE  /\ TimerTime(SetTimer(hour, min, 15)) < 24 * 60
             /\ TimerMode(SetTimer(hour, min, 15)) = 15
    <2>1. hour \in Nat /\ min \in Nat /\ 15 \in Nat /\ 15 % 16 = 15
        OBVIOUS
    <2>2. /\ TimerTime(SetTimer(hour, min, 15)) \in 0 .. 24 * 60 - 1
          /\ TimerMode(SetTimer(hour, min, 15)) = 15 % 16
        BY <2>1, TimersOfTheDay
    <2> QED
        BY <2>1, <2>2
<1>7. ASSUME NEW n \in 0 .. 2 ^ 16 - 1
      PROVE  /\ TimerTime(SetTimerMode(n, 15)) < 24 * 60
             /\ TimerTime(SetTimerTime(15 * 2 ^ 12, n)) < 24 * 60
    <2>1. n \in Nat /\ 15 \in Nat
        OBVIOUS
    <2>2. TimerTime(n) \in Nat
        BY <1>1, <2>1 DEF TimerTime
    <2>3. TimerTime(n) \div 60 \in Nat /\ TimerTime(n) % 60 \in Nat
        BY <2>2
    <2>4. TimerTime(SetTimerMode(n, 15)) \in 0 .. 24 * 60 - 1
        BY <2>1, <2>3, TimersOfTheDay DEF SetTimerMode
    <2>5. TimerMode(15 * 2 ^ 12) \in Nat /\ (n \div 60) % 2 ^ 8 \in Nat /\ n % 60 \in Nat
        BY <1>1, <2>1 DEF TimerMode
    <2>6. TimerTime(SetTimerTime(15 * 2 ^ 12, n)) \in 0 .. 24 * 60 - 1
        BY <2>5, TimersOfTheDay DEF SetTimerTime
    <2> QED
        BY <2>4, <2>6
<1> QED
    BY <1>2, <1>3, <1>4, <1>5, <1>6, <1>7 DEF Agreement

(***************************************************************************)
(* The codecs agree over the whole range of every value: it is read as it  *)
(* is published, an average temperature is printed to less than a          *)
(* hundredth below it, and the time set of a timer is one of the day.      *)
(***************************************************************************)
THEOREM CodecsAlwaysAgree == CallbackSpec => []CodecsAgree
<1>1. CodecsAgree
    BY CodecsAgreement DEF CodecsAgree
<1> QED
    BY <1>1, PTL
-----------------------------------------------------------------------------
(* A value to be set has one of three kinds of paths. *)
LEMMA PathsToSet ==
    ASSUME NEW a, NEW p \in SetPaths(a)
    PROVE  \/ \E t \in Settable : p = PlainPath(a, TRUE, t)
           \/ \E x \in Accesses, c \in EepromCells : p = EepromPath(a, TRUE, x, c)
           \/ \E t \in TimerTopics, d \in Days, h \in Hours :
                 p = TimerPath(a, TRUE, t, d, h)
<1> DEFINE P == {PlainPath(a, TRUE, t) : t \in Settable}
           E(c) == {EepromPath(a, TRUE, x, c) : x \in Accesses}
           T(d, s) == {TimerPath(a, TRUE, t, d, s) : t \in TimerTopics}
           S(s) == UNION {T(d, s) : d \in Days}
           U == UNION {S(s) : s \in Hours}
           V == UNION {E(c) : c \in EepromCells}
<1>1. SetPaths(a) = P \cup V \cup U
    BY DEF SetPaths
<1>2. p \in P \/ p \in V \/ p \in U
    <2> HIDE DEF P, U, V
    <2> QED
        BY <1>1
<1>3. CASE p \in P
    BY <1>3
<1>4. CASE p \in V
    <2> HIDE DEF E
    <2>1. PICK c \in EepromCells : p \in E(c)
        BY <1>4
    <2> QED
        BY <2>1 DEF E
<1>5. CASE p \in U
    <2> HIDE DEF S
    <2>1. PICK h \in Hours : p \in S(h)
        BY <1>5
    <2> HIDE DEF T
    <2>2. PICK d \in Days : p \in T(d, h)
        BY <2>1 DEF S
    <2> QED
        BY <2>2 DEF T
<1> QED
    BY <1>2, <1>3, <1>4, <1>5

(* Where the levels of a topic in the set branch are read. *)
LEMMA ReadBelow ==
    ASSUME NEW S, Words \subseteq S, NEW s \in Seq(S), NEW n \in Nat, n > 0,
           Len(s) = SetLevel + n,
           \A i \in 1 .. Len(Prefix) : s[i] = Prefix[i],
           s[SetLevel] = Word("set")
    PROVE  /\ Parse(s) = ParseClient(Tail(Below(s)), TRUE)
           /\ Len(Tail(Below(s))) = n
           /\ \A i \in 1 .. n : Tail(Below(s))[i] = s[SetLevel + i]
<1> DEFINE k == Len(Prefix)
           r == Below(s)
<1>1. /\ Prefix \in Seq(Words) /\ k \in Nat /\ SetLevel = k + 1
      /\ Len(s) \in Nat /\ Len(s) = k + 1 + n
    BY PrefixAssumption DEF SetLevel
<1>2. SubSeq(s, 1, k) = Prefix
    <2>1. \A i \in 1 .. k : s[i] = Prefix[i]
        OBVIOUS
    <2>2. SubSeq(s, 1, k) \in Seq(S) /\ Len(SubSeq(s, 1, k)) = k
          /\ \A i \in 1 .. k : SubSeq(s, 1, k)[i] = s[i]
        BY <1>1
    <2>3. \A i \in 1 .. k : SubSeq(s, 1, k)[i] = Prefix[i]
        BY <2>1, <2>2
    <2>4. Len(SubSeq(s, 1, k)) = Len(Prefix)
        BY <2>2
    <2> QED
        BY <1>1, <2>2, <2>3, <2>4
<1>3. r = SubSeq(s, k + 1, Len(s))
    BY <1>1, <1>2 DEF Below
<1>4. /\ r \in Seq(S) /\ Len(r) = n + 1
      /\ \A i \in 1 .. n + 1 : r[i] = s[k + i]
    BY <1>1, <1>3
<1> HIDE DEF r
<1>5. r # <<>> /\ r[1] = Word("set")
    BY <1>1, <1>4
<1>6. /\ Len(Tail(r)) = n
      /\ \A i \in 1 .. n : Tail(r)[i] = r[i + 1]
    BY <1>4
<1>7. ASSUME NEW i \in 1 .. n PROVE Tail(r)[i] = s[SetLevel + i]
    <2>1. i + 1 \in 1 .. n + 1 /\ k + (i + 1) = SetLevel + i
        BY <1>1
    <2>2. Tail(r)[i] = s[k + (i + 1)]
        BY <2>1, <1>4, <1>6
    <2> QED
        BY <2>1, <2>2
<1>8. Parse(s) = ParseClient(Tail(r), TRUE)
    BY <1>5 DEF Parse, r
<1> QED
    BY <1>6, <1>7, <1>8 DEF r

(* A number of a byte is read as it is written. *)
LEMMA ByteLevel ==
    ASSUME NEW n \in 0 .. 255
    PROVE  IsNum(Num(n)) /\ ToNum(Num(n)) = n
<1>1. n % 256 = n /\ n \in Nat
    OBVIOUS
<1>2. Num(n).num = n
    BY DEF Num
<1> QED
    BY <1>1, <1>2 DEF Num, IsNum, ToNum

(* Two levels. *)
LEMMA TwoLevels ==
    ASSUME NEW S, NEW x \in S, NEW y \in S
    PROVE  /\ <<x>> \o <<y>> \in Seq(S) /\ Len(<<x>> \o <<y>>) = 2
           /\ (<<x>> \o <<y>>)[1] = x /\ (<<x>> \o <<y>>)[2] = y
<1>1. <<x>> \in Seq(S) /\ <<y>> \in Seq(S)
    OBVIOUS
<1> QED
    BY <1>1

(* What compose writes for a value to be set is read as the path of that   *)
(* value: no kind of topic is taken for another one. *)
LEMMA ComposedIsParsed ==
    ASSUME NEW a \in ValidAddrs, NEW p \in SetPaths(a)
    PROVE  Parse(Compose(p)) = p
<1> DEFINE s == Compose(p)
           u == SubLevels(p)
           t == Tail(Below(s))
           S == Words \cup {Word("set"), Num(p.addr), Word(p.topic), Num(p.cell),
                            Num(p.day), Num(p.slot), Word(p.sub)}
<1>1. a \in 0 .. 255 /\ p.addr = a /\ p.set = TRUE
    <2>1. a \in 0 .. 255
        BY RegistryAssumption, CallbackAssumption DEF ValidAddrs
    <2>2. \A w : PlainPath(a, TRUE, w).addr = a /\ PlainPath(a, TRUE, w).set = TRUE
        BY DEF PlainPath, Path
    <2>3. \A x, c : /\ EepromPath(a, TRUE, x, c).addr = a
                    /\ EepromPath(a, TRUE, x, c).set = TRUE
        BY DEF EepromPath, Path
    <2>4. \A x, d, h : /\ TimerPath(a, TRUE, x, d, h).addr = a
                       /\ TimerPath(a, TRUE, x, d, h).set = TRUE
        BY DEF TimerPath, Path
    <2>5. \/ \E w \in Settable : p = PlainPath(a, TRUE, w)
          \/ \E x \in Accesses, c \in EepromCells : p = EepromPath(a, TRUE, x, c)
          \/ \E x \in TimerTopics, d \in Days, h \in Hours : p = TimerPath(a, TRUE, x, d, h)
        BY PathsToSet
    <2> HIDE DEF s, u, t, S
    <2> QED
        BY <2>1, <2>2, <2>3, <2>4, <2>5
<1>6. \A w : Word(w).word = w
    BY DEF Word
<1>2. ASSUME u \in Seq(S), Len(u) \in Nat
      PROVE  /\ s = Compose(p) /\ Parse(s) = ParseClient(t, TRUE)
             /\ Len(t) = 2 + Len(u)
             /\ t[1] = Num(a) /\ t[2] = Word(p.topic)
             /\ \A i \in 1 .. Len(u) : t[2 + i] = u[i]
             /\ IsNum(t[1]) /\ ToNum(t[1]) = a
             /\ t[2].word = p.topic
    <2>1. /\ Words \subseteq S /\ Word("set") \in S /\ Num(p.addr) \in S
          /\ Word(p.topic) \in S
        OBVIOUS
    <2>11. /\ Word(p.topic).word = p.topic
           /\ IsNum(Num(a)) /\ ToNum(Num(a)) = a
        BY <1>1, <1>6, ByteLevel
    <2> HIDE DEF S
    <2>2. /\ Len(s) = SetLevel + 2 + Len(u)
          /\ \A i \in 1 .. Len(Prefix) : s[i] = Prefix[i]
          /\ s[SetLevel] = Word("set")
          /\ s[SetLevel + 1] = Num(p.addr)
          /\ s[SetLevel + 2] = Word(p.topic)
          /\ \A i \in 1 .. Len(u) : s[SetLevel + 2 + i] = u[i]
        BY <1>1, <1>2, <2>1, ComposedTopic
    <2>3. s \in Seq(S)
        <3>1. Prefix \in Seq(S)
            BY <2>1, PrefixAssumption, SeqMonotonic
        <3>2. <<Word("set")>> \in Seq(S) /\ <<Num(p.addr), Word(p.topic)>> \in Seq(S)
            BY <2>1
        <3> HIDE DEF u, s
        <3>3. s = ((Prefix \o <<Word("set")>>) \o <<Num(p.addr), Word(p.topic)>>) \o u
            BY <1>1 DEF Compose, s, u
        <3> QED
            BY <1>2, <3>1, <3>2, <3>3
    <2>4. SetLevel \in Nat
        BY PrefixAssumption DEF SetLevel
    <2> DEFINE n == 2 + Len(u)
    <2>5. n \in Nat /\ n > 0 /\ Len(s) = SetLevel + n
        BY <1>2, <2>2, <2>4
    <2> HIDE DEF s, u, t, n
    <2>6. /\ Parse(s) = ParseClient(Tail(Below(s)), TRUE)
          /\ Len(Tail(Below(s))) = n
          /\ \A i \in 1 .. n : Tail(Below(s))[i] = s[SetLevel + i]
        BY <2>1, <2>2, <2>3, <2>5, ReadBelow
    <2>7. 1 \in 1 .. n /\ 2 \in 1 .. n
        BY <1>2 DEF n
    <2>8. t[1] = Num(a) /\ t[2] = Word(p.topic)
        BY <1>1, <2>2, <2>6, <2>7 DEF t
    <2>9. ASSUME NEW i \in 1 .. Len(u) PROVE t[2 + i] = u[i]
        <3>1. 2 + i \in 1 .. n /\ SetLevel + (2 + i) = SetLevel + 2 + i
            BY <1>2, <2>4 DEF n
        <3> QED
            BY <3>1, <2>2, <2>6 DEF t
    <2>10. t[2].word = p.topic /\ IsNum(t[1]) /\ ToNum(t[1]) = a
        BY <2>11, <2>8
    <2> QED
        BY <2>6, <2>8, <2>9, <2>10 DEF n, t, s
<1>3. ASSUME NEW w \in Settable, p = PlainPath(a, TRUE, w)
      PROVE  Parse(s) = p
    <2>1. p.topic = w /\ u = <<>>
        BY <1>3 DEF PlainPath, Path, SubLevels, Settable
    <2>2. u \in Seq(S) /\ Len(u) = 0
        BY <2>1
    <2> HIDE DEF s, u, t, S
    <2>6. /\ Parse(s) = ParseClient(t, TRUE) /\ Len(t) = 2 + Len(u)
          /\ IsNum(t[1]) /\ ToNum(t[1]) = a /\ t[2].word = p.topic
        <3>1. u \in Seq(S) /\ Len(u) \in Nat
            BY <2>2
        <3> QED
            BY <1>2, <3>1
    <2>3. Parse(s) = ParseClient(t, TRUE) /\ Len(t) = 2
          /\ IsNum(t[1]) /\ ToNum(t[1]) = a /\ t[2].word = w
        BY <2>1, <2>2, <2>6
    <2>4. IsPlain(t) /\ ~IsEeprom(t, TRUE) /\ ~IsTimer(t)
        BY <1>3, <2>3 DEF IsPlain, IsEeprom, IsTimer
    <2>5. ParseClient(t, TRUE) = PlainPath(a, TRUE, w)
        BY <2>3, <2>4, SMT DEF ParseClient
    <2> QED
        BY <1>3, <2>3, <2>5
<1>4. ASSUME NEW x \in Accesses, NEW c \in EepromCells, p = EepromPath(a, TRUE, x, c)
      PROVE  Parse(s) = p
    <2>1. p.topic = "eeprom" /\ p.cell = c /\ p.sub = x /\ p.set = TRUE
        BY <1>4 DEF EepromPath, Path
    <2>2. u = <<Num(c)>> \o <<Word(x)>>
        BY <2>1 DEF SubLevels
    <2>3. c \in 0 .. 255
        BY CallbackAssumption
    <2>4. /\ IsNum(Num(c)) /\ ToNum(Num(c)) = c
          /\ Word(x).word = x
        BY <1>6, <2>3, ByteLevel
    <2>11. Num(c) \in S /\ Word(x) \in S
        BY <2>1
    <2> HIDE DEF s, u, t, S
    <2>5. u \in Seq(S) /\ Len(u) = 2 /\ u[1] = Num(c) /\ u[2] = Word(x)
        <3>1. <<Num(c)>> \o <<Word(x)>> \in Seq(S)
              /\ Len(<<Num(c)>> \o <<Word(x)>>) = 2
              /\ (<<Num(c)>> \o <<Word(x)>>)[1] = Num(c)
              /\ (<<Num(c)>> \o <<Word(x)>>)[2] = Word(x)
            BY <2>11, TwoLevels
        <3> QED
            BY <3>1, <2>2
    <2>6. /\ Parse(s) = ParseClient(t, TRUE) /\ Len(t) = 2 + Len(u)
          /\ IsNum(t[1]) /\ ToNum(t[1]) = a /\ t[2].word = p.topic
          /\ \A i \in 1 .. Len(u) : t[2 + i] = u[i]
        BY <1>2, <2>1, <2>5
    <2>7. Len(t) = 4 /\ t[2].word = "eeprom" /\ t[3] = Num(c) /\ t[4] = Word(x)
        <3>1. 1 \in 1 .. Len(u) /\ 2 \in 1 .. Len(u) /\ 2 + 1 = 3 /\ 2 + 2 = 4
            BY <2>5
        <3>2. t[2 + 1] = u[1] /\ t[2 + 2] = u[2]
            BY <3>1, <2>6
        <3> QED
            BY <3>1, <3>2, <2>1, <2>5, <2>6
    <2>8. /\ IsNum(t[1]) /\ ToNum(t[1]) = a /\ IsNum(t[3]) /\ ToNum(t[3]) = c
          /\ t[4].word = x /\ Access(t, TRUE) = x
        BY <2>4, <2>6, <2>7 DEF Access
    <2>9. ~IsPlain(t) /\ IsEeprom(t, TRUE) /\ ~IsTimer(t)
        BY <1>4, <2>7, <2>8 DEF IsPlain, IsEeprom, IsTimer, EepromWords
    <2>10. ParseClient(t, TRUE) = EepromPath(a, TRUE, x, c)
        <3>1. ParseClient(t, TRUE) =
                 EepromPath(ToNum(t[1]), TRUE, Access(t, TRUE), ToNum(t[3]))
            <4>1. Len(t) > 1 /\ IsNum(t[1])
                BY <2>7, <2>8
            <4> QED
                BY <4>1, <2>9, SMT DEF ParseClient
        <3> QED
            BY <3>1, <2>8
    <2> QED
        BY <1>4, <2>6, <2>10
<1>5. ASSUME NEW x \in TimerTopics, NEW d \in Days, NEW h \in Hours,
             p = TimerPath(a, TRUE, x, d, h)
      PROVE  Parse(s) = p
    <2>1. p.topic = "timer" /\ p.day = d /\ p.slot = h /\ p.sub = x
        BY <1>5 DEF TimerPath, Path
    <2>2. u = <<Num(d), Num(h), Word(x)>>
        BY <2>1 DEF SubLevels
    <2>3. d \in 0 .. 255 /\ h \in 0 .. 255
        BY CallbackAssumption DEF Days, Hours
    <2>4. /\ IsNum(Num(d)) /\ ToNum(Num(d)) = d
          /\ IsNum(Num(h)) /\ ToNum(Num(h)) = h
          /\ Word(x).word = x
        BY <1>6, <2>3, ByteLevel
    <2>11. Num(d) \in S /\ Num(h) \in S /\ Word(x) \in S
        BY <2>1
    <2> HIDE DEF s, u, t, S
    <2>5. u \in Seq(S) /\ Len(u) = 3
          /\ u[1] = Num(d) /\ u[2] = Num(h) /\ u[3] = Word(x)
        BY <2>2, <2>11
    <2>6. /\ Parse(s) = ParseClient(t, TRUE) /\ Len(t) = 2 + Len(u)
          /\ IsNum(t[1]) /\ ToNum(t[1]) = a /\ t[2].word = p.topic
          /\ \A i \in 1 .. Len(u) : t[2 + i] = u[i]
        BY <1>2, <2>1, <2>5
    <2>7. Len(t) = 5 /\ t[2].word = "timer"
          /\ t[3] = Num(d) /\ t[4] = Num(h) /\ t[5] = Word(x)
        <3>1. 1 \in 1 .. Len(u) /\ 2 \in 1 .. Len(u) /\ 3 \in 1 .. Len(u)
              /\ 2 + 1 = 3 /\ 2 + 2 = 4 /\ 2 + 3 = 5
            BY <2>5
        <3>2. t[2 + 1] = u[1] /\ t[2 + 2] = u[2] /\ t[2 + 3] = u[3]
            BY <3>1, <2>6
        <3> QED
            BY <3>1, <3>2, <2>1, <2>5, <2>6
    <2>8. /\ IsNum(t[1]) /\ ToNum(t[1]) = a
          /\ IsNum(t[3]) /\ ToNum(t[3]) = d /\ IsNum(t[4]) /\ ToNum(t[4]) = h
          /\ t[5].word = x
        BY <2>4, <2>6, <2>7
    <2>9. ~IsPlain(t) /\ ~IsEeprom(t, TRUE) /\ IsTimer(t)
        BY <1>5, <2>7, <2>8 DEF IsPlain, IsEeprom, IsTimer, TimerWords
    <2>10. ParseClient(t, TRUE) = TimerPath(a, TRUE, x, d, h)
        BY <2>7, <2>8, <2>9, SMT DEF ParseClient
    <2> QED
        BY <1>5, <2>6, <2>10
<1> HIDE DEF s
<1> QED
    BY <1>3, <1>4, <1>5, PathsToSet DEF s

(* A value that is published and sent back is the one requested. *)
LEMMA PublishedIsRequested ==
    ASSUME NEW a, NEW p \in SetPaths(a), NEW v \in ValuesOf(p),
           NEW m, m.text = Published(p, v), NEW seen \in BOOLEAN
    PROVE  Requested(p, m, seen) = {Assign(p, v)}
<1>1. ASSUME NEW w \in Settable, p = PlainPath(a, TRUE, w)
      PROVE  Requested(p, m, seen) = {Assign(p, v)}
    <2>1. p.topic = w /\ p.sub = "" /\ p.day = 0 /\ p.slot = 0 /\ p.cell = 0
        BY <1>1 DEF PlainPath, Path
    <2>2. CASE w = "requested_temp"
        <3>1. v \in 0 .. 255 /\ m.text = WriteHalf(v)
            BY <2>1, <2>2 DEF ValuesOf, Published
        <3>2. IsTemp(m.text) /\ ReadHalf(m.text) = v
            BY <3>1, HalfRead
        <3> QED
            BY <2>1, <2>2, <3>2 DEF Requested
    <2>3. ASSUME w \in {"auto", "lock"}
          PROVE  /\ v \in {0, 1} /\ IsBool(m.text) /\ ReadBool(m.text) \in BOOLEAN
                 /\ Truth(ReadBool(m.text)) = v
        <3>5. p.topic \in {"auto", "lock"} /\ p.topic # "timer"
              /\ p.topic # "requested_temp"
            BY <2>1, <2>3
        <3>6. v \in 0 .. 1
            BY <3>5, <2>1 DEF ValuesOf
        <3>7. Published(p, v) = WriteBool(v = 1)
            BY <3>5, Zenon DEF Published
        <3>1. v \in {0, 1} /\ m.text = WriteBool(v = 1)
            BY <3>6, <3>7
        <3>2. (v = 1) \in BOOLEAN
            OBVIOUS
        <3>3. IsBool(m.text) /\ ReadBool(m.text) = (v = 1)
            BY <3>1, <3>2, BoolRead
        <3>4. Truth(v = 1) = v
            BY <3>1 DEF Truth
        <3> QED
            BY <3>1, <3>3, <3>4
    <2>4. CASE w = "auto"
        <3>1. IsBool(m.text) /\ Truth(ReadBool(m.text)) = v
            BY <2>3, <2>4
        <3> QED
            BY <2>1, <2>4, <3>1 DEF Requested
    <2>5. CASE w = "lock"
        <3>1. IsBool(m.text) /\ Truth(ReadBool(m.text)) = v
            BY <2>3, <2>5
        <3>2. AssignTo("lock", v) = Assign(p, v)
            BY <1>1, <2>5 DEF AssignTo, Assign, Request, PlainPath, Path
        <3>3. ReadLock(m.text) = {Assign(p, v)}
            BY <3>1, <3>2 DEF ReadLock
        <3> QED
            BY <2>1, <2>5, <3>3 DEF Requested
    <2>6. CASE w = "mode"
        BY <2>1, <2>6 DEF ValuesOf
    <2> QED
        BY <1>1, <2>2, <2>4, <2>5, <2>6 DEF Settable
<1>2. ASSUME NEW x \in Accesses, NEW c \in EepromCells, p = EepromPath(a, TRUE, x, c)
      PROVE  Requested(p, m, seen) = {Assign(p, v)}
    <2>1. p.topic = "eeprom" /\ p.sub = x
        BY <1>2 DEF EepromPath, Path
    <2>2. Requested(p, m, seen) = ReadEeprom(p, m.text)
        BY <2>1 DEF Requested
    <2>3. CASE x = "read"
        <3>1. v = 0
            BY <2>1, <2>3 DEF ValuesOf
        <3> QED
            BY <2>1, <2>2, <2>3, <3>1 DEF ReadEeprom
    <2>4. CASE x = "write"
        <3>1. v \in 0 .. 255 /\ m.text = WriteInt(v)
            BY <2>1, <2>4 DEF ValuesOf, Published
        <3>2. IsInt(m.text) /\ ReadByte(m.text) = v
            BY <3>1, ByteRead
        <3> QED
            BY <2>1, <2>2, <2>4, <3>2 DEF ReadEeprom
    <2> QED
        BY <1>2, <2>3, <2>4 DEF Accesses
<1>3. ASSUME NEW x \in TimerTopics, NEW d \in Days, NEW h \in Hours,
             p = TimerPath(a, TRUE, x, d, h)
      PROVE  Requested(p, m, seen) = {Assign(p, v)}
    <2>1. p.topic = "timer" /\ p.sub = x
        BY <1>3 DEF TimerPath, Path
    <2>2. Requested(p, m, seen) = ReadTimer(p, m.text)
        BY <2>1 DEF Requested
    <2>3. CASE x = "time"
        <3>1. v \in 0 .. 24 * 60 - 1 /\ m.text = WriteTime(v)
            BY <2>1, <2>3 DEF ValuesOf, Published
        <3>3. v \in 0 .. 2 ^ 12 - 1
            BY <3>1
        <3>2. IsTime(m.text) /\ ReadTime(m.text) = v
            BY <3>1, <3>3, TimeRead
        <3> QED
            BY <2>1, <2>2, <2>3, <3>2 DEF ReadTimer
    <2>4. CASE x = "mode"
        <3>1. v \in 0 .. 15 /\ m.text = WriteInt(v)
            BY <2>1, <2>4 DEF ValuesOf, Published
        <3>2. v \in 0 .. 255 /\ v % 16 = v
            BY <3>1
        <3>3. IsNat(m.text) /\ ReadByte(m.text) = v
            BY <3>1, <3>2, ByteRead
        <3>4. ReadByte(m.text) % 16 = v
            BY <3>2, <3>3
        <3> QED
            BY <2>1, <2>2, <2>4, <3>3, <3>4 DEF ReadTimer
    <2> QED
        BY <1>3, <2>3, <2>4 DEF TimerTopics
<1> QED
    BY <1>1, <1>2, <1>3, PathsToSet

(* What a message sent back is the echo of. *)
LEMMA EchoesOf ==
    ASSUME NEW m, NEW e \in Echo(m)
    PROVE  \E a \in ValidAddrs \ {0} :
              /\ e.path \in SetPaths(a) /\ Compose(e.path) = m.topic
              /\ e.val \in ValuesOf(e.path) /\ Published(e.path, e.val) = m.text
<1> DEFINE V(p) == {w \in ValuesOf(p) : Published(p, w) = m.text}
           E(p) == {[path |-> p, val |-> v] : v \in V(p)}
           A == UNION {SetPaths(a) : a \in ValidAddrs \ {0}}
           P == {q \in A : Compose(q) = m.topic}
<1>1. Echo(m) = UNION {E(p) : p \in P}
    BY DEF Echo
<1> HIDE DEF E, P
<1>2. PICK p \in P : e \in E(p)
    BY <1>1
<1>3. PICK v \in V(p) : e = [path |-> p, val |-> v]
    BY <1>2 DEF E
<1>4. e.path = p /\ e.val = v
    BY <1>3
<1>5. p \in A /\ Compose(p) = m.topic
    BY DEF P
<1>6. PICK a \in ValidAddrs \ {0} : p \in SetPaths(a)
    BY <1>5
<1> HIDE DEF A
<1> QED
    BY <1>3, <1>4, <1>5, <1>6

(* The echo of a message is taken, as a request for the value published. *)
LEMMA EchoIsTaken ==
    ASSUME NEW m, NEW e \in Echo(m), NEW seen \in BOOLEAN
    PROVE  /\ Parse(m.topic) = e.path /\ Takes(e.path)
           /\ e.path.addr \in ValidAddrs
           /\ Requested(e.path, m, seen) = {Assign(e.path, e.val)}
<1>1. PICK a \in ValidAddrs \ {0} :
          /\ e.path \in SetPaths(a) /\ Compose(e.path) = m.topic
          /\ e.val \in ValuesOf(e.path) /\ Published(e.path, e.val) = m.text
    BY EchoesOf
<1> DEFINE p == e.path
<1> HIDE DEF p
<1>2. p \in SetPaths(a) /\ a \in ValidAddrs /\ a # 0
    BY <1>1 DEF p
<1>3. Parse(m.topic) = p
    BY <1>1, <1>2, ComposedIsParsed DEF p
<1>4. p.addr = a /\ Takes(p)
    <2>1. CASE \E w \in Settable : p = PlainPath(a, TRUE, w)
        <3>3. PICK w \in Settable : p = PlainPath(a, TRUE, w)
            BY <2>1
        <3>4. p.topic = w
            BY <3>3 DEF PlainPath, Path
        <3>1. p.addr = a /\ p.set = TRUE /\ p.topic \in Settable
            BY <3>3, <3>4 DEF PlainPath, Path
        <3>2. p.topic # "timer"
            BY <3>1 DEF Settable
        <3> QED
            BY <1>2, <3>1, <3>2 DEF Takes
    <2>2. CASE \E x \in Accesses, c \in EepromCells : p = EepromPath(a, TRUE, x, c)
        <3>1. p.addr = a /\ p.set = TRUE /\ p.topic = "eeprom"
            BY <2>2 DEF EepromPath, Path
        <3> QED
            BY <1>2, <3>1 DEF Takes
    <2>3. CASE \E x \in TimerTopics, d \in Days, h \in Hours : p = TimerPath(a, TRUE, x, d, h)
        <3>1. /\ p.addr = a /\ p.set = TRUE /\ p.topic = "timer"
              /\ p.day \in Days /\ p.slot \in Hours
            BY <2>3 DEF TimerPath, Path
        <3>2. p.day < TimerDays /\ p.slot < SlotsPerDay
            BY <3>1, CallbackAssumption DEF Days, Hours
        <3> QED
            BY <1>2, <3>1, <3>2 DEF Takes
    <2> QED
        BY <1>2, <2>1, <2>2, <2>3, PathsToSet
<1>5. Requested(p, m, seen) = {Assign(p, e.val)}
    BY <1>1, <1>2, PublishedIsRequested DEF p
<1> QED
    BY <1>2, <1>3, <1>4, <1>5 DEF p

(* No message is the echo of nothing: compose writes no empty topic. *)
LEMMA NoEcho == Echo(NoMessage) = {}
<1> SUFFICES ASSUME NEW e \in Echo(NoMessage) PROVE FALSE
    OBVIOUS
<1>1. Parse(<<>>) = e.path /\ Takes(e.path)
    BY EchoIsTaken DEF NoMessage, Message
<1>2. Below(<<>>) = <<>>
    <2>1. Len(<<>>) = 0 /\ Len(Prefix) \in Nat
        BY PrefixAssumption
    <2> QED
        BY <2>1 DEF Below
<1>3. Parse(<<>>) = NoPath
    <2>1. Parse(<<>>) = ParseClient(<<>>, FALSE)
        BY <1>2 DEF Parse
    <2>2. ~(Len(<<>>) > 1)
        OBVIOUS
    <2> QED
        BY <2>1, <2>2 DEF ParseClient
<1>4. NoPath.set = FALSE
    BY DEF NoPath, PlainPath, Path
<1> QED
    BY <1>1, <1>3, <1>4 DEF Takes

(***************************************************************************)
(* What the master publishes of a value, sent back on the topic of the set *)
(* branch, asks the client for just this value.                            *)
(***************************************************************************)
THEOREM RequestsAreUnderstood == CallbackSpec => RequestsGetThrough
<1> DEFINE Through ==
             \A e \in EchoOf[message'] :
                e.path.addr \in Enrolled =>
                   clients'[index[e.path.addr]].wanted = {Assign(e.path, e.val)}
<1>1. CallbackIInv /\ [CallbackNext]_callbackVars => [Through]_callbackVars
    <2>1. SUFFICES ASSUME CallbackIInv, CallbackNext,
                          NEW e \in EchoOf[message'], e.path.addr \in Enrolled
                   PROVE  clients'[index[e.path.addr]].wanted = {Assign(e.path, e.val)}
        OBVIOUS
    <2>2. ASSUME NEW m \in Messages, message' = m
          PROVE  e \in Echo(m)
        BY <2>1, <2>2 DEF EchoOf
    <2>3. ASSUME NEW m \in Messages, OnRequest(m)
          PROVE  clients'[index[e.path.addr]].wanted = {Assign(e.path, e.val)}
        <3>1. PICK seen \in BOOLEAN :
                  /\ Ask(Parse(m.topic).addr, Requested(Parse(m.topic), m, seen))
                  /\ message' = m
            BY <2>3 DEF OnRequest
        <3>2. /\ Parse(m.topic) = e.path
              /\ Requested(e.path, m, seen) = {Assign(e.path, e.val)}
            BY <2>2, <3>1, EchoIsTaken
        <3>3. Ask(e.path.addr, {Assign(e.path, e.val)})
            BY <3>1, <3>2
        <3>4. index[e.path.addr] \in Slots /\ clients \in [Slots -> Client]
            BY <2>1 DEF CallbackIInv, IInv, TypeOK, Enrolled, Slots
        <3> QED
            BY <3>3, <3>4 DEF Ask, Asked, Client
    <2>4. ASSUME NEW m \in Messages, OnOther(m) PROVE FALSE
        <3>1. PICK seen \in BOOLEAN :
                  /\ ~(/\ Takes(Parse(m.topic)) /\ Known(Parse(m.topic).addr)
                       /\ Requested(Parse(m.topic), m, seen) # {})
                  /\ message' = m
            BY <2>4 DEF OnOther
        <3>2. /\ Parse(m.topic) = e.path /\ Takes(e.path)
              /\ Requested(e.path, m, seen) = {Assign(e.path, e.val)}
            BY <2>2, <3>1, EchoIsTaken
        <3>3. Known(e.path.addr)
            BY <2>1, RegistryAssumption DEF Enrolled, ValidAddrs, Known
        <3>4. Requested(e.path, m, seen) # {}
            BY <3>2
        <3> QED
            BY <3>1, <3>2, <3>3, <3>4
    <2>5. ASSUME NEW b \in Addrs, NEW v \in Reports, OnPacket(b, v) PROVE FALSE
        <3>1. e \in Echo(NoMessage)
            BY <2>1, <2>5 DEF OnPacket, EchoOf
        <3> QED
            BY <3>1, NoEcho
    <2> QED
        BY <2>1, <2>3, <2>4, <2>5 DEF CallbackNext
<1>2. CallbackSpec => [][Through]_callbackVars
    BY <1>1, CallbackInvariance, PTL DEF CallbackSpec
<1> QED
    BY <1>2 DEF RequestsGetThrough
=============================================================================
