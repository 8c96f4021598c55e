--------------------------- MODULE EventLogProofs ---------------------------
(***************************************************************************)
(* Proofs about the ring of events and the pages that show it, for rings,  *)
(* iterators and portions of any length and any number of events.          *)
(***************************************************************************)
EXTENDS EventPages, TLAPS, SequenceTheorems, WellFoundedInduction

(* Division with remainder is unique: what the iterator's % comes to.       *)
LEMMA ModUnique ==
    ASSUME NEW d \in Nat \ {0}, NEW k \in Int, NEW r \in 0 .. d - 1
    PROVE  (k * d + r) % d = r
<1> DEFINE a == k * d + r
           h == a \div d
           m == a % d
<1>1. a \in Int /\ h \in Int /\ m \in 0 .. d - 1 /\ a = d * h + m
    OBVIOUS
<1> HIDE DEF h, m
<1>2. d * (k - h) = m - r
    BY <1>1
<1>3. CASE k - h >= 1
    <2>1. d * (k - h) >= d
        BY <1>3, <1>1
    <2> QED BY <2>1, <1>2, <1>1
<1>4. CASE k - h <= -1
    <2>1. d * (k - h) <= -d
        BY <1>4, <1>1
    <2> QED BY <2>1, <1>2, <1>1
<1>5. CASE k = h
    BY <1>5, <1>2, <1>1
<1> QED BY <1>3, <1>4, <1>5, <1>1

(* The slot of the i-th newest event when p is the next to be written. *)
Place(p, i) == IF i <= p THEN p - i ELSE p + LogLen - i

View(e, p) == [i \in 1 .. LogLen - 1 |-> e[Place(p, i)]]

(* The iterator after n steps. *)
LEMMA CursorIs ==
    ASSUME pos \in 0 .. LogLen - 1, NEW n \in 0 .. LogLen - 1
    PROVE  /\ n < LogLen - 1 => Cursor(n) % LogLen = Place(pos, n + 1)
           /\ AtEnd(n) <=> n = LogLen - 1
<1> DEFINE b == IF pos = 0 THEN LogLen - 1 ELSE pos - 1
<1>1. PICK q \in 1 .. IterMod : IterMod = q * LogLen
    BY EventLogAssumption
<1>2. LogLen \in Nat /\ LogLen > 1 /\ IterMod \in Nat /\ q \in Nat /\ q >= 1
    BY EventLogAssumption
<1>3. IterMod >= LogLen
    BY <1>1, <1>2
<1>4. Begin = b
    <2>1. CASE pos = 0
        <3>1. (0 * LogLen + (LogLen - 1)) % LogLen = LogLen - 1
            BY <1>2, ModUnique
        <3> QED BY <3>1, <2>1, <1>2 DEF Begin
    <2>2. CASE pos # 0
        <3>1. (1 * LogLen + (pos - 1)) % LogLen = pos - 1
            BY <1>2, <2>2, ModUnique
        <3> QED BY <3>1, <2>2, <1>2 DEF Begin
    <2> QED BY <2>1, <2>2
<1> HIDE DEF b
<1>b. b \in 0 .. LogLen - 1
    BY <1>2 DEF b
<1>5. CASE n <= b
    <2>1. (1 * IterMod + (b - n)) % IterMod = b - n
        BY <1>2, <1>3, <1>5, <1>b, ModUnique
    <2>2. Cursor(n) = b - n
        BY <2>1, <1>4, <1>2, <1>b DEF Cursor
    <2>3. (0 * LogLen + (b - n)) % LogLen = b - n
        BY <1>2, <1>5, <1>b, ModUnique
    <2>4. Cursor(n) % LogLen = b - n
        BY <2>2, <2>3, <1>2, <1>b
    <2>5. pos % LogLen = pos
        <3>1. (0 * LogLen + pos) % LogLen = pos
            BY <1>2, ModUnique
        <3> QED BY <3>1, <1>2
    <2> QED BY <2>4, <2>5, <1>5, <1>2 DEF b, AtEnd, Place
<1>6. CASE n > b
    <2>1. (0 * IterMod + (IterMod + b - n)) % IterMod = IterMod + b - n
        BY <1>2, <1>3, <1>6, <1>b, ModUnique
    <2>2. Cursor(n) = IterMod + b - n
        BY <2>1, <1>4, <1>2, <1>b DEF Cursor
    <2>3. ((q - 1) * LogLen + (LogLen + b - n)) % LogLen = LogLen + b - n
        <3>1. q - 1 \in Int /\ LogLen + b - n \in 0 .. LogLen - 1
            BY <1>2, <1>6, <1>b
        <3> QED BY <3>1, <1>2, ModUnique
    <2>4. (q - 1) * LogLen + (LogLen + b - n) = IterMod + b - n
        BY <1>1, <1>2, <1>b
    <2>5. Cursor(n) % LogLen = LogLen + b - n
        BY <2>2, <2>3, <2>4
    <2>6. pos % LogLen = pos
        <3>1. (0 * LogLen + pos) % LogLen = pos
            BY <1>2, ModUnique
        <3> QED BY <3>1, <1>2
    <2> QED BY <2>5, <2>6, <1>6, <1>2 DEF b, AtEnd, Place
<1> QED BY <1>5, <1>6, <1>2, <1>b

(* What the iterator passes are the newest LogLen - 1 slots.                *)
LEMMA ListedIs == pos \in 0 .. LogLen - 1 => Listed = View(events, pos)
<1> SUFFICES ASSUME pos \in 0 .. LogLen - 1
             PROVE  Listed = View(events, pos)
    OBVIOUS
<1> DEFINE N == {n \in 0 .. IterMod : AtEnd(n)}
<1>1. LogLen \in Nat /\ LogLen > 1 /\ IterMod \in Nat /\ IterMod >= LogLen
    BY EventLogAssumption
<1>2. LogLen - 1 \in N
    BY <1>1, CursorIs
<1>3. \A n \in N : LogLen - 1 <= n
    BY <1>1, CursorIs
<1>4. Min(N) = LogLen - 1
    BY <1>1, <1>2, <1>3 DEF Min
<1>5. ASSUME NEW i \in 1 .. LogLen - 1
      PROVE  Cursor(i - 1) % LogLen = Place(pos, i)
    <2>1. i - 1 \in 0 .. LogLen - 1 /\ i - 1 < LogLen - 1 /\ i - 1 + 1 = i
        BY <1>1
    <2> QED BY <2>1, CursorIs
<1>6. Listed = [i \in 1 .. LogLen - 1 |-> events[Cursor(i - 1) % LogLen]]
    BY <1>4 DEF Listed
<1> QED
    BY <1>5, <1>6 DEF View

(* The same after a step.                                                   *)
LEMMA ListedIsNext == (pos \in 0 .. LogLen - 1)' => (Listed = View(events, pos))'
BY ListedIs, PTL
-----------------------------------------------------------------------------
(* An event that is reported becomes the newest one and moves the others on. *)
LEMMA AppendPushes ==
    ASSUME LogTypeOK, NEW c \in Codes, AppendEvent(c)
    PROVE  /\ LogTypeOK'
           /\ View(events', pos') =
                [i \in 1 .. LogLen - 1 |->
                   IF i = 1 THEN [code |-> c, time |-> now] ELSE View(events, pos)[i - 1]]
<1> DEFINE e == [code |-> c, time |-> now]
<1>1. LogLen \in Nat /\ LogLen > 1 /\ pos \in 0 .. LogLen - 1
    BY EventLogAssumption DEF LogTypeOK
<1>2. pos' = IF pos = LogLen - 1 THEN 0 ELSE pos + 1
    <2>1. CASE pos = LogLen - 1
        <3>1. (1 * LogLen + 0) % LogLen = 0
            BY <1>1, ModUnique
        <3> QED BY <3>1, <2>1, <1>1 DEF AppendEvent
    <2>2. CASE pos # LogLen - 1
        <3>1. (0 * LogLen + (pos + 1)) % LogLen = pos + 1
            BY <1>1, <2>2, ModUnique
        <3> QED BY <3>1, <2>2, <1>1 DEF AppendEvent
    <2> QED BY <2>1, <2>2
<1>3. e \in Event
    BY DEF Event, LogTypeOK
<1>4. events' = [events EXCEPT ![pos] = e] /\ now' = now
    BY DEF AppendEvent
<1>5. LogTypeOK'
    BY <1>1, <1>2, <1>3, <1>4 DEF LogTypeOK
<1>6. ASSUME NEW i \in 1 .. LogLen - 1
      PROVE  events'[Place(pos', i)] =
               IF i = 1 THEN e ELSE View(events, pos)[i - 1]
    <2>1. CASE i = 1
        <3>1. Place(pos', 1) = pos
            BY <1>1, <1>2 DEF Place
        <3> QED BY <3>1, <2>1, <1>4, <1>1 DEF LogTypeOK
    <2>2. CASE i # 1
        <3>1. /\ Place(pos', i) = Place(pos, i - 1)
              /\ Place(pos, i - 1) \in 0 .. LogLen - 1
              /\ Place(pos, i - 1) # pos
              /\ i - 1 \in 1 .. LogLen - 1
            BY <2>2, <1>1, <1>2 DEF Place
        <3>2. events'[Place(pos, i - 1)] = events[Place(pos, i - 1)]
            BY <3>1, <1>4 DEF LogTypeOK
        <3> QED BY <3>1, <3>2, <2>2 DEF View
    <2> QED BY <2>1, <2>2
<1> QED
    BY <1>5, <1>6 DEF View

(* After a restart nothing is listed but blank events. *)
LEMMA BlankView ==
    ASSUME NEW p \in 0 .. LogLen - 1
    PROVE  View([i \in 0 .. LogLen - 1 |-> Blank], p) = [i \in 1 .. LogLen - 1 |-> Blank]
<1>1. \A i \in 1 .. LogLen - 1 : Place(p, i) \in 0 .. LogLen - 1
    BY EventLogAssumption DEF Place
<1> QED
    BY <1>1 DEF View

(* The ring of a restart is a ring.                                         *)
LEMMA BlankLog ==
    /\ [i \in 0 .. LogLen - 1 |-> Blank] \in [0 .. LogLen - 1 -> Event]
    /\ 0 \in 0 .. LogLen - 1 /\ 0 \in Stamp
BY EventLogAssumption DEF Blank, Event, Stamp

(* The types hold at first.                                                 *)
LEMMA LogInitTypeOK == LogInit => LogTypeOK
BY BlankLog DEF LogInit, LogTypeOK

(* And each step of the ring keeps them.                                    *)
LEMMA LogNextTypeOK == LogTypeOK /\ [LogNext]_logVars => LogTypeOK'
<1> SUFFICES ASSUME LogTypeOK, [LogNext]_logVars
             PROVE  LogTypeOK'
    OBVIOUS
<1>1. ASSUME NEW c \in Codes, AppendEvent(c)
      PROVE  LogTypeOK'
    BY <1>1, AppendPushes
<1>2. ASSUME NEW t \in Times, Update(t)
      PROVE  LogTypeOK'
    BY <1>2 DEF Update, LogTypeOK, Stamp
<1>3. CASE Restart
    BY <1>3, BlankLog DEF Restart, LogTypeOK
<1>4. CASE UNCHANGED logVars
    BY <1>4 DEF logVars, LogTypeOK
<1> QED
    BY <1>1, <1>2, <1>3, <1>4 DEF LogNext

(* The variables of the ring keep their types: pos stays in the ring        *)
(* (append).                                                                *)
THEOREM LogTypeCorrect == LogSpec => []LogTypeOK
BY LogInitTypeOK, LogNextTypeOK, PTL DEF LogSpec

(* A step of the ring is a step of the list of recent events, or none. *)
LEMMA RingStep ==
    LogTypeOK /\ LogTypeOK' /\ [LogNext]_logVars => [Recent!Next]_Listed
<1> SUFFICES ASSUME LogTypeOK, LogTypeOK', [LogNext]_logVars
             PROVE  [Recent!Next]_Listed
    OBVIOUS
<1>1. Listed = View(events, pos)
    BY ListedIs DEF LogTypeOK
<1>2. Listed' = View(events', pos')
    BY ListedIsNext DEF LogTypeOK
<1>3. ASSUME NEW c \in Codes, AppendEvent(c)
      PROVE  Recent!Next
    <2>1. [code |-> c, time |-> now] \in Event
        BY DEF Event, LogTypeOK
    <2>2. Recent!Report([code |-> c, time |-> now])
        BY <1>1, <1>2, <1>3, AppendPushes DEF Recent!Report
    <2> QED
        BY <2>1, <2>2 DEF Recent!Next
<1>4. ASSUME NEW t \in Times, Update(t)
      PROVE  Listed' = Listed
    BY <1>1, <1>2, <1>4 DEF Update
<1>5. CASE Restart
    <2>1. Recent!Forget
        BY <1>2, <1>5, BlankView, BlankLog DEF Restart, Recent!Forget
    <2> QED
        BY <2>1 DEF Recent!Next
<1>6. CASE UNCHANGED logVars
    BY <1>1, <1>2, <1>6 DEF logVars
<1> QED
    BY <1>3, <1>4, <1>5, <1>6 DEF LogNext

(* For every length of the ring that divides the range of the iterator,     *)
(* listing it shows the last LogLen - 1 events, newest first                *)
(* (EventLog::append, begin and end).                                       *)
THEOREM RingRefinesRecent == LogSpec => ImplementsRecent
<1>1. LogInit => Recent!Init
    <2> SUFFICES ASSUME LogInit PROVE Recent!Init
        OBVIOUS
    <2>1. Listed = View(events, pos)
        BY ListedIs, LogInitTypeOK DEF LogTypeOK
    <2> QED
        BY <2>1, BlankView, BlankLog DEF LogInit, Recent!Init
<1> QED
    BY <1>1, RingStep, LogTypeCorrect, PTL DEF LogSpec, ImplementsRecent, Recent!Spec
-----------------------------------------------------------------------------
(* The inductive invariant of the ring. *)
LogIInv ==
    /\ LogTypeOK
    /\ EmptiesLast
    /\ now = 0 => \A i \in DOMAIN Listed : Listed[i].time = 0

(* What is listed are LogLen - 1 events.                                    *)
LEMMA ListedType ==
    LogTypeOK => Listed \in [1 .. LogLen - 1 -> Event] /\ Listed = View(events, pos)
<1> SUFFICES ASSUME LogTypeOK
             PROVE  View(events, pos) \in [1 .. LogLen - 1 -> Event]
    BY ListedIs DEF LogTypeOK
<1>1. \A i \in 1 .. LogLen - 1 : Place(pos, i) \in 0 .. LogLen - 1
    BY EventLogAssumption DEF Place, LogTypeOK
<1> QED
    BY <1>1 DEF View, LogTypeOK

(* The same after a step.                                                   *)
LEMMA ListedTypeNext ==
    LogTypeOK' => /\ (Listed \in [1 .. LogLen - 1 -> Event])'
                  /\ (Listed = View(events, pos))'
BY ListedType, PTL

(* The list after each step of the ring, as the proofs below use it.       *)
LEMMA ListedSteps ==
    ASSUME LogTypeOK
    PROVE  /\ \A c \in Codes : AppendEvent(c) =>
                 /\ LogTypeOK'
                 /\ Listed' = [i \in 1 .. LogLen - 1 |->
                                 IF i = 1 THEN [code |-> c, time |-> now] ELSE Listed[i - 1]]
           /\ Restart => LogTypeOK' /\ Listed' = [i \in 1 .. LogLen - 1 |-> Blank]
           /\ UNCHANGED <<events, pos>> => Listed' = Listed
<1>1. Listed = View(events, pos)
    BY ListedType
<1>2. ASSUME NEW c \in Codes, AppendEvent(c)
      PROVE  /\ LogTypeOK'
             /\ Listed' = [i \in 1 .. LogLen - 1 |->
                             IF i = 1 THEN [code |-> c, time |-> now] ELSE Listed[i - 1]]
    BY <1>1, <1>2, AppendPushes, ListedTypeNext
<1>3. ASSUME Restart
      PROVE  LogTypeOK' /\ Listed' = [i \in 1 .. LogLen - 1 |-> Blank]
    <2>1. LogTypeOK'
        BY <1>3, BlankLog DEF Restart, LogTypeOK
    <2> QED
        BY <2>1, <1>3, ListedTypeNext, BlankView, BlankLog DEF Restart
<1>4. ASSUME UNCHANGED <<events, pos>>
      PROVE  Listed' = Listed
    <2>1. (pos \in 0 .. LogLen - 1)'
        BY <1>4 DEF LogTypeOK
    <2> QED
        BY <2>1, <1>1, <1>4, ListedIsNext
<1> QED
    BY <1>2, <1>3, <1>4

(* The inductive invariant holds at first.                                  *)
LEMMA LogInitIInv == LogInit => LogIInv
<1> SUFFICES ASSUME LogInit PROVE LogIInv
    OBVIOUS
<1>1. LogTypeOK
    BY LogInitTypeOK
<1>2. Listed = [i \in 1 .. LogLen - 1 |-> Blank]
    BY <1>1, ListedType, BlankView, BlankLog DEF LogInit
<1> QED
    BY <1>1, <1>2 DEF LogIInv, EmptiesLast, Blank

(* And each step of the ring keeps it.                                      *)
LEMMA LogNextIInv == LogIInv /\ [LogNext]_logVars => LogIInv'
<1> SUFFICES ASSUME LogIInv, [LogNext]_logVars
             PROVE  LogIInv'
    OBVIOUS
<1>1. LogTypeOK /\ LogTypeOK'
    BY LogNextTypeOK DEF LogIInv
<1>2. Listed \in [1 .. LogLen - 1 -> Event] /\ LogLen \in Nat
    BY <1>1, ListedType, EventLogAssumption
<1>3. ASSUME NEW c \in Codes, AppendEvent(c)
      PROVE  LogIInv'
    <2>1. Listed' = [i \in 1 .. LogLen - 1 |->
                       IF i = 1 THEN [code |-> c, time |-> now] ELSE Listed[i - 1]]
        BY <1>1, <1>3, ListedSteps
    <2>2. now' = now
        BY <1>3 DEF AppendEvent
    <2>3. \A i, j \in 1 .. LogLen - 1 :
             i < j /\ Listed'[i].time = 0 => Listed'[j].time = 0
        <3> SUFFICES ASSUME NEW i \in 1 .. LogLen - 1, NEW j \in 1 .. LogLen - 1,
                            i < j, Listed'[i].time = 0
                     PROVE  Listed'[j].time = 0
            OBVIOUS
        <3>1. Listed'[j] = Listed[j - 1] /\ j - 1 \in 1 .. LogLen - 1
            BY <2>1, <1>2
        <3>2. CASE i = 1
            <4>1. now = 0
                BY <2>1, <3>2
            <4> QED
                BY <4>1, <3>1, <1>2 DEF LogIInv
        <3>3. CASE i # 1
            <4>1. Listed'[i] = Listed[i - 1] /\ i - 1 \in 1 .. LogLen - 1 /\ i - 1 < j - 1
                BY <2>1, <1>2, <3>3
            <4> QED
                BY <4>1, <3>1, <1>2 DEF LogIInv, EmptiesLast
        <3> QED
            BY <3>2, <3>3
    <2>4. now' = 0 => \A i \in 1 .. LogLen - 1 : Listed'[i].time = 0
        BY <2>1, <2>2, <1>2 DEF LogIInv
    <2>5. DOMAIN Listed' = 1 .. LogLen - 1
        BY <2>1
    <2> QED
        BY <1>1, <2>3, <2>4, <2>5 DEF LogIInv, EmptiesLast
<1>4. ASSUME NEW t \in Times, Update(t)
      PROVE  LogIInv'
    <2>1. Listed' = Listed /\ now' # 0
        BY <1>1, <1>4, ListedSteps, EventLogAssumption DEF Update
    <2> QED
        BY <1>1, <2>1 DEF LogIInv, EmptiesLast
<1>5. CASE Restart
    <2>1. Listed' = [i \in 1 .. LogLen - 1 |-> Blank]
        BY <1>1, <1>5, ListedSteps
    <2> QED
        BY <1>1, <2>1 DEF LogIInv, EmptiesLast, Blank
<1>6. CASE UNCHANGED logVars
    <2>1. Listed' = Listed /\ now' = now
        BY <1>1, <1>6, ListedSteps DEF logVars
    <2> QED
        BY <1>1, <2>1 DEF LogIInv, EmptiesLast
<1> QED
    BY <1>3, <1>4, <1>5, <1>6 DEF LogNext

(* No event with a time is listed after one without, so that what           *)
(* handle_events leaves out of a page is only ever the end of the log.      *)
THEOREM EmptyEventsLast == LogSpec => []EmptiesLast
<1>1. LogIInv => EmptiesLast
    BY DEF LogIInv
<1> QED
    BY <1>1, LogInitIInv, LogNextIInv, PTL DEF LogSpec
-----------------------------------------------------------------------------
(* A set of natural numbers that is not empty has a least element.          *)
LEMMA LeastElement ==
    ASSUME NEW S, S \subseteq Nat, S # {}
    PROVE  \E s \in S : \A t \in S : s <= t
<1>1. PICK s \in S : \A t \in S : ~ (<<t, s>> \in OpToRel(<, Nat))
    BY NatLessThanWellFounded, WFMin
<1>2. ASSUME NEW t \in S PROVE s <= t
    <2>1. s \in Nat /\ t \in Nat
        OBVIOUS
    <2>2. ~ (t < s)
        BY <1>1, <2>1 DEF OpToRel
    <2> QED
        BY <2>1, <2>2
<1> QED
    BY <1>2

(* f[i] has those of the first i elements of v that are among the first t.  *)
Filters(f, n, t, v) ==
    f = [i \in 0 .. n |-> IF i = 0 THEN <<>>
                          ELSE IF i <= t THEN Append(f[i - 1], v[i]) ELSE f[i - 1]]

Prefixes(n, t, v) == [i \in 0 .. n |-> [k \in 1 .. (IF i <= t THEN i ELSE t) |-> v[k]]]

(* A prefix of a function, taken as a sequence, grows by Append.            *)
LEMMA PrefixStep == ASSUME NEW v, NEW E, NEW n \in Nat \ {0}, \A k \in 1..n : v[k] \in E
   PROVE Append([k \in 1..n-1 |-> v[k]], v[n]) = [k \in 1..n |-> v[k]]
<1>1. [k \in 1..n-1 |-> v[k]] \in Seq(E)
  OBVIOUS
<1>2. Len([k \in 1..n-1 |-> v[k]]) = n - 1
  OBVIOUS
<1> QED BY <1>1, <1>2, AppendProperties

(* The prefixes of v up to t are a way to filter it.                        *)
LEMMA PrefixesFilter ==
    ASSUME NEW n \in Nat, NEW t \in 0 .. n, NEW E, NEW v, \A k \in 1 .. t : v[k] \in E
    PROVE  Filters(Prefixes(n, t, v), n, t, v)
<1> DEFINE W == Prefixes(n, t, v)
<1>1. W[0] = <<>> /\ W = [i \in 0 .. n |-> W[i]]
  BY DEF Prefixes
<1>2. ASSUME NEW i \in 1 .. n
      PROVE  W[i] = IF i <= t THEN Append(W[i - 1], v[i]) ELSE W[i - 1]
  <2>0. i \in Nat \ {0} /\ i - 1 \in 0 .. n /\ i \in 0 .. n
    OBVIOUS
  <2>1. CASE i <= t
    <3>1. W[i] = [k \in 1 .. i |-> v[k]]
        BY <2>0, <2>1 DEF Prefixes
    <3>2. W[i - 1] = [k \in 1 .. i - 1 |-> v[k]]
        BY <2>0, <2>1 DEF Prefixes
    <3>3. \A k \in 1 .. i : v[k] \in E
        BY <2>1
    <3> HIDE DEF W
    <3> QED
        BY <3>1, <3>2, <3>3, <2>0, <2>1, PrefixStep
  <2>2. CASE i > t
    <3>1. W[i] = [k \in 1 .. t |-> v[k]]
        BY <2>0, <2>2 DEF Prefixes
    <3>2. W[i - 1] = [k \in 1 .. t |-> v[k]]
        BY <2>0, <2>2 DEF Prefixes
    <3> HIDE DEF W
    <3> QED
        BY <3>1, <3>2, <2>2
  <2> QED BY <2>1, <2>2
<1> HIDE DEF W
<1> QED BY <1>1, <1>2 DEF Filters

(* There is one way to filter only.                                         *)
LEMMA FilterUnique ==
    ASSUME NEW n \in Nat, NEW t, NEW v, NEW f, NEW g,
           Filters(f, n, t, v), Filters(g, n, t, v)
    PROVE  f[n] = g[n]
<1> DEFINE D == {i \in 0 .. n : f[i] # g[i]}
<1>1. SUFFICES ASSUME D # {} PROVE FALSE
    OBVIOUS
<1>2. PICK i \in D : \A j \in D : i <= j
    <2>1. D \subseteq Nat
      OBVIOUS
    <2> QED BY <1>1, <2>1, LeastElement
<1>3. i # 0
    BY DEF Filters
<1>4. f[i - 1] = g[i - 1] /\ i \in 1 .. n
    BY <1>2, <1>3
<1>5. f[i] = IF i <= t THEN Append(f[i - 1], v[i]) ELSE f[i - 1]
    BY <1>4 DEF Filters
<1>6. g[i] = IF i <= t THEN Append(g[i - 1], v[i]) ELSE g[i - 1]
    BY <1>4 DEF Filters
<1> QED BY <1>4, <1>5, <1>6



Timed(i) == i \in DOMAIN Listed /\ HasTime(Listed[i])

(* What Portion writes after n events; f is the function it defines. *)
Writes(f, from) ==
    f = [n \in 0 .. PageLen |->
           IF n = 0 THEN <<>>
           ELSE IF from + n \in DOMAIN Listed /\ HasTime(Listed[from + n])
                THEN Append(f[n - 1], Listed[from + n])
                ELSE f[n - 1]]

(* Those of a portion that have a time are the first of it. *)
LEMMA TimedFirst ==
    ASSUME LogIInv, NEW from \in Nat
    PROVE  \E t \in 0 .. PageLen :
              /\ \A k \in 1 .. PageLen : Timed(from + k) <=> k <= t
              /\ t < PageLen => \A i \in DOMAIN Listed : Timed(i) => i <= from + t
<1> DEFINE Missing == {n \in 1 .. PageLen : ~Timed(from + n)}
<1>1. PageLen \in Nat \ {0} /\ LogLen \in Nat /\ LogLen > 1
    BY EventPagesAssumption, EventLogAssumption
<1>2. Listed \in [1 .. LogLen - 1 -> Event] /\ DOMAIN Listed = 1 .. LogLen - 1
    BY ListedType DEF LogIInv
<1>3. ASSUME NEW i \in Nat \ {0}, NEW j \in Nat \ {0}, i <= j, Timed(j)
      PROVE  Timed(i)
    <2>1. i \in 1 .. LogLen - 1 /\ j \in 1 .. LogLen - 1
        BY <1>2, <1>3, <1>1 DEF Timed
    <2> QED
        BY <2>1, <1>2, <1>3 DEF LogIInv, EmptiesLast, Timed, HasTime
<1>4. CASE Missing = {}
    <2>1. \A k \in 1 .. PageLen : Timed(from + k) <=> k <= PageLen
        BY <1>4
    <2>2. PageLen \in 0 .. PageLen /\ ~(PageLen < PageLen)
        BY <1>1
    <2> QED
        BY <2>1, <2>2
<1>5. CASE Missing # {}
    <2>1. PICK m \in Missing : \A n \in Missing : m <= n
        <3>1. Missing \subseteq Nat
            OBVIOUS
        <3> QED
            BY <1>5, <3>1, LeastElement
    <2>2. m \in 1 .. PageLen /\ ~Timed(from + m)
        OBVIOUS
    <2>3. ASSUME NEW i \in Nat, i >= from + m
          PROVE  ~Timed(i)
        <3>1. i \in Nat \ {0} /\ from + m \in Nat \ {0} /\ from + m <= i
            BY <2>2, <2>3, <1>1
        <3> QED
            BY <3>1, <2>2, <1>3
    <2>4. ASSUME NEW k \in 1 .. PageLen
          PROVE  Timed(from + k) <=> k <= m - 1
        <3>1. CASE k <= m - 1
            <4>1. k \notin Missing
                BY <2>1, <2>2, <3>1, <1>1
            <4> QED
                BY <4>1, <3>1
        <3>2. CASE ~(k <= m - 1)
            <4>1. from + k \in Nat /\ from + k >= from + m
                BY <2>2, <3>2, <1>1
            <4> QED
                BY <4>1, <2>3, <3>2
        <3> QED
            BY <3>1, <3>2
    <2>5. ASSUME NEW i \in DOMAIN Listed, Timed(i)
          PROVE  i <= from + (m - 1)
        <3>1. i \in Nat
            BY <1>2
        <3>2. ~(i >= from + m)
            BY <3>1, <2>3, <2>5
        <3> QED
            BY <3>1, <3>2, <2>2, <1>1
    <2>6. m - 1 \in 0 .. PageLen
        BY <2>2, <1>1
    <2> QED
        BY <2>4, <2>5, <2>6
<1> QED
    BY <1>4, <1>5

(* A portion is a piece of the list, and all that has a time of the rest   *)
(* when it is not full.                                                    *)
LEMMA PortionIs ==
    ASSUME LogIInv, NEW from \in Nat
    PROVE  \E t \in 0 .. PageLen :
              /\ Portion(from) = [k \in 1 .. t |-> Listed[from + k]]
              /\ \A k \in 1 .. t : Timed(from + k)
              /\ t < PageLen => \A i \in DOMAIN Listed : Timed(i) => i <= from + t
<1>1. PICK t \in 0 .. PageLen :
          /\ \A k \in 1 .. PageLen : Timed(from + k) <=> k <= t
          /\ t < PageLen => \A i \in DOMAIN Listed : Timed(i) => i <= from + t
    BY TimedFirst
<1>2. PageLen \in Nat
    BY EventPagesAssumption
<1>3. \A k \in 1 .. t : Timed(from + k)
    BY <1>1, <1>2
<1> DEFINE v == [k \in 1 .. PageLen |-> Listed[from + k]]
           W == Prefixes(PageLen, t, v)
<1>4. \A f : Filters(f, PageLen, t, v) <=> Writes(f, from)
    <2>1. \A n \in 0 .. PageLen :
             n # 0 => (n <= t <=> Timed(from + n)) /\ v[n] = Listed[from + n]
        BY <1>1, <1>2
    <2>2. ASSUME NEW f
          PROVE  Filters(f, PageLen, t, v) <=> Writes(f, from)
        BY <2>1 DEF Filters, Writes, Timed
    <2> QED
        BY <2>2
<1>5. Filters(W, PageLen, t, v)
    <2>1. \A k \in 1 .. t : v[k] \in {Listed[from + n] : n \in 1 .. PageLen}
        BY <1>2
    <2> QED
        BY <2>1, <1>2, PrefixesFilter
<1> DEFINE w == CHOOSE f : Writes(f, from)
<1>6. Writes(w, from)
    BY <1>4, <1>5
<1>7. Portion(from) = w[PageLen]
    BY Zenon DEF Portion, Writes
<1>8. w[PageLen] = W[PageLen]
    <2>1. Filters(w, PageLen, t, v)
        BY <1>4, <1>6
    <2> HIDE DEF w, W, v
    <2> QED
        BY <2>1, <1>5, <1>2, FilterUnique
<1>9. W[PageLen] = [k \in 1 .. t |-> Listed[from + k]]
    BY <1>2 DEF Prefixes
<1> HIDE DEF w, W
<1> QED
    BY <1>1, <1>3, <1>7, <1>8, <1>9
-----------------------------------------------------------------------------
(***************************************************************************)
(* The inductive invariant of the pages.  Screen is what is shown and what *)
(* will be once the answer is there.  An event with a time is where its    *)
(* number says.  As long as the page can go on, offset counts what is      *)
(* shown, what was shown as k-th is by now the k-th or further down, and   *)
(* all that is still listed, down to the last shown, was shown.            *)
(***************************************************************************)
Screen == shown \o reply

GoingOn == browser \in {"asked", "answered", "more"}

OnScreen(e) == \E k \in DOMAIN Screen : Screen[k] = e

(* The events of the list that EndIsTheEnd is about. *)
Wanted(i) == Timed(i) /\ Listed[i].code <= opened

Numbered == \A i \in DOMAIN Listed :
               Timed(i) => Listed[i].code \in Codes /\ Listed[i].code = count + 1 - i

ScreenOK ==
    /\ \A k \in DOMAIN Screen : Screen[k].code \in Codes
    /\ \A k \in 1 .. Len(Screen) - 1 : Screen[k + 1].code >= Screen[k].code - 1
    /\ browser # "answered" => reply = <<>>

OffsetOK ==
    /\ GoingOn => offset = Len(shown)
    /\ GoingOn => \A k \in DOMAIN Screen : Screen[k].code <= count + 1 - k
    /\ browser = "answered" => Len(reply) <= PageLen
    /\ reply # <<>> => offset < LogLen - 1

NoneLeftOut ==
    GoingOn /\ Screen # <<>> =>
        \A i \in DOMAIN Listed :
            Wanted(i) /\ Listed[i].code >= Screen[Len(Screen)].code => OnScreen(Listed[i])

ShortIsLast ==
    browser = "answered" /\ Len(reply) < PageLen =>
        \A i \in DOMAIN Listed : Wanted(i) => OnScreen(Listed[i])

PagesIInv ==
    /\ TypeOK /\ LogIInv
    /\ Numbered
    /\ ScreenOK /\ OffsetOK
    /\ NoneLeftOut /\ ShortIsLast
    /\ PageLen = FullPage => EndIsTheEnd

Joined ==
    /\ Screen \in Seq(Event)
    /\ Len(Screen) = Len(shown) + Len(reply)
    /\ \A k \in 1 .. Len(shown) : Screen[k] = shown[k]
    /\ \A k \in 1 .. Len(reply) : Screen[Len(shown) + k] = reply[k]
    /\ reply = <<>> => Screen = shown

(* The screen is put together from what is shown and the answer.            *)
LEMMA ScreenType == TypeOK => Joined
BY ConcatProperties, ConcatEmptySeq DEF Screen, TypeOK, Joined

(* The same after a step.                                                   *)
LEMMA ScreenTypeNext == TypeOK' => Joined'
BY ScreenType, PTL

(* The invariant holds at first.                                            *)
LEMMA PagesInit == Init => PagesIInv
<1> SUFFICES ASSUME Init PROVE PagesIInv
    OBVIOUS
<1>1. LogIInv /\ LogTypeOK
    BY LogInitIInv, LogInitTypeOK DEF Init
<1>2. TypeOK
    BY <1>1, EventLogAssumption, EventPagesAssumption DEF Init, TypeOK
<1>3. Screen = <<>> /\ Len(shown) = 0 /\ reply = <<>>
    BY <1>2, ScreenType DEF Init, Joined
<1>4. \A i \in DOMAIN Listed : ~Timed(i)
    <2>1. Listed = [i \in 1 .. LogLen - 1 |-> Blank]
        BY <1>1, ListedType, BlankView, BlankLog DEF Init, LogInit
    <2> QED
        BY <2>1 DEF Timed, HasTime, Blank
<1> QED
    BY <1>1, <1>2, <1>3, <1>4, EventPagesAssumption
       DEF Init, PagesIInv, Numbered, ScreenOK, OffsetOK, NoneLeftOut, ShortIsLast,
           EndIsTheEnd, GoingOn, Wanted, Timed

(* A step of the ring keeps what is said about the pages if every event    *)
(* that is wanted after it was wanted before, at another place perhaps.    *)
LEMMA RingStepKeepsPages ==
    ASSUME PagesIInv, TypeOK', LogIInv', Numbered',
           UNCHANGED <<offset, shown, browser, reply, opened>>,
           count' \in Nat, count' >= count,
           \A i \in DOMAIN Listed' : Wanted(i)' =>
              \E j \in DOMAIN Listed : Wanted(j) /\ Listed[j] = Listed'[i]
    PROVE  PagesIInv'
<1>1. Screen' = Screen /\ GoingOn' = GoingOn
    BY DEF Screen, GoingOn
<1>2. Screen \in Seq(Event) /\ count \in Nat
    BY ScreenType DEF PagesIInv, TypeOK, Joined
<1>3. ScreenOK'
    BY <1>1 DEF PagesIInv, ScreenOK
<1>4. OffsetOK'
    <2>1. ASSUME GoingOn, NEW k \in DOMAIN Screen
          PROVE  Screen[k].code <= count' + 1 - k
        <3>1. Screen[k].code <= count + 1 - k /\ Screen[k].code \in Codes /\ k \in Nat
            BY <2>1, <1>2 DEF PagesIInv, OffsetOK, ScreenOK
        <3> QED
            BY <3>1, <1>2, EventPagesAssumption
    <2> QED
        BY <2>1, <1>1 DEF PagesIInv, OffsetOK
<1>5. \A e : OnScreen(e)' <=> OnScreen(e)
    BY <1>1 DEF OnScreen
<1>6. NoneLeftOut'
    BY <1>1, <1>5 DEF PagesIInv, NoneLeftOut
<1>7. ShortIsLast'
    BY <1>1, <1>5 DEF PagesIInv, ShortIsLast
<1>8. PageLen = FullPage => EndIsTheEnd'
    BY DEF PagesIInv, EndIsTheEnd, Wanted, Timed
<1> QED
    BY <1>3, <1>4, <1>6, <1>7, <1>8 DEF PagesIInv

(* The types of what the proofs calculate with.                             *)
LEMMA PagesTypes ==
    PagesIInv =>
       /\ LogLen \in Nat /\ LogLen > 1 /\ PageLen \in Nat \ {0} /\ FullPage \in Nat \ {0}
       /\ Codes \subseteq Nat /\ count \in Nat /\ opened \in Nat /\ opened <= count
       /\ offset \in Nat /\ LogTypeOK
       /\ Listed \in [1 .. LogLen - 1 -> Event] /\ DOMAIN Listed = 1 .. LogLen - 1
<1> SUFFICES ASSUME PagesIInv
             PROVE  /\ count \in Nat /\ opened \in Nat /\ opened <= count
                    /\ offset \in Nat /\ LogTypeOK
    BY ListedType, EventLogAssumption, EventPagesAssumption
<1>1. count \in 0 .. MaxEvents /\ opened \in 0 .. count /\ MaxEvents \in Nat
    BY EventPagesAssumption DEF PagesIInv, TypeOK
<1>2. offset \in 0 .. LogLen - 1 + FullPage /\ LogLen \in Nat /\ FullPage \in Nat
    BY EventLogAssumption, EventPagesAssumption DEF PagesIInv, TypeOK
<1> QED
    BY <1>1, <1>2 DEF PagesIInv, TypeOK

(* An event is reported: nobody can want it, as the page was opened before. *)
LEMMA ReportKeepsPages ==
    PagesIInv /\ Report => PagesIInv'
<1> SUFFICES ASSUME PagesIInv, Report
             PROVE  PagesIInv'
    OBVIOUS
<1>1. /\ count < MaxEvents /\ count' = count + 1
      /\ AppendEvent(count + 1)
      /\ UNCHANGED <<offset, shown, browser, reply, opened>>
    BY DEF Report
<1>2. count + 1 \in Codes /\ count \in Nat /\ opened <= count /\ opened \in Nat
    BY <1>1, PagesTypes, EventPagesAssumption
<1>3. LogIInv' /\ LogTypeOK'
    BY <1>1, <1>2, LogNextIInv DEF PagesIInv, LogNext, LogIInv
<1>4. Listed' = [i \in 1 .. LogLen - 1 |->
                   IF i = 1 THEN [code |-> count + 1, time |-> now] ELSE Listed[i - 1]]
    BY <1>1, <1>2, ListedSteps, PagesTypes
<1>5. TypeOK'
    BY <1>1, <1>2, <1>3, EventPagesAssumption DEF PagesIInv, TypeOK
<1>6. ASSUME NEW i \in 1 .. LogLen - 1, i # 1
      PROVE  i - 1 \in DOMAIN Listed /\ Listed'[i] = Listed[i - 1]
    BY <1>4, <1>6, PagesTypes
<1>7. Numbered'
    <2>1. ASSUME NEW i \in 1 .. LogLen - 1, Timed(i)'
          PROVE  Listed'[i].code \in Codes /\ Listed'[i].code = count' + 1 - i
        <3>1. CASE i = 1
            BY <3>1, <1>4, <1>1, <1>2
        <3>2. CASE i # 1
            <4>1. Timed(i - 1)
                BY <3>2, <2>1, <1>6 DEF Timed, HasTime
            <4> QED
                BY <4>1, <3>2, <1>6, <1>1, <1>2 DEF PagesIInv, Numbered
        <3> QED
            BY <3>1, <3>2
    <2>2. DOMAIN Listed' = 1 .. LogLen - 1
        BY <1>4
    <2> QED
        BY <2>1, <2>2 DEF Numbered
<1>8. ASSUME NEW i \in DOMAIN Listed', Wanted(i)'
      PROVE  \E j \in DOMAIN Listed : Wanted(j) /\ Listed[j] = Listed'[i]
    <2>1. i \in 1 .. LogLen - 1 /\ Listed'[i].code <= opened
        BY <1>4, <1>8, <1>1 DEF Wanted
    <2>2. i # 1
        BY <2>1, <1>4, <1>2
    <2>3. Wanted(i - 1)
        BY <2>1, <2>2, <1>6, <1>8, <1>1 DEF Wanted, Timed, HasTime
    <2> QED
        BY <2>1, <2>2, <2>3, <1>6
<1>9. count' \in Nat /\ count' >= count
    BY <1>1, <1>2
<1> QED
    BY <1>1, <1>3, <1>5, <1>7, <1>8, <1>9, RingStepKeepsPages

(* The time changes, or nothing does.                                       *)
LEMMA TickKeepsPages ==
    PagesIInv /\ (Tick \/ UNCHANGED vars) => PagesIInv'
<1> SUFFICES ASSUME PagesIInv, Tick \/ UNCHANGED vars
             PROVE  PagesIInv'
    OBVIOUS
<1>1. /\ [LogNext]_logVars
      /\ UNCHANGED <<events, pos, offset, shown, browser, reply, count, opened>>
    BY DEF Tick, Update, LogNext, vars, logVars
<1>2. LogIInv' /\ LogTypeOK'
    BY <1>1, LogNextIInv DEF PagesIInv, LogIInv
<1>3. Listed' = Listed
    BY <1>1, ListedSteps, PagesTypes
<1>4. TypeOK'
    BY <1>1, <1>2 DEF PagesIInv, TypeOK
<1>5. Numbered'
    BY <1>1, <1>3 DEF PagesIInv, Numbered, Timed
<1>6. \A i \in DOMAIN Listed' : Wanted(i)' =>
         \E j \in DOMAIN Listed : Wanted(j) /\ Listed[j] = Listed'[i]
    BY <1>1, <1>3 DEF Wanted, Timed
<1>7. count' \in Nat /\ count' >= count
    BY <1>1, PagesTypes
<1> QED
    BY <1>1, <1>2, <1>4, <1>5, <1>6, <1>7, RingStepKeepsPages

(* After a restart no event has a time, and so none is wanted.              *)
LEMMA RebootKeepsPages ==
    PagesIInv /\ Reboot => PagesIInv'
<1> SUFFICES ASSUME PagesIInv, Reboot
             PROVE  PagesIInv'
    OBVIOUS
<1>1. Restart /\ UNCHANGED <<offset, shown, browser, reply, count, opened>>
    BY DEF Reboot
<1>2. LogIInv' /\ LogTypeOK'
    BY <1>1, LogNextIInv DEF PagesIInv, LogNext, LogIInv
<1>3. Listed' = [i \in 1 .. LogLen - 1 |-> Blank]
    BY <1>1, ListedSteps, PagesTypes
<1>4. TypeOK'
    BY <1>1, <1>2 DEF PagesIInv, TypeOK
<1>5. \A i \in DOMAIN Listed' : ~Timed(i)'
    BY <1>3 DEF Timed, HasTime, Blank
<1>6. Numbered'
    BY <1>5 DEF Numbered
<1>7. \A i \in DOMAIN Listed' : ~Wanted(i)'
    BY <1>5 DEF Wanted
<1>8. count' \in Nat /\ count' >= count
    BY <1>1, PagesTypes
<1> QED
    BY <1>1, <1>2, <1>4, <1>6, <1>7, <1>8, RingStepKeepsPages

(* The page itself leaves the ring alone. *)
LEMMA PageStepKeepsLog ==
    ASSUME PagesIInv, UNCHANGED <<events, pos, now, count>>
    PROVE  /\ LogIInv' /\ LogTypeOK' /\ Listed' = Listed /\ Numbered'
           /\ \A i : Timed(i)' <=> Timed(i)
<1>1. [LogNext]_logVars
    BY DEF logVars
<1>2. LogIInv' /\ LogTypeOK'
    BY <1>1, LogNextIInv DEF PagesIInv, LogIInv
<1>3. Listed' = Listed
    BY ListedSteps, PagesTypes
<1> QED
    BY <1>2, <1>3 DEF PagesIInv, Numbered, Timed

(* A portion goes on where the screen ends: what has moved since was shown. *)
LEMMA HandleEventsKeepsPages ==
    PagesIInv /\ HandleEvents => PagesIInv'
<1> SUFFICES ASSUME PagesIInv, HandleEvents
             PROVE  PagesIInv'
    OBVIOUS
<1>1. /\ browser = "asked" /\ browser' = "answered"
      /\ reply' = Portion(offset)
      /\ UNCHANGED <<events, pos, now, offset, shown, count, opened>>
    BY DEF HandleEvents
<1>2. /\ LogIInv' /\ LogTypeOK' /\ Listed' = Listed /\ Numbered'
      /\ \A i : Timed(i)' <=> Timed(i)
    BY <1>1, PageStepKeepsLog
<1>3. PICK t \in 0 .. PageLen :
          /\ reply' = [k \in 1 .. t |-> Listed[offset + k]]
          /\ \A k \in 1 .. t : Timed(offset + k)
          /\ t < PageLen => \A i \in DOMAIN Listed : Timed(i) => i <= offset + t
    BY <1>1, PortionIs, PagesTypes DEF PagesIInv
<1>4. t \in Nat /\ t <= PageLen
    BY PagesTypes
<1>5. \A k \in 1 .. t : Listed[offset + k] \in Event /\ offset + k \in 1 .. LogLen - 1
    BY <1>3, PagesTypes DEF Timed
<1>6. reply' \in Seq(Event) /\ Len(reply') = t
    BY <1>3, <1>4, <1>5
<1>7. TypeOK'
    BY <1>1, <1>2, <1>6 DEF PagesIInv, TypeOK
<1>8. Screen = shown /\ shown \in Seq(Event) /\ offset = Len(shown) /\ reply = <<>>
    BY <1>1, ScreenType DEF PagesIInv, ScreenOK, OffsetOK, GoingOn, TypeOK, Joined
<1>9. /\ Screen' \in Seq(Event)
      /\ Len(Screen') = offset + t /\ DOMAIN Screen' = 1 .. offset + t
      /\ \A k \in 1 .. offset : Screen'[k] = Screen[k]
      /\ \A k \in 1 .. t : Screen'[offset + k] = Listed[offset + k]
    <2>1. /\ Screen' \in Seq(Event) /\ Len(Screen') = Len(shown') + Len(reply')
          /\ \A k \in 1 .. Len(shown') : Screen'[k] = shown'[k]
          /\ \A k \in 1 .. Len(reply') : Screen'[Len(shown') + k] = reply'[k]
        BY <1>7, ScreenTypeNext DEF Joined
    <2>2. Len(shown') = offset /\ shown' = Screen /\ Len(reply') = t
        BY <1>1, <1>6, <1>8
    <2>3. \A k \in 1 .. t : reply'[k] = Listed[offset + k]
        BY <1>3
    <2> QED
        BY <2>1, <2>2, <2>3
<1>10. Len(Screen) = offset /\ DOMAIN Screen = 1 .. offset
    BY <1>8
<1>11. ASSUME NEW k \in 1 .. offset + t, k > offset
       PROVE  /\ k \in DOMAIN Listed /\ Timed(k) /\ Screen'[k] = Listed[k]
              /\ Listed[k].code \in Codes /\ Listed[k].code = count + 1 - k
    <2>1. k - offset \in 1 .. t /\ offset + (k - offset) = k
        BY <1>4, <1>11, PagesTypes
    <2>2. Timed(k) /\ Screen'[k] = Listed[k]
        BY <2>1, <1>3, <1>9
    <2> QED
        BY <2>2 DEF PagesIInv, Numbered, Timed
<1>12. ASSUME NEW k \in 1 .. offset
       PROVE  /\ Screen'[k] = Screen[k] /\ Screen[k].code \in Codes
              /\ Screen[k].code <= count + 1 - k
    BY <1>1, <1>9, <1>10 DEF PagesIInv, ScreenOK, OffsetOK, GoingOn
<1>13. ASSUME NEW k \in 1 .. offset + t
       PROVE  Screen'[k].code \in Codes /\ Screen'[k].code <= count + 1 - k
    <2>1. CASE k <= offset
        <3>1. k \in 1 .. offset
            BY <2>1, PagesTypes
        <3> QED
            BY <3>1, <1>12
    <2>2. CASE k > offset
        <3>1. count + 1 - k <= count + 1 - k
            BY PagesTypes
        <3> QED
            BY <2>2, <3>1, <1>11
    <2> QED
        BY <2>1, <2>2, PagesTypes
<1>14. ASSUME NEW k \in 1 .. offset + t - 1
       PROVE  Screen'[k + 1].code >= Screen'[k].code - 1
    <2>1. k + 1 \in 1 .. offset + t /\ k \in 1 .. offset + t
        BY <1>4, PagesTypes
    <2>2. CASE k < offset
        <3>1. k \in 1 .. Len(Screen) - 1 /\ k + 1 \in 1 .. offset /\ k \in 1 .. offset
            BY <2>2, <1>10, PagesTypes
        <3>2. Screen[k + 1].code >= Screen[k].code - 1
            BY <3>1 DEF PagesIInv, ScreenOK
        <3> QED
            BY <3>1, <3>2, <1>12
    <2>3. CASE k >= offset
        <3>1. Screen'[k + 1].code = count + 1 - (k + 1)
            BY <2>1, <2>3, <1>11, PagesTypes
        <3>2. Screen'[k].code <= count + 1 - k /\ Screen'[k].code \in Nat /\ count \in Nat
            BY <2>1, <1>13, PagesTypes
        <3> QED
            BY <3>1, <3>2
    <2> QED
        BY <2>2, <2>3, PagesTypes
<1>15. ScreenOK'
    <2>1. \A k \in DOMAIN Screen' : Screen'[k].code \in Codes
        BY <1>9, <1>13
    <2>2. \A k \in 1 .. Len(Screen') - 1 : Screen'[k + 1].code >= Screen'[k].code - 1
        <3>1. Len(Screen') - 1 = offset + t - 1
            BY <1>9, <1>4, PagesTypes
        <3>2. \A k \in 1 .. offset + t - 1 : Screen'[k + 1].code >= Screen'[k].code - 1
            BY <1>14
        <3> QED
            BY <3>1, <3>2
    <2> QED
        BY <2>1, <2>2, <1>1 DEF ScreenOK
<1>16. OffsetOK'
    <2>1. offset < LogLen - 1 \/ t = 0
        <3>1. CASE t # 0
            <4>1. offset + 1 \in 1 .. LogLen - 1
                BY <3>1, <1>4, <1>5
            <4> QED
                BY <4>1, PagesTypes
        <3> QED
            BY <3>1
    <2>2. reply' # <<>> => t # 0
        BY <1>6
    <2> QED
        BY <2>1, <2>2, <1>1, <1>4, <1>6, <1>8, <1>9, <1>13 DEF OffsetOK, GoingOn
<1>17. ASSUME NEW i \in DOMAIN Listed, i <= offset + t, Wanted(i)
       PROVE  OnScreen(Listed[i])'
    <2>1. i \in 1 .. offset + t
        BY <1>17, PagesTypes
    <2>2. CASE i > offset
        BY <2>1, <2>2, <1>9, <1>11, <1>2 DEF OnScreen
    <2>3. CASE i <= offset
        <3>1. /\ offset \in 1 .. offset /\ Screen # <<>> /\ i \in 1 .. offset
              /\ Screen[offset].code <= count + 1 - offset /\ Screen[offset].code \in Codes
            BY <2>1, <2>3, <1>8, <1>12, PagesTypes
        <3>2. Listed[i].code = count + 1 - i
            BY <1>17 DEF Wanted, PagesIInv, Numbered
        <3>3. Listed[i].code >= Screen[Len(Screen)].code
            BY <3>1, <3>2, <1>10, PagesTypes
        <3>4. OnScreen(Listed[i])
            BY <3>1, <3>3, <1>1, <1>17 DEF PagesIInv, NoneLeftOut, GoingOn
        <3>5. PICK k \in 1 .. offset : Screen[k] = Listed[i]
            BY <3>4, <1>10 DEF OnScreen
        <3>6. k \in 1 .. offset + t
            BY <1>4, PagesTypes
        <3> QED
            BY <3>5, <3>6, <1>9, <1>2 DEF OnScreen
    <2> QED
        BY <2>2, <2>3, <2>1, PagesTypes
<1>18. \A i : Wanted(i)' <=> Wanted(i)
    BY <1>1, <1>2 DEF Wanted
<1>19. NoneLeftOut'
    <2> SUFFICES ASSUME NEW i \in DOMAIN Listed, Wanted(i), Screen' # <<>>,
                        Listed[i].code >= Screen'[Len(Screen')].code
                 PROVE  OnScreen(Listed[i])'
        BY <1>2, <1>18 DEF NoneLeftOut, OnScreen
    <2>1. CASE i <= offset + t
        BY <2>1, <1>17
    <2>2. CASE i > offset + t
        <3>1. Listed[i].code = count + 1 - i /\ i \in Nat
            BY PagesTypes DEF Wanted, PagesIInv, Numbered
        <3>2. t = 0
            <4>1. SUFFICES ASSUME t # 0 PROVE FALSE
                OBVIOUS
            <4>2. offset + t \in 1 .. offset + t /\ offset + t > offset
                BY <4>1, <1>4, PagesTypes
            <4>3. Screen'[offset + t].code = count + 1 - (offset + t)
                BY <4>2, <1>11
            <4> QED
                BY <4>3, <3>1, <2>2, <1>9, <1>4, PagesTypes
        <3>3. offset \in 1 .. offset /\ offset + t = offset /\ Screen # <<>>
            <4>1. offset # 0
                BY <3>2, <1>9
            <4> QED
                BY <4>1, <3>2, <1>8, PagesTypes
        <3>4. Listed[i].code >= Screen[Len(Screen)].code
            BY <3>3, <1>9, <1>10
        <3>5. OnScreen(Listed[i])
            BY <3>3, <3>4, <1>1 DEF PagesIInv, NoneLeftOut, GoingOn
        <3>6. PICK k \in 1 .. offset : Screen[k] = Listed[i]
            BY <3>5, <1>10 DEF OnScreen
        <3> QED
            BY <3>3, <3>6, <1>9, <1>2 DEF OnScreen
    <2> QED
        BY <2>1, <2>2, <1>4, PagesTypes
<1>20. ShortIsLast'
    <2> SUFFICES ASSUME t < PageLen, NEW i \in DOMAIN Listed, Wanted(i)
                 PROVE  OnScreen(Listed[i])'
        BY <1>2, <1>6, <1>18 DEF ShortIsLast, OnScreen
    <2>1. i <= offset + t
        BY <1>3 DEF Wanted
    <2> QED
        BY <2>1, <1>17
<1>21. EndIsTheEnd'
    BY <1>1 DEF EndIsTheEnd
<1> QED
    BY <1>2, <1>7, <1>15, <1>16, <1>19, <1>20, <1>21 DEF PagesIInv

(* Opening the page starts all over.                                        *)
LEMMA OpenKeepsPages ==
    PagesIInv /\ Open => PagesIInv'
<1> SUFFICES ASSUME PagesIInv, Open
             PROVE  PagesIInv'
    OBVIOUS
<1>1. /\ offset' = 0 /\ shown' = <<>> /\ browser' = "asked" /\ reply' = <<>>
      /\ opened' = count
      /\ UNCHANGED <<events, pos, now, count>>
    BY DEF Open
<1>2. LogIInv' /\ LogTypeOK' /\ Listed' = Listed /\ Numbered'
    BY <1>1, PageStepKeepsLog
<1>3. 0 \in 0 .. LogLen - 1 + FullPage /\ count \in 0 .. MaxEvents /\ count \in 0 .. count
    BY PagesTypes, EventPagesAssumption DEF PagesIInv, TypeOK
<1>4. TypeOK'
    BY <1>1, <1>2, <1>3 DEF TypeOK
<1>5. Screen' = <<>> /\ Len(shown') = 0
    BY <1>1, <1>4, ScreenTypeNext DEF Joined
<1>6. ScreenOK' /\ OffsetOK' /\ NoneLeftOut' /\ ShortIsLast' /\ EndIsTheEnd'
    BY <1>1, <1>5
       DEF ScreenOK, OffsetOK, NoneLeftOut, ShortIsLast, EndIsTheEnd
<1> QED
    BY <1>2, <1>4, <1>6 DEF PagesIInv

(* What was answered is on the screen, and counted by offset if it was      *)
(* full.                                                                    *)
LEMMA SuccessKeepsPages ==
    PagesIInv /\ Success => PagesIInv'
<1> SUFFICES ASSUME PagesIInv, Success
             PROVE  PagesIInv'
    OBVIOUS
<1>1. /\ browser = "answered" /\ shown' = shown \o reply
      /\ offset' = IF Full THEN offset + FullPage ELSE offset
      /\ browser' = IF Full THEN "more" ELSE "done"
      /\ reply' = <<>>
      /\ UNCHANGED <<events, pos, now, count, opened>>
    BY DEF Success
<1>2. /\ LogIInv' /\ LogTypeOK' /\ Listed' = Listed /\ Numbered'
      /\ \A i : Timed(i)' <=> Timed(i)
    BY <1>1, PageStepKeepsLog
<1>3. /\ shown' = Screen /\ Screen \in Seq(Event)
      /\ Len(Screen) = offset + Len(reply) /\ Len(reply) \in Nat /\ Len(reply) <= PageLen
    <2>1. Screen \in Seq(Event) /\ Len(Screen) = Len(shown) + Len(reply)
        BY ScreenType DEF PagesIInv, Joined
    <2>2. offset = Len(shown) /\ Len(reply) <= PageLen
        BY <1>1 DEF PagesIInv, OffsetOK, GoingOn
    <2>3. Len(reply) \in Nat
        BY DEF PagesIInv, TypeOK
    <2> QED
        BY <2>1, <2>2, <2>3, <1>1 DEF Screen
<1>4. Full => offset' = Len(shown') /\ offset' \in 0 .. LogLen - 1 + FullPage
    <2>1. Full => reply # <<>> /\ Len(reply) = FullPage
        BY PagesTypes DEF Full
    <2>2. reply # <<>> => offset < LogLen - 1
        BY DEF PagesIInv, OffsetOK
    <2> QED
        BY <2>1, <2>2, <1>1, <1>3, PagesTypes
<1>5. TypeOK'
    BY <1>1, <1>2, <1>3, <1>4 DEF PagesIInv, TypeOK
<1>6. Screen' = Screen
    BY <1>1, <1>3, <1>5, ScreenTypeNext DEF Joined
<1>7. \A i : Wanted(i)' <=> Wanted(i)
    BY <1>1, <1>2 DEF Wanted
<1>8. ScreenOK'
    BY <1>1, <1>6 DEF PagesIInv, ScreenOK
<1>9. OffsetOK'
    BY <1>1, <1>4, <1>6 DEF PagesIInv, OffsetOK, GoingOn
<1>10. NoneLeftOut' /\ ShortIsLast'
    BY <1>1, <1>2, <1>6, <1>7
       DEF PagesIInv, NoneLeftOut, ShortIsLast, GoingOn, OnScreen
<1>11. ASSUME PageLen = FullPage
       PROVE  EndIsTheEnd'
    <2> SUFFICES ASSUME ~Full, NEW i \in DOMAIN Listed, Wanted(i)
                 PROVE  \E k \in DOMAIN Screen : Screen[k] = Listed[i]
        BY <1>1, <1>2, <1>3 DEF EndIsTheEnd, Wanted, Timed
    <2>1. Len(reply) < PageLen
        BY <1>3, <1>11, PagesTypes DEF Full
    <2> QED
        BY <2>1, <1>1 DEF PagesIInv, ShortIsLast, OnScreen
<1> QED
    BY <1>2, <1>5, <1>8, <1>9, <1>10, <1>11 DEF PagesIInv

(* A lost answer ends it; what is shown remains.                            *)
LEMMA ErrorKeepsPages ==
    PagesIInv /\ Error => PagesIInv'
<1> SUFFICES ASSUME PagesIInv, Error
             PROVE  PagesIInv'
    OBVIOUS
<1>1. /\ browser' = "failed" /\ reply' = <<>>
      /\ UNCHANGED <<events, pos, now, offset, shown, count, opened>>
    BY DEF Error
<1>2. LogIInv' /\ LogTypeOK' /\ Numbered'
    BY <1>1, PageStepKeepsLog
<1>3. TypeOK'
    BY <1>1, <1>2 DEF PagesIInv, TypeOK
<1>4. /\ Screen' = shown /\ shown \in Seq(Event)
      /\ Screen \in Seq(Event) /\ Len(Screen) = Len(shown) + Len(reply)
      /\ Len(shown) \in Nat /\ Len(reply) \in Nat
      /\ \A k \in 1 .. Len(shown) : Screen[k] = shown[k]
    BY <1>1, <1>3, ScreenType, ScreenTypeNext DEF PagesIInv, TypeOK, Joined
<1>5. ScreenOK'
    <2>1. ASSUME NEW k \in 1 .. Len(shown)
          PROVE  shown[k].code \in Codes
        BY <1>4 DEF PagesIInv, ScreenOK
    <2>2. ASSUME NEW k \in 1 .. Len(shown) - 1
          PROVE  shown[k + 1].code >= shown[k].code - 1
        <3>1. k \in 1 .. Len(Screen) - 1 /\ k \in 1 .. Len(shown) /\ k + 1 \in 1 .. Len(shown)
            BY <1>4
        <3> QED
            BY <3>1, <1>4 DEF PagesIInv, ScreenOK
    <2> QED
        BY <2>1, <2>2, <1>1, <1>4 DEF ScreenOK
<1>6. OffsetOK' /\ NoneLeftOut' /\ ShortIsLast' /\ EndIsTheEnd'
    BY <1>1 DEF OffsetOK, NoneLeftOut, ShortIsLast, EndIsTheEnd, GoingOn
<1> QED
    BY <1>2, <1>3, <1>5, <1>6 DEF PagesIInv

(* The next portion is asked for.                                           *)
LEMMA MoreKeepsPages ==
    PagesIInv /\ More => PagesIInv'
<1> SUFFICES ASSUME PagesIInv, More
             PROVE  PagesIInv'
    OBVIOUS
<1>1. /\ browser = "more" /\ browser' = "asked"
      /\ UNCHANGED <<events, pos, now, offset, shown, reply, count, opened>>
    BY DEF More
<1>2. /\ LogIInv' /\ LogTypeOK' /\ Listed' = Listed /\ Numbered'
      /\ \A i : Timed(i)' <=> Timed(i)
    BY <1>1, PageStepKeepsLog
<1>3. TypeOK'
    BY <1>1, <1>2 DEF PagesIInv, TypeOK
<1>4. Screen' = Screen /\ \A i : Wanted(i)' <=> Wanted(i)
    BY <1>1, <1>2 DEF Screen, Wanted
<1>5. ScreenOK' /\ OffsetOK'
    BY <1>1, <1>4 DEF PagesIInv, ScreenOK, OffsetOK, GoingOn
<1>6. NoneLeftOut' /\ ShortIsLast' /\ EndIsTheEnd'
    BY <1>1, <1>2, <1>4
       DEF PagesIInv, NoneLeftOut, ShortIsLast, EndIsTheEnd, GoingOn, OnScreen
<1> QED
    BY <1>2, <1>3, <1>5, <1>6 DEF PagesIInv

(* Every step keeps the invariant.                                          *)
LEMMA PagesNext == PagesIInv /\ [Next]_vars => PagesIInv'
BY ReportKeepsPages, TickKeepsPages, RebootKeepsPages, HandleEventsKeepsPages,
   OpenKeepsPages, SuccessKeepsPages, ErrorKeepsPages, MoreKeepsPages
   DEF Next

(* The invariant holds throughout.                                          *)
LEMMA PagesInvariance == Spec => []PagesIInv
BY PagesInit, PagesNext, PTL DEF Spec

(* The page and the device keep their types; no portion is asked for behind *)
(* the end of the log but the first one after it (stream_events).           *)
THEOREM PagesTypeCorrect == Spec => []TypeOK
<1>1. PagesIInv => TypeOK
    BY DEF PagesIInv
<1> QED
    BY <1>1, PagesInvariance, PTL

(* From one event on the screen to the next none is left out, for any size  *)
(* of portion and ring and however many events come in between              *)
(* (handle_events, stream_events).                                          *)
THEOREM NothingIsSkipped == Spec => []NothingSkipped
<1>1. PagesIInv => NothingSkipped
    <2> SUFFICES ASSUME PagesIInv, NEW i \in 1 .. Len(shown) - 1
                 PROVE  shown[i + 1].code >= shown[i].code - 1
        BY DEF NothingSkipped
    <2>1. /\ Len(Screen) = Len(shown) + Len(reply)
          /\ Len(shown) \in Nat /\ Len(reply) \in Nat
          /\ \A k \in 1 .. Len(shown) : Screen[k] = shown[k]
        BY ScreenType DEF PagesIInv, TypeOK, Joined
    <2>2. i \in 1 .. Len(Screen) - 1 /\ i \in 1 .. Len(shown) /\ i + 1 \in 1 .. Len(shown)
        BY <2>1
    <2> QED
        BY <2>1, <2>2 DEF PagesIInv, ScreenOK
<1> QED
    BY <1>1, PagesInvariance, PTL

(* When the page offers no more, all there was when it was opened is on the *)
(* screen, provided that the page and the server agree on how long a        *)
(* portion is (MAX_JSON_EVENTS and the number in stream_events).            *)
THEOREM EndOfPagesIsTheEnd == PageLen = FullPage => (Spec => []EndIsTheEnd)
<1> SUFFICES ASSUME PageLen = FullPage
             PROVE  Spec => []EndIsTheEnd
    OBVIOUS
<1>1. PagesIInv => EndIsTheEnd
    BY DEF PagesIInv
<1> QED
    BY <1>1, PagesInvariance, PTL

(* What users do leaves the ring as it is specified alone.                  *)
THEOREM PagesKeepTheRing == Spec => LogSpec
<1>1. Init => LogInit
    BY DEF Init
<1>2. PagesIInv /\ [Next]_vars => [LogNext]_logVars
    <2> SUFFICES ASSUME PagesIInv, [Next]_vars
                 PROVE  [LogNext]_logVars
        OBVIOUS
    <2>1. CASE Report
        <3>1. count + 1 \in Codes
            BY <2>1, PagesTypes, EventPagesAssumption DEF Report
        <3> QED
            BY <2>1, <3>1 DEF Report, LogNext
    <2> QED
        BY <2>1 DEF Next, vars, logVars, LogNext, Tick, Reboot, HandleEvents, Open,
                    Success, Error, More
<1> QED
    BY <1>1, <1>2, PagesInvariance, PTL DEF Spec, LogSpec

(* So under the pages, too, the list is that of the most recent events.     *)
THEOREM PagesImplementRecent == Spec => ImplementsRecent
BY PagesKeepTheRing, RingRefinesRecent, PTL

(* And events without a time are the last of it.                            *)
THEOREM PagesEmptiesLast == Spec => []EmptiesLast
BY PagesKeepTheRing, EmptyEventsLast, PTL
=============================================================================
