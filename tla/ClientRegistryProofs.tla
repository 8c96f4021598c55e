------------------------ MODULE ClientRegistryProofs ------------------------
(***************************************************************************)
(* Proofs about ClientRegistry for any addresses, any room and any data.   *)
(***************************************************************************)
EXTENDS ClientRegistry, FiniteSetTheorems, TLAPS

(* The count of enrolled clients is cidx: the directory compares the one   *)
(* with the room there is, the code the other.                             *)
IInv ==
    /\ TypeOK
    /\ OneRecordEach
    /\ FreshRecords
    /\ IsFiniteSet(Enrolled)
    /\ Cardinality(Enrolled) = cidx

LEMMA NewClientType == NewClient \in Client
BY DEF NewClient, Client

LEMMA UpdatedType ==
    ASSUME NEW client \in Client, NEW v \in Values
    PROVE  Reported(client, v) \in Client /\ Asked(client, v) \in Client
BY DEF Client, Reported, Asked

LEMMA InitIInv == Init => IInv
<1> SUFFICES ASSUME Init PROVE IInv
    OBVIOUS
<1>1. Enrolled = {}
    BY RegistryAssumption DEF Init, Enrolled, ValidAddrs
<1>2. TypeOK
    BY NewClientType, RegistryAssumption DEF Init, TypeOK
<1>3. OneRecordEach
    BY <1>1 DEF Init, OneRecordEach
<1>4. FreshRecords
    BY DEF Init, FreshRecords
<1>5. IsFiniteSet(Enrolled) /\ Cardinality(Enrolled) = cidx
    BY <1>1, FS_EmptySet DEF Init
<1> QED
    BY <1>2, <1>3, <1>4, <1>5 DEF IInv

(* An enrolled client has one of the records given out. *)
LEMMA KnownHasRecord ==
    ASSUME IInv, NEW a \in Addrs, Known(a)
    PROVE  a \in Enrolled /\ index[a] \in 1 .. cidx /\ index[a] \in Slots
BY RegistryAssumption
   DEF IInv, TypeOK, OneRecordEach, Known, Enrolled, ValidAddrs, Slots

(* A new client gets the next record, which nobody has. *)
LEMMA EnrolledGrows ==
    ASSUME IInv, NEW a \in Addrs, NEW v \in Values, HearNew(a, v)
    PROVE  /\ a \in ValidAddrs /\ a \notin Enrolled
           /\ cidx' = cidx + 1 /\ cidx' \in Slots
           /\ Enrolled' = Enrolled \cup {a}
           /\ index' \in [ValidAddrs -> 0 .. MaxCount]
           /\ \A b \in ValidAddrs :
                 index'[b] = IF b = a THEN cidx' ELSE index[b]
<1>1. a \in ValidAddrs /\ a \notin Enrolled
    BY RegistryAssumption DEF HearNew, CanEnrol, ValidAddrs, Enrolled
<1>2. cidx' = cidx + 1 /\ cidx' \in Slots
    BY RegistryAssumption DEF IInv, TypeOK, HearNew, CanEnrol, Slots
<1>3. \A b \in ValidAddrs : index'[b] = IF b = a THEN cidx' ELSE index[b]
    BY DEF IInv, TypeOK, HearNew
<1>4. index' \in [ValidAddrs -> 0 .. MaxCount]
    BY <1>1, <1>2 DEF IInv, TypeOK, HearNew, Slots
<1>5. Enrolled' = Enrolled \cup {a}
    BY <1>1, <1>2, <1>3 DEF Enrolled, Slots
<1> QED
    BY <1>1, <1>2, <1>3, <1>4, <1>5

LEMMA HearNewIInv ==
    ASSUME IInv, NEW a \in Addrs, NEW v \in Values, HearNew(a, v)
    PROVE  IInv'
<1>1. clients' = [clients EXCEPT ![cidx'] = Reported(@, v)]
    BY DEF HearNew
<1>2. TypeOK'
    BY <1>1, EnrolledGrows, UpdatedType, RegistryAssumption
       DEF IInv, TypeOK, Slots
<1>3. OneRecordEach'
    <2>1. ASSUME NEW b \in Enrolled', NEW c \in Enrolled',
                 index'[b] = index'[c]
          PROVE  b = c
        BY <2>1, EnrolledGrows DEF IInv, TypeOK, OneRecordEach, Enrolled
    <2>2. ASSUME NEW s \in 1 .. cidx'
          PROVE  \E b \in Enrolled' : index'[b] = s
        <3>1. CASE s = cidx'
            BY <3>1, EnrolledGrows
        <3>2. CASE s # cidx'
            <4>1. s \in 1 .. cidx
                BY <3>2, EnrolledGrows DEF IInv, TypeOK
            <4>2. PICK b \in Enrolled : index[b] = s
                BY <4>1 DEF IInv, OneRecordEach
            <4> QED
                BY <4>2, EnrolledGrows DEF Enrolled
        <3> QED
            BY <3>1, <3>2
    <2>3. ASSUME NEW b \in Enrolled' PROVE index'[b] <= cidx'
        BY EnrolledGrows DEF IInv, TypeOK, OneRecordEach, Enrolled
    <2> QED
        BY <2>1, <2>2, <2>3 DEF OneRecordEach
<1>4. FreshRecords'
    BY <1>1, EnrolledGrows DEF IInv, TypeOK, FreshRecords, Slots
<1>5. IsFiniteSet(Enrolled)' /\ Cardinality(Enrolled)' = cidx'
    BY EnrolledGrows, FS_AddElement DEF IInv
<1> QED
    BY <1>2, <1>3, <1>4, <1>5 DEF IInv

(* A step that only writes to the record of an enrolled client. *)
LEMMA RecordIInv ==
    ASSUME IInv, NEW a \in Addrs, Known(a), NEW r \in Client,
           clients' = [clients EXCEPT ![index[a]] = r],
           UNCHANGED <<index, cidx>>
    PROVE  IInv'
<1>1. Enrolled' = Enrolled
    BY DEF Enrolled
<1>2. TypeOK'
    BY KnownHasRecord DEF IInv, TypeOK
<1>3. OneRecordEach'
    BY <1>1 DEF IInv, OneRecordEach
<1>4. FreshRecords'
    BY KnownHasRecord DEF IInv, TypeOK, FreshRecords
<1> QED
    BY <1>1, <1>2, <1>3, <1>4 DEF IInv

LEMMA HearKnownIInv ==
    ASSUME IInv, NEW a \in Addrs, NEW v \in Values, HearKnown(a, v)
    PROVE  IInv'
<1>1. Known(a) /\ Reported(clients[index[a]], v) \in Client
    BY KnownHasRecord, UpdatedType DEF HearKnown, IInv, TypeOK
<1> QED
    BY <1>1, RecordIInv DEF HearKnown

LEMMA AskIInv ==
    ASSUME IInv, NEW a \in Addrs, NEW v \in Values, Ask(a, v)
    PROVE  IInv'
<1>1. Known(a) /\ Asked(clients[index[a]], v) \in Client
    BY KnownHasRecord, UpdatedType DEF Ask, IInv, TypeOK
<1> QED
    BY <1>1, RecordIInv DEF Ask

LEMMA NextIInv == IInv /\ [Next]_vars => IInv'
<1> SUFFICES ASSUME IInv, [Next]_vars PROVE IInv'
    OBVIOUS
<1>1. CASE Next
    BY <1>1, HearKnownIInv, HearNewIInv, AskIInv DEF Next
<1>2. CASE UNCHANGED vars
    BY <1>2 DEF vars, IInv, TypeOK, OneRecordEach, FreshRecords, Enrolled
<1> QED
    BY <1>1, <1>2

(* The invariant holds throughout. *)
THEOREM IInvariance == Spec => []IInv
BY InitIInv, NextIInv, PTL DEF Spec

(* The index and the record array stay within their bounds. *)
THEOREM TypeCorrect == Spec => []TypeOK
<1>1. IInv => TypeOK
    BY DEF IInv
<1> QED
    BY <1>1, IInvariance, PTL

(* prepare_client gives every record to exactly one address. *)
THEOREM RecordsAreOwned == Spec => []OneRecordEach
<1>1. IInv => OneRecordEach
    BY DEF IInv
<1> QED
    BY <1>1, IInvariance, PTL

(* A record that prepare_client has not given out is as it was built: a    *)
(* new client inherits nothing.                                            *)
THEOREM NothingInherited == Spec => []FreshRecords
<1>1. IInv => FreshRecords
    BY DEF IInv
<1> QED
    BY <1>1, IInvariance, PTL
-----------------------------------------------------------------------------
(* The refinement: every step of the registry is the step of the directory *)
(* that has the same name.                                                 *)
Data == [a \in Enrolled |-> clients[index[a]]]

LEMMA InitRefines == Init => Dir!Init
<1> SUFFICES ASSUME Init PROVE Dir!Init
    OBVIOUS
<1>1. Enrolled = {}
    BY RegistryAssumption DEF Init, Enrolled, ValidAddrs
<1> QED
    BY <1>1 DEF Dir!Init

(* Writing to the record of an enrolled client changes its entry only. *)
LEMMA RecordRefines ==
    ASSUME IInv, NEW a \in Addrs, Known(a), NEW r,
           clients' = [clients EXCEPT ![index[a]] = r],
           UNCHANGED <<index, cidx>>
    PROVE  a \in Enrolled /\ Data' = [Data EXCEPT ![a] = r]
<1>1. Enrolled' = Enrolled /\ a \in Enrolled
    BY KnownHasRecord DEF Enrolled
<1>2. ASSUME NEW b \in Enrolled
      PROVE  clients'[index'[b]] = IF b = a THEN r ELSE clients[index[b]]
    <2>1. index[b] \in Slots /\ (b # a => index[b] # index[a])
        BY <1>1, RegistryAssumption
           DEF IInv, TypeOK, OneRecordEach, Enrolled, Slots
    <2> QED
        BY <2>1 DEF IInv, TypeOK
<1> QED
    BY <1>1, <1>2 DEF Data

LEMMA HearNewRefines ==
    ASSUME IInv, NEW a \in Addrs, NEW v \in Values, HearNew(a, v)
    PROVE  /\ a \notin Enrolled /\ a < MaxAddr /\ Cardinality(Enrolled) < MaxCount
           /\ Data' = [b \in Enrolled \cup {a} |->
                          IF b = a THEN Reported(NewClient, v) ELSE Data[b]]
<1>1. a < MaxAddr /\ Cardinality(Enrolled) < MaxCount
    BY DEF IInv, HearNew, CanEnrol
<1>2. clients' = [clients EXCEPT ![cidx'] = Reported(@, v)]
    BY DEF HearNew
<1>3. clients[cidx'] = NewClient
    BY EnrolledGrows DEF IInv, TypeOK, FreshRecords, Slots
<1>4. ASSUME NEW b \in Enrolled \cup {a}
      PROVE  clients'[index'[b]] =
                IF b = a THEN Reported(NewClient, v) ELSE clients[index[b]]
    <2>1. CASE b = a
        BY <1>2, <1>3, <2>1, EnrolledGrows DEF IInv, TypeOK
    <2>2. CASE b # a
        <3>1. b \in Enrolled /\ index'[b] = index[b] /\ index[b] # cidx'
            BY <2>2, EnrolledGrows DEF IInv, TypeOK, OneRecordEach, Enrolled
        <3> QED
            BY <1>2, <2>2, <3>1, EnrolledGrows DEF IInv, TypeOK
    <2> QED
        BY <2>1, <2>2
<1>5. \A b \in Enrolled : Data[b] = clients[index[b]]
    BY DEF Data
<1> QED
    BY <1>1, <1>4, <1>5, EnrolledGrows DEF Data

LEMMA NextRefines == IInv /\ [Next]_vars => [Dir!Next]_Data
<1> SUFFICES ASSUME IInv, [Next]_vars PROVE [Dir!Next]_Data
    OBVIOUS
<1>0. /\ Dir!Enrolled = Enrolled
      /\ \A a \in Enrolled : Data[a] = clients[index[a]]
    BY DEF Dir!Enrolled, Data
<1>1. ASSUME NEW a \in Addrs, NEW v \in Values, HearKnown(a, v)
      PROVE  Dir!HearKnown(a, v)
    <2>1. /\ a \in Enrolled
          /\ Data' = [Data EXCEPT ![a] = Reported(clients[index[a]], v)]
        BY <1>1, RecordRefines DEF HearKnown
    <2> QED
        BY <1>0, <2>1 DEF Dir!HearKnown, Dir!Reported, Reported, Data
<1>2. ASSUME NEW a \in Addrs, NEW v \in Values, HearNew(a, v)
      PROVE  Dir!HearNew(a, v)
    <2>1. Dir!Reported(Dir!NewClient, v) = Reported(NewClient, v)
        BY DEF Dir!Reported, Reported, Dir!NewClient, NewClient
    <2>2. /\ a \in Addrs \ Enrolled /\ a < MaxAddr
          /\ Cardinality(Enrolled) < MaxCount
          /\ Data' = [b \in Enrolled \cup {a} |->
                        IF b = a THEN Reported(NewClient, v) ELSE Data[b]]
        BY <1>2, HearNewRefines
    <2>3. Dir!Cardinality(Enrolled) = Cardinality(Enrolled)
        BY DEF Dir!Cardinality, Cardinality
    <2> QED
        BY <1>0, <2>1, <2>2, <2>3 DEF Dir!HearNew, Data
<1>3. ASSUME NEW a \in Addrs, NEW v \in Values, Ask(a, v)
      PROVE  Dir!Ask(a, v)
    <2>1. /\ a \in Enrolled
          /\ Data' = [Data EXCEPT ![a] = Asked(clients[index[a]], v)]
        BY <1>3, RecordRefines DEF Ask
    <2> QED
        BY <1>0, <2>1 DEF Dir!Ask, Dir!Asked, Asked, Data
<1>4. CASE Next
    BY <1>1, <1>2, <1>3, <1>4 DEF Next, Dir!Next
<1>5. CASE UNCHANGED vars
    BY <1>5 DEF vars, Data, Enrolled
<1> QED
    BY <1>4, <1>5

(* The registry is a directory by address, for any number of clients: what *)
(* is heard of or asked of one never shows in the record of another.       *)
THEOREM RegistryImplementsDirectory == Spec => ImplementsDirectory
    BY NextRefines, InitRefines, IInvariance, PTL
    DEF Spec, Dir!Spec, ImplementsDirectory, Data
=============================================================================
