---------------------------- MODULE RadioProofs ----------------------------
(***************************************************************************)
(* Proofs about Radio for queues, packets and frames of any length.        *)
(***************************************************************************)
EXTENDS Radio, SequenceTheorems, TLAPS

(***************************************************************************)
(* The inductive invariant.  A frame is cut short when the handler runs    *)
(* out of bytes before its end, or when the main loop calls wait_for_sync  *)
(* while the radio sends.  Against the first, what is in the out queue     *)
(* ends with the end of a frame (WholeFrames), which needs that every      *)
(* frame finds room (Frames, Pending); against the second, nothing         *)
(* received is left to read while the radio sends (Sending).               *)
(***************************************************************************)
(* While the radio sends there is something to send, and nothing to read.  *)
Sending ==
    mode = "tx" => /\ out.q # <<>> /\ in.q = <<>>
                   /\ pc \in {"update", "send", "receive"}

(* The last byte waiting to be sent is the last of a frame. *)
WholeFrames == out.q # <<>> => out.q[Len(out.q)]

(* Since it was last empty the out queue has taken up a frame at most, or  *)
(* two while it sends, with a sync among what is on its way.               *)
Frames ==
    /\ out.top <= 2 * FrameLen
    /\ out.q = <<>> <=> out.top = 0
    /\ out.top > FrameLen => mode = "tx" /\ synced

(* A frame to be sent is whole, and comes when at most one is in the out   *)
(* queue, or none if it is the only one on its way.                        *)
Pending ==
    /\ pc \in {"receive", "pop"} => rest = 0
    /\ rest > 0 => out.top <= FrameLen
    /\ rest > 0 /\ ~synced => out.top = 0 /\ (pc = "send" => ~underrun)

(* A frame waits for the radio to send: it does so at the next update,     *)
(* unless that one reports an underrun first; until then not enough is     *)
(* read for another answer.                                                *)
Waiting ==
    out.top > 0 /\ mode # "tx" =>
       /\ ~synced => ~underrun /\ pc # "send"
       /\ ~synced /\ pc \in {"receive", "pop"} => got = 0
       /\ pc = "send" => ~underrun /\ rest = 0
       /\ underrun /\ pc \in {"receive", "pop"} => got = 0
       /\ underrun => rest = 0

(* Nothing is left of a packet between two packets. *)
Assembly == length = 0 => got = 0

IInv ==
    /\ TypeOK /\ NoCutFrame
    /\ Sending /\ WholeFrames /\ Frames /\ Pending /\ Waiting /\ Assembly
-----------------------------------------------------------------------------
(***************************************************************************)
(* The two byte queues, for any kind of byte B.                            *)
(***************************************************************************)
(* An empty queue is a queue. *)
LEMMA EmptyType ==
    ASSUME NEW B PROVE EmptyQ \in Queue(B)
BY RadioAssumption DEF EmptyQ, Queue

(* ShortQ::push keeps the bound: a full queue takes nothing. *)
LEMMA PushType ==
    ASSUME NEW B, NEW s \in Queue(B), NEW b \in B
    PROVE  Push(s, b) \in Queue(B)
<1>1. /\ s.q \in Seq(B) /\ s.top \in 0 .. RadioLen
      /\ s = [q |-> s.q, top |-> s.top]
      BY DEF Queue
<1>2. Append(s.q, b) \in Seq(B)
      BY <1>1
<1> QED BY <1>1, <1>2, RadioAssumption DEF Push, Queue

(* ShortQ::pop keeps the bound, and _top as long as something is left. *)
LEMMA PoppedType ==
    ASSUME NEW B, NEW s \in Queue(B)
    PROVE  Popped(s) \in Queue(B)
<1>1. s.q \in Seq(B) /\ s.top \in 0 .. RadioLen
      BY DEF Queue
<1>2. CASE Len(s.q) <= 1
      BY <1>2, EmptyType DEF Popped
<1>3. CASE ~(Len(s.q) <= 1)
  <2>1. Tail(s.q) \in Seq(B)
        BY <1>1, <1>3
  <2>2. Popped(s) = [q |-> Tail(s.q), top |-> s.top]
        BY <1>3 DEF Popped, Queue
  <2> QED BY <1>1, <2>1, <2>2 DEF Queue
<1> QED BY <1>2, <1>3

(* What is left after a pop ends as it did before. *)
LEMMA PoppedRest ==
    ASSUME NEW B, NEW s \in Queue(B), ~(Len(s.q) <= 1)
    PROVE  /\ Popped(s).q # <<>>
           /\ Popped(s).top = s.top
           /\ Popped(s).q[Len(Popped(s).q)] = s.q[Len(s.q)]
<1>1. s.q \in Seq(B) /\ s.top \in 0 .. RadioLen
      BY DEF Queue
<1>2. Popped(s) = [q |-> Tail(s.q), top |-> s.top]
      BY DEF Popped, Queue
<1>3. /\ Len(Tail(s.q)) = Len(s.q) - 1 /\ Len(s.q) > 1
      /\ \A i \in 1 .. Len(s.q) - 1 : Tail(s.q)[i] = s.q[i + 1]
      BY <1>1
<1> DEFINE t == Tail(s.q)
<1>4. t \in Seq(B) /\ t # <<>> /\ t[Len(t)] = s.q[Len(s.q)]
  <2>1. t \in Seq(B)
        BY <1>1, <1>3
  <2>2. Len(t) \in 1 .. Len(s.q) - 1 /\ Len(t) + 1 = Len(s.q)
        BY <1>1, <1>3
  <2>3. t[Len(t)] = s.q[Len(t) + 1]
        BY <1>3, <2>2
  <2>4. t # <<>>
        BY <2>2
  <2> QED BY <2>1, <2>2, <2>3, <2>4
<1> HIDE DEF t
<1>5. Popped(s).q = t /\ Popped(s).top = s.top
      BY <1>2 DEF t
<1> QED BY <1>4, <1>5

(* A queue from which pop takes the last byte holds one.                   *)
LEMMA OneLeft ==
    ASSUME NEW B, NEW q \in Seq(B), q # <<>>, Len(q) <= 1
    PROVE  Len(q) = 1
<1> DEFINE n == Len(q)
<1>1. n \in Nat /\ n # 0 /\ n <= 1
      BY EmptySeq
<1> HIDE DEF n
<1>2. n = 1
      BY <1>1
<1> QED BY <1>2 DEF n

(* A whole frame that has room is taken up as it is; its last byte becomes *)
(* the last of the queue.                                                  *)
LEMMA FramePushed ==
    ASSUME NEW s \in Queue(BOOLEAN), rest \in 1 .. FrameLen,
           s.top + FrameLen <= RadioLen
    PROVE  /\ Room(s) = rest
           /\ PushFrame(s, rest) \in Queue(BOOLEAN)
           /\ PushFrame(s, rest).q # <<>>
           /\ PushFrame(s, rest).top = s.top + rest
           /\ PushFrame(s, rest).q[Len(PushFrame(s, rest).q)]
<1>1. s.q \in Seq(BOOLEAN) /\ s.top \in 0 .. RadioLen
      BY DEF Queue
<1>2. Room(s) = rest
      BY <1>1, RadioAssumption DEF Room
<1> DEFINE f == FrameBytes(rest)
           g == SubSeq(f, 1, rest)
<1>3. f \in Seq(BOOLEAN) /\ Len(f) = rest /\ f[rest] = TRUE
  <2>1. f = [i \in 1 .. rest |-> i = rest]
        BY DEF FrameBytes
  <2>2. rest \in 1 .. rest
        BY RadioAssumption
  <2>3. f[rest] = TRUE
        BY <2>1, <2>2, Zenon
  <2>4. f \in [1 .. rest -> BOOLEAN]
        BY <2>1, Zenon
  <2> HIDE DEF f
  <2>5. f \in Seq(BOOLEAN) /\ Len(f) = rest
        BY <2>4, RadioAssumption
  <2> QED BY <2>3, <2>5
<1>4. g \in Seq(BOOLEAN) /\ Len(g) = rest /\ g[rest] = TRUE
      BY <1>3, RadioAssumption DEF g
<1>5. PushFrame(s, rest) = [q |-> s.q \o g, top |-> s.top + rest]
      BY DEF PushFrame
<1> HIDE DEF f, g
<1>6. /\ s.q \o g \in Seq(BOOLEAN)
      /\ Len(s.q \o g) = Len(s.q) + rest
      /\ (s.q \o g)[Len(s.q) + rest] = g[rest]
      BY <1>1, <1>4, RadioAssumption
<1>7. s.q \o g # <<>>
      BY <1>1, <1>6, RadioAssumption
<1> QED BY <1>1, <1>2, <1>4, <1>5, <1>6, <1>7, RadioAssumption DEF Queue
-----------------------------------------------------------------------------
(* The system starts in the invariant. *)
LEMMA InitInv ==
    Init => IInv
<1> SUFFICES ASSUME Init PROVE IInv
    OBVIOUS
<1>1. TypeOK
  <2>1. EmptyQ \in Queue(0 .. MaxByte) /\ EmptyQ \in Queue(BOOLEAN)
        BY EmptyType
  <2>2. /\ 0 \in 0 .. MaxByte /\ 0 \in 0 .. RcvLen /\ 0 \in 0 .. FrameLen
        BY RadioAssumption
  <2> HIDE DEF EmptyQ, Queue
  <2> QED BY <2>1, <2>2, Zenon DEF Init, TypeOK
<1> QED BY <1>1, RadioAssumption
        DEF Init, IInv, NoCutFrame, Sending, WholeFrames, Frames, Pending,
            Waiting, Assembly, EmptyQ

(* Whatever the handler does, it does with the queues as they are: when it *)
(* has nothing more to send, the frame it sent was over.                   *)
LEMMA TxInv ==
    IInv /\ TxNext => IInv'
<1> SUFFICES ASSUME IInv, TxNext PROVE IInv'
    OBVIOUS
<1> USE RadioAssumption
<1>1. CASE TxUnderrun
  <2>1. TypeOK'
        BY <1>1, EmptyType
        DEF TxUnderrun, ToIdle, Silent, Handler, IInv, TypeOK
  <2>2. (NoCutFrame /\ Sending /\ WholeFrames)'
        BY <1>1 DEF TxUnderrun, ToIdle, NoCutFrame, Sending, WholeFrames,
                    EmptyQ
  <2>3. (Frames /\ Pending /\ Waiting /\ Assembly)'
        BY <1>1 DEF TxUnderrun, ToIdle, Silent, Handler, IInv, TypeOK,
                    EmptyQ, Sending, Frames, Pending, Waiting, Assembly
  <2> QED BY <2>1, <2>2, <2>3 DEF IInv
<1>2. CASE TxByte /\ Len(out.q) <= 1
  <2>0. /\ mode = "tx" /\ ToIdle /\ Silent /\ Handler
        /\ UNCHANGED <<in, limit, underrun>>
        BY <1>2 DEF TxByte
  <2>1. out.q # <<>> /\ ~cut'
    <3>1. out.q \in Seq(BOOLEAN) /\ out.q # <<>>
          BY <2>0 DEF IInv, TypeOK, Queue, Sending
    <3>2. Len(out.q) = 1
          BY <1>2, <3>1, OneLeft
    <3>3. out.q[1]
          BY <3>1, <3>2 DEF IInv, WholeFrames
    <3>4. Head(out.q) = out.q[1]
          BY <3>1
    <3> QED BY <1>2, <3>1, <3>2, <3>3, <3>4 DEF TxByte
  <2>2. cut' \in BOOLEAN
    <3>1. cut' = ~Head(out.q)
          BY <1>2, <2>1, Zenon DEF TxByte
    <3> QED BY <3>1, Zenon
  <2>3. TypeOK'
        BY <2>0, <2>2, EmptyType DEF ToIdle, Silent, Handler, IInv, TypeOK
  <2>4. (NoCutFrame /\ Sending /\ WholeFrames)'
        BY <2>0, <2>1 DEF ToIdle, NoCutFrame, Sending, WholeFrames, EmptyQ
  <2>5. (Frames /\ Pending /\ Waiting /\ Assembly)'
        BY <2>0 DEF ToIdle, Silent, Handler, IInv, TypeOK, EmptyQ, Sending,
                    Frames, Pending, Waiting, Assembly
  <2> QED BY <2>3, <2>4, <2>5 DEF IInv
<1>3. CASE TxByte /\ ~(Len(out.q) <= 1)
  <2>0. /\ mode = "tx" /\ out' = Popped(out) /\ Handler
        /\ UNCHANGED <<mode, fill, synced, in, limit, underrun>>
        BY <1>3 DEF TxByte
  <2>1. out' \in Queue(BOOLEAN)
        BY <2>0, PoppedType DEF IInv, TypeOK
  <2>2. /\ out'.q # <<>> /\ out.q # <<>> /\ out'.top = out.top
        /\ out'.q[Len(out'.q)] = out.q[Len(out.q)]
        BY <1>3, <2>0, PoppedRest DEF IInv, TypeOK, Sending
  <2>3. cut' \in BOOLEAN
    <3>1. cut' = ~Head(out.q)
          BY <1>3, <2>2, Zenon DEF TxByte
    <3> QED BY <3>1, Zenon
  <2>4. TypeOK'
        BY <2>0, <2>1, <2>3 DEF Handler, IInv, TypeOK
  <2>5. (NoCutFrame /\ Sending /\ WholeFrames)'
        BY <2>0, <2>2 DEF Handler, IInv, NoCutFrame, Sending, WholeFrames
  <2>6. (Frames /\ Pending /\ Waiting /\ Assembly)'
        BY <2>0, <2>2 DEF Handler, IInv, TypeOK, Sending,
                          Frames, Pending, Waiting, Assembly
  <2> QED BY <2>4, <2>5, <2>6 DEF IInv
<1> QED BY <1>1, <1>2, <1>3 DEF TxNext

(* Receiving needs a mode in which the radio does not send. *)
LEMMA RxInv ==
    IInv /\ (RxNext \/ SyncWord) => IInv'
<1> SUFFICES ASSUME IInv, RxNext \/ SyncWord PROVE IInv'
    OBVIOUS
<1> USE RadioAssumption
<1>1. ASSUME NEW b \in 0 .. MaxByte, RxFirst(b) PROVE IInv'
  <2>1. CASE b > 0
    <3>1. Push(EmptyQ, b) \in Queue(0 .. MaxByte)
          BY EmptyType, PushType
    <3>2. TypeOK'
          BY <1>1, <2>1, <3>1 DEF RxFirst, Handler, IInv, TypeOK
    <3>3. (NoCutFrame /\ Sending /\ WholeFrames)'
          BY <1>1, <2>1
          DEF RxFirst, IInv, NoCutFrame, Sending, WholeFrames
    <3>4. (Frames /\ Pending /\ Waiting /\ Assembly)'
          BY <1>1, <2>1
          DEF RxFirst, Handler, IInv, Frames, Pending, Waiting, Assembly
    <3> QED BY <3>2, <3>3, <3>4 DEF IInv
  <2>2. CASE ~(b > 0)
    <3>1. TypeOK'
      <4>1. EmptyQ \in Queue(0 .. MaxByte) /\ EmptyQ \in Queue(BOOLEAN)
            BY EmptyType
      <4>2. 0 \in 0 .. MaxByte
            OBVIOUS
      <4> QED BY <1>1, <2>2, <4>1, <4>2
              DEF RxFirst, ToIdle, Silent, Handler, IInv, TypeOK
    <3>2. (NoCutFrame /\ Sending /\ WholeFrames)'
          BY <1>1, <2>2 DEF RxFirst, ToIdle, IInv, NoCutFrame, Sending,
                            WholeFrames, EmptyQ
    <3>3. (Frames /\ Pending /\ Waiting /\ Assembly)'
          BY <1>1, <2>2 DEF RxFirst, ToIdle, Silent, Handler, IInv, TypeOK,
                            Frames, Pending, Waiting, Assembly, EmptyQ
    <3> QED BY <3>1, <3>2, <3>3 DEF IInv
  <2> QED BY <2>1, <2>2
<1>2. ASSUME NEW b \in 0 .. MaxByte, RxByte(b) PROVE IInv'
  <2>1. Push(in, b) \in Queue(0 .. MaxByte) /\ limit - 1 \in 0 .. MaxByte
        BY <1>2, PushType DEF RxByte, IInv, TypeOK
  <2>2. TypeOK'
        BY <1>2, <2>1 DEF RxByte, Handler, IInv, TypeOK
  <2>3. (NoCutFrame /\ Sending /\ WholeFrames)'
        BY <1>2 DEF RxByte, IInv, NoCutFrame, Sending, WholeFrames
  <2>4. (Frames /\ Pending /\ Waiting /\ Assembly)'
        BY <1>2
        DEF RxByte, Handler, IInv, Frames, Pending, Waiting, Assembly
  <2> QED BY <2>2, <2>3, <2>4 DEF IInv
<1>3. CASE RxBeyond
  <2>1. TypeOK'
        BY <1>3, EmptyType
        DEF RxBeyond, ToIdle, Silent, Handler, IInv, TypeOK
  <2>2. (NoCutFrame /\ Sending /\ WholeFrames)'
        BY <1>3 DEF RxBeyond, ToIdle, IInv, NoCutFrame, Sending,
                    WholeFrames, EmptyQ
  <2>3. (Frames /\ Pending /\ Waiting /\ Assembly)'
        BY <1>3 DEF RxBeyond, ToIdle, Silent, Handler, IInv, TypeOK,
                    Frames, Pending, Waiting, Assembly, EmptyQ
  <2> QED BY <2>1, <2>2, <2>3 DEF IInv
<1>4. CASE SyncWord
      BY <1>4 DEF SyncWord, Handler, IInv, TypeOK, NoCutFrame, Sending,
                  WholeFrames, Frames, Pending, Waiting, Assembly
<1> QED BY <1>1, <1>2, <1>3, <1>4 DEF RxNext

(* The main loop: what radio.update() does. *)
LEMMA UpdateInv ==
    IInv /\ (ReportUnderrun \/ StartTx \/ NothingToStart) => IInv'
<1> SUFFICES ASSUME IInv, ReportUnderrun \/ StartTx \/ NothingToStart
             PROVE  IInv'
    OBVIOUS
<1> USE RadioAssumption
<1>1. CASE ReportUnderrun
      BY <1>1 DEF ReportUnderrun, masterVars, IInv, TypeOK, NoCutFrame,
                  Sending, WholeFrames, Frames, Pending, Waiting, Assembly
<1>2. CASE StartTx
  <2>1. TypeOK'
    <3>1. EmptyQ \in Queue(0 .. MaxByte)
          BY EmptyType
    <3> QED BY <1>2, <3>1 DEF StartTx, masterVars, IInv, TypeOK
  <2>2. (NoCutFrame /\ Sending /\ WholeFrames)'
        BY <1>2 DEF StartTx, IInv, NoCutFrame, Sending, WholeFrames, EmptyQ
  <2>3. (Frames /\ Pending /\ Waiting /\ Assembly)'
        BY <1>2 DEF StartTx, masterVars, IInv, TypeOK, Frames, Pending,
                    Waiting, Assembly
  <2> QED BY <2>1, <2>2, <2>3 DEF IInv
<1>3. CASE NothingToStart
      BY <1>3 DEF NothingToStart, radioVars, masterVars, IInv, TypeOK,
                  NoCutFrame, Sending, WholeFrames, Frames, Pending, Waiting,
                  Assembly
<1> QED BY <1>1, <1>2, <1>3

(* The main loop: a frame that is sent finds room. *)
LEMMA SendInv ==
    IInv /\ (QueueSync \/ SendFrame \/ SendNothing) => IInv'
<1> SUFFICES ASSUME IInv, QueueSync \/ SendFrame \/ SendNothing
             PROVE  IInv'
    OBVIOUS
<1> USE RadioAssumption
<1>1. CASE QueueSync
  <2>1. out.top \in 0 .. RadioLen
        BY DEF IInv, TypeOK, Queue
  <2>2. TypeOK'
        BY <1>1 DEF QueueSync, radioVars, IInv, TypeOK
  <2>3. (NoCutFrame /\ Sending /\ WholeFrames /\ Assembly)'
        BY <1>1 DEF QueueSync, radioVars, IInv, NoCutFrame, Sending,
                    WholeFrames, Assembly
  <2>4. (Frames /\ Pending /\ Waiting)'
        BY <1>1, <2>1
        DEF QueueSync, radioVars, IInv, TypeOK, Frames, Pending, Waiting
  <2> QED BY <2>2, <2>3, <2>4 DEF IInv
<1>2. CASE SendFrame
  <2>1. /\ rest \in 1 .. FrameLen /\ out \in Queue(BOOLEAN)
        /\ out.top \in 0 .. FrameLen
        BY <1>2 DEF SendFrame, IInv, TypeOK, Queue, Pending
  <2>2. out.top + FrameLen <= RadioLen
        BY <2>1
  <2>3. /\ out' \in Queue(BOOLEAN) /\ out'.q # <<>>
        /\ out'.top = out.top + rest /\ out'.q[Len(out'.q)]
        /\ rest' = 0
        BY <1>2, <2>1, <2>2, FramePushed DEF SendFrame
  <2>4. TypeOK'
        BY <1>2, <2>3 DEF SendFrame, IInv, TypeOK
  <2>5. (NoCutFrame /\ Sending /\ WholeFrames)'
        BY <1>2, <2>3 DEF SendFrame, IInv, NoCutFrame, Sending, WholeFrames
  <2>6. Frames'
        BY <1>2, <2>1, <2>3
        DEF SendFrame, IInv, Frames, Pending, Waiting
  <2>7. (Pending /\ Waiting /\ Assembly)'
        BY <1>2, <2>1, <2>3
        DEF SendFrame, IInv, TypeOK, Frames, Pending, Waiting, Assembly
  <2> QED BY <2>4, <2>5, <2>6, <2>7 DEF IInv
<1>3. CASE SendNothing
      BY <1>3 DEF SendNothing, radioVars, masterVars, IInv, TypeOK,
                  NoCutFrame, Sending, WholeFrames, Frames, Pending, Waiting,
                  Assembly
<1> QED BY <1>1, <1>2, <1>3

(* The main loop: while the radio sends, there is no byte to take, and so  *)
(* no way to wait_for_sync.                                                *)
LEMMA ReceiveInv ==
    IInv /\ (LookForByte \/ TakeByte \/ Wait \/ ResetFifo) => IInv'
<1> SUFFICES ASSUME IInv, LookForByte \/ TakeByte \/ Wait \/ ResetFifo
             PROVE  IInv'
    OBVIOUS
<1> USE RadioAssumption
<1>1. CASE LookForByte
      BY <1>1 DEF LookForByte, radioVars, masterVars, IInv, TypeOK,
                  NoCutFrame, Sending, WholeFrames, Frames, Pending, Waiting,
                  Assembly
<1>2. CASE TakeByte
  <2>1. Byte \in 0 .. MaxByte
    <3>1. in.q \in Seq(0 .. MaxByte)
          BY DEF IInv, TypeOK, Queue
    <3>2. in.q # <<>> => Head(in.q) \in 0 .. MaxByte
          BY <3>1
    <3> QED BY <3>2 DEF Byte
  <2>2. Expected \in 0 .. MaxByte
        BY <2>1 DEF Expected, IInv, TypeOK
  <2>3. Filled \in 0 .. RcvLen
        BY DEF Filled, TooLong, IInv, TypeOK
  <2>4. in' \in Queue(0 .. MaxByte)
        BY <1>2, PoppedType DEF TakeByte, IInv, TypeOK
  <2>5. mode # "tx"
        BY <1>2 DEF TakeByte, IInv, Sending
  <2>6. /\ rest = 0 /\ rest' \in 0 .. FrameLen
        /\ rest' > 0 => Filled >= MinPacket
        BY <1>2 DEF TakeByte, IInv, Pending
  <2>7. pc' \in {"wait", "update"} /\ pc = "pop"
        BY <1>2 DEF TakeByte
  <2>8. TypeOK'
        BY <1>2, <2>2, <2>3, <2>4, <2>6, <2>7 DEF TakeByte, IInv, TypeOK
  <2>9. (NoCutFrame /\ Sending /\ WholeFrames /\ Frames)'
        BY <1>2, <2>5
        DEF TakeByte, IInv, NoCutFrame, Sending, WholeFrames, Frames
  <2>10. rest' > 0 => got > 0
        BY <2>3, <2>6 DEF Filled, TooLong, IInv, TypeOK
  <2>11. (Pending /\ Waiting)'
    <3>1. out.top \in 0 .. RadioLen
          BY DEF IInv, TypeOK, Queue
    <3> QED BY <1>2, <2>5, <2>6, <2>7, <2>10, <3>1
            DEF TakeByte, IInv, TypeOK, Frames, Pending, Waiting
  <2>12. Assembly'
        BY <1>2, <2>2 DEF TakeByte, Assembly
  <2> QED BY <2>8, <2>9, <2>11, <2>12 DEF IInv
<1>3. CASE Wait
      BY <1>3 DEF Wait, masterVars, IInv, TypeOK, NoCutFrame, Sending,
                  WholeFrames, Frames, Pending, Waiting, Assembly
<1>4. CASE ResetFifo
  <2>1. TypeOK'
    <3>1. EmptyQ \in Queue(BOOLEAN)
          BY EmptyType
    <3> QED BY <1>4, <3>1 DEF ResetFifo, Silent, IInv, TypeOK
  <2>2. (NoCutFrame /\ Sending /\ WholeFrames)'
        BY <1>4 DEF ResetFifo, IInv, NoCutFrame, Sending, WholeFrames,
                    EmptyQ
  <2>3. (Frames /\ Pending /\ Waiting /\ Assembly)'
        BY <1>4 DEF ResetFifo, Silent, IInv, TypeOK, Sending, Frames,
                    Pending, Waiting, Assembly, EmptyQ
  <2> QED BY <2>1, <2>2, <2>3 DEF IInv
<1> QED BY <1>1, <1>2, <1>3, <1>4

(* Every step of the loop, the handler and the chip keeps the invariant.   *)
LEMMA NextInv ==
    IInv /\ [Next]_vars => IInv'
<1> SUFFICES ASSUME IInv, [Next]_vars PROVE IInv'
    OBVIOUS
<1>1. CASE Next
      BY <1>1, TxInv, RxInv, UpdateInv, SendInv, ReceiveInv
      DEF Next, Loop
<1>2. CASE UNCHANGED vars
      BY <1>2 DEF vars, IInv, TypeOK, NoCutFrame, Sending, WholeFrames,
                  Frames, Pending, Waiting, Assembly
<1> QED BY <1>1, <1>2

(* The invariant holds of every state the driver reaches, whatever is      *)
(* received and however the interrupts fall.                               *)
THEOREM Invariance ==
    Spec => []IInv
<1> QED BY InitInv, NextInv, PTL DEF Spec

(* RFM12B and HR20Master keep to their types: neither byte queue is        *)
(* overrun, and packet never holds more than it can.                       *)
THEOREM TypeCorrect ==
    Spec => []TypeOK
<1>1. IInv => TypeOK
      BY DEF IInv
<1> QED BY <1>1, Invariance, PTL

(* The radio never falls silent in the middle of a frame but at an         *)
(* underrun (on_interrupt, wait_for_sync).                                 *)
THEOREM FramesSentWhole ==
    Spec => []NoCutFrame
<1>1. IInv => NoCutFrame
      BY DEF IInv
<1> QED BY <1>1, Invariance, PTL

(* HR20Master::send never has to leave the rest of a frame for later: the  *)
(* out queue always has room for it.                                       *)
THEOREM FramesFit ==
    Spec => []FrameFits
<1>1. IInv => FrameFits
      BY DEF IInv, Pending, FrameFits
<1> QED BY <1>1, Invariance, PTL
=============================================================================
