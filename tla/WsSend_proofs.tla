---------------------------- MODULE WsSend_proofs ----------------------------
(***************************************************************************)
(* Proofs about the send queue of ws::WsChannel, for every queue size and  *)
(* every number of messages.                                               *)
(***************************************************************************)
EXTENDS WsSend, SequenceTheorems, TLAPS

(***************************************************************************)
(* Nobody sets isSendBusy_, so every send starts a write of its own: there *)
(* are at least as many writes as queued messages.                         *)
(***************************************************************************)
NeverBusy == isSendBusy = FALSE

EnoughWrites == open /\ ~undefined => Len(inflight) >= Len(sendBuffer)

(***************************************************************************)
(* A paced application has one message on its way: nowhere, posted on the  *)
(* strand, or alone in the queue with its write pending.                   *)
(***************************************************************************)
OneOnItsWay ==
    /\ Len(strand) + Len(inflight) <= 1
    /\ inflight # <<>> => /\ Len(sendBuffer) > 0
                          /\ inflight[1] = sendBuffer[Len(sendBuffer)]

Arrived == Idle /\ sendBuffer = <<>> /\ wire = accepted

Posted ==
    /\ Len(strand) = 1 /\ inflight = <<>> /\ sendBuffer = <<>>
    /\ accepted = Append(wire, strand[1])

Writing ==
    /\ strand = <<>> /\ Len(inflight) = 1 /\ Len(sendBuffer) = 1
    /\ accepted = Append(wire, inflight[1])

WirePrefix ==
    /\ Len(wire) <= Len(accepted)
    /\ \A i \in 1..Len(wire) : wire[i] = accepted[i]

PacedInv ==
    /\ ~undefined
    /\ OneOnItsWay
    /\ WirePrefix
    /\ open => Arrived \/ Posted \/ Writing

IInv == TypeOK /\ NeverBusy /\ EnoughWrites /\ (paced => PacedInv)

-----------------------------------------------------------------------------
\* writeBack keeps the bound of the circular buffer and puts the message at
\* its back.
LEMMA WriteBackProperties ==
    ASSUME NEW buf \in Seq(Message), Len(buf) <= Capacity, NEW m \in Message
    PROVE  /\ WriteBack(buf, m) \in Seq(Message)
           /\ Len(WriteBack(buf, m)) \in 1..Capacity
           /\ Len(WriteBack(buf, m)) <= Len(buf) + 1
           /\ BackPtr(WriteBack(buf, m)) = m
           /\ buf = <<>> => Len(WriteBack(buf, m)) = 1
  <1>1. CASE Len(buf) = Capacity
    <2>1. buf # <<>>
      BY <1>1, SendAssumption
    <2>2. /\ Tail(buf) \in Seq(Message)
          /\ Len(Tail(buf)) = Len(buf) - 1
      BY <2>1
    <2>3. WriteBack(buf, m) = Append(Tail(buf), m)
      BY <1>1 DEF WriteBack
    <2>4. /\ Append(Tail(buf), m) \in Seq(Message)
          /\ Len(Append(Tail(buf), m)) = Len(buf)
          /\ Append(Tail(buf), m)[Len(buf)] = m
      BY <2>2
    <2> QED
      BY <1>1, <2>1, <2>3, <2>4, SendAssumption DEF BackPtr
  <1>2. CASE Len(buf) # Capacity
    <2>1. WriteBack(buf, m) = Append(buf, m)
      BY <1>2 DEF WriteBack
    <2> QED
      BY <1>2, <2>1, SendAssumption DEF BackPtr
  <1> QED
    BY <1>1, <1>2

\* popBack removes one message, and backPtr points to a message.
LEMMA PopBackProperties ==
    ASSUME NEW buf \in Seq(Message), buf # <<>>
    PROVE  /\ PopBack(buf) \in Seq(Message)
           /\ Len(PopBack(buf)) = Len(buf) - 1
           /\ BackPtr(buf) \in Message
  <1>1. Len(buf) \in Nat \ {0} /\ \A i \in 1..Len(buf) : buf[i] \in Message
    BY EmptySeq, LenProperties
  <1> DEFINE n == Len(buf) - 1
  <1>2. n \in Nat /\ 1 \in Int /\ n \in Int /\ \A i \in 1..n : buf[i] \in Message
    BY <1>1
  <1> HIDE DEF n
  <1>3. /\ SubSeq(buf, 1, n) \in Seq(Message)
        /\ Len(SubSeq(buf, 1, n)) = IF 1 <= n THEN n - 1 + 1 ELSE 0
    BY <1>2, SubSeqProperties
  <1>4. Len(SubSeq(buf, 1, n)) = n
    BY <1>2, <1>3
  <1>5. BackPtr(buf) \in Message
    BY <1>1 DEF BackPtr
  <1> QED
    BY <1>3, <1>4, <1>5 DEF PopBack, n

\* Initially nothing was sent.
LEMMA InitIInv == Init => IInv
  <1> SUFFICES ASSUME Init PROVE IInv
    OBVIOUS
  <1>1. TypeOK
    <2>1. <<>> \in Seq(Message) /\ Len(<<>>) = 0
      BY EmptySeq
    <2>2. /\ paced \in BOOLEAN /\ isSendBusy \in BOOLEAN
          /\ open \in BOOLEAN /\ undefined \in BOOLEAN
      BY Zenon DEF Init
    <2> QED
      BY <2>1, <2>2, SendAssumption DEF Init, TypeOK
  <1>2. NeverBusy /\ EnoughWrites
    BY DEF Init, NeverBusy, EnoughWrites
  <1>3. PacedInv
    BY DEF Init, PacedInv, OneOnItsWay, WirePrefix, Arrived, Idle
  <1> QED
    BY <1>1, <1>2, <1>3 DEF IInv

\* Calling sendAsync: a paced application finds nothing on its way.
LEMMA SendAsyncIInv ==
    ASSUME IInv, NEW size \in Size, SendAsync(size)
    PROVE  IInv'
  <1>1. calls + 1 \in Message
    BY SendAssumption DEF IInv, TypeOK, SendAsync, Message
  <1>2. TypeOK'
    <2>1. /\ paced' \in BOOLEAN /\ isSendBusy' \in BOOLEAN
          /\ open' \in BOOLEAN /\ undefined' \in BOOLEAN
      BY Zenon DEF IInv, TypeOK, SendAsync
    <2>2. calls' \in 0..MaxSends
      BY <1>1, SendAssumption DEF IInv, TypeOK, SendAsync, Message
    <2>3. strand' \in Seq(Message) /\ accepted' \in Seq(Message)
      <3>1. strand \in Seq(Message) /\ accepted \in Seq(Message)
        BY DEF IInv, TypeOK
      <3>2. /\ Append(strand, calls + 1) \in Seq(Message)
            /\ Append(accepted, calls + 1) \in Seq(Message)
        BY <3>1, <1>1, AppendProperties
      <3> QED
        BY <3>1, <3>2, Zenon DEF SendAsync
    <2> QED
      BY <2>1, <2>2, <2>3 DEF IInv, TypeOK, SendAsync
  <1>3. NeverBusy' /\ EnoughWrites'
    BY DEF IInv, NeverBusy, EnoughWrites, SendAsync
  <1>4. ASSUME paced' PROVE PacedInv'
    <2>1. paced /\ PacedInv /\ Idle
      BY <1>4 DEF IInv, SendAsync
    <2>2. CASE size = "fits"
      <3>1. /\ strand' = <<calls + 1>>
            /\ accepted' = Append(accepted, calls + 1)
            /\ UNCHANGED <<sendBuffer, inflight, open, undefined, wire>>
        BY <2>1, <2>2 DEF SendAsync, Idle
      <3>2. Len(strand') = 1 /\ strand'[1] = calls + 1
        BY <3>1
      <3>3. WirePrefix'
        BY <3>1, <2>1, <1>1 DEF PacedInv, WirePrefix, IInv, TypeOK
      <3>4. OneOnItsWay'
        BY <3>1, <3>2, <2>1 DEF PacedInv, OneOnItsWay, Idle
      <3>5. open' => Posted'
        BY <3>1, <3>2, <2>1 DEF PacedInv, Arrived, Posted, Writing, Idle
      <3> QED
        BY <3>1, <3>3, <3>4, <3>5, <2>1 DEF PacedInv
    <2>3. CASE size # "fits"
      BY <2>1, <2>3 DEF SendAsync, PacedInv, OneOnItsWay, WirePrefix, Arrived,
         Posted, Writing, Idle
    <2> QED
      BY <2>2, <2>3
  <1> QED
    BY <1>2, <1>3, <1>4 DEF IInv

\* The task send: one more message, one more write.
LEMMA SendIInv == IInv /\ Send => IInv'
  <1> SUFFICES ASSUME IInv, Send PROVE IInv'
    OBVIOUS
  <1> DEFINE m == Head(strand)
             buf == WriteBack(sendBuffer, m)
  <1>1. strand # <<>> /\ strand \in Seq(Message) /\ m \in Message
    BY DEF IInv, TypeOK, Send
  <1>2. sendBuffer \in Seq(Message) /\ Len(sendBuffer) <= Capacity
    BY DEF IInv, TypeOK
  <1>3. /\ buf \in Seq(Message) /\ Len(buf) \in 1..Capacity
        /\ Len(buf) <= Len(sendBuffer) + 1 /\ BackPtr(buf) = m
        /\ sendBuffer = <<>> => Len(buf) = 1
    BY <1>1, <1>2, WriteBackProperties
  <1>4. /\ sendBuffer' = buf /\ strand' = Tail(strand)
        /\ inflight' = Append(inflight, m)
        /\ UNCHANGED <<paced, calls, isSendBusy, open, undefined, accepted, wire>>
    <2>1. isSendBusy = FALSE
      BY DEF IInv, NeverBusy
    <2>2. sendBuffer' = buf
      BY DEF Send
    <2> HIDE DEF buf
    <2>3. inflight' = Append(inflight, BackPtr(buf))
      BY <2>1, <2>2 DEF Send, WriteQueued
    <2> QED
      BY <2>2, <2>3, <1>3 DEF Send
  <1> HIDE DEF m, buf
  <1>5. inflight \in Seq(Message)
    BY DEF IInv, TypeOK
  <1>6. TypeOK'
    <2>1. strand' \in Seq(Message) /\ inflight' \in Seq(Message)
      BY <1>1, <1>4, <1>5
    <2> QED
      BY <2>1, <1>3, <1>4, SendAssumption DEF IInv, TypeOK
  <1>7. NeverBusy' /\ EnoughWrites'
    BY <1>2, <1>3, <1>4, <1>5 DEF IInv, NeverBusy, EnoughWrites
  <1>8. ASSUME paced' PROVE PacedInv'
    <2>1. paced /\ PacedInv
      BY <1>4, <1>8 DEF IInv
    <2>2. Len(strand) = 1 /\ inflight = <<>>
      <3>1. Len(strand) \in Nat \ {0} /\ Len(inflight) \in Nat
        BY <1>1, <1>5, EmptySeq, LenProperties
      <3>2. Len(strand) + Len(inflight) <= 1
        BY <2>1, Zenon DEF PacedInv, OneOnItsWay
      <3>3. \A a \in Nat \ {0}, b \in Nat : a + b <= 1 => a = 1 /\ b = 0
        OBVIOUS
      <3>4. Len(strand) = 1 /\ Len(inflight) = 0
        BY <3>1, <3>2, <3>3, Zenon
      <3> QED
        BY <3>4, <1>5, EmptySeq
    <2>3. strand' = <<>> /\ m = strand[1]
      BY <2>2, <1>1, <1>4 DEF m
    <2>4. inflight' = <<m>> /\ Len(inflight') = 1 /\ inflight'[1] = m
      BY <2>2, <1>4
    <2>5. OneOnItsWay'
      BY <2>3, <2>4, <1>3, <1>4 DEF OneOnItsWay, BackPtr
    <2>6. WirePrefix'
      BY <2>1, <1>4 DEF PacedInv, WirePrefix
    <2>7. open' => Writing'
      BY <2>1, <2>2, <2>3, <2>4, <1>3, <1>4
         DEF PacedInv, Arrived, Posted, Writing, Idle
    <2> QED
      BY <2>1, <2>5, <2>6, <2>7, <1>4 DEF PacedInv
  <1> QED
    BY <1>6, <1>7, <1>8 DEF IInv

\* A write that succeeds: its message leaves the queue, and if the queue is not
\* empty a new write takes the place of the old one.
LEMMA OnWriteOkIInv == IInv /\ OnWriteOk => IInv'
  <1> SUFFICES ASSUME IInv, OnWriteOk PROVE IInv'
    OBVIOUS
  <1>1. /\ sendBuffer \in Seq(Message) /\ Len(sendBuffer) <= Capacity
        /\ inflight \in Seq(Message) /\ inflight # <<>> /\ ~undefined /\ open
        /\ wire \in Seq(Message) /\ accepted \in Seq(Message)
    BY DEF IInv, TypeOK, OnWriteOk
  <1>2. /\ wire' = Append(wire, Head(inflight)) /\ wire' \in Seq(Message)
        /\ UNCHANGED <<paced, calls, strand, open, accepted>>
    BY <1>1 DEF OnWriteOk
  <1>3. Tail(inflight) \in Seq(Message) /\ Len(Tail(inflight)) = Len(inflight) - 1
    BY <1>1
  <1>4. ASSUME paced' PROVE PacedInv /\ Writing /\ Len(sendBuffer) = 1
    BY <1>4, <1>2, <1>1 DEF IInv, PacedInv, Arrived, Posted, Writing, Idle
  <1>5. CASE sendBuffer = <<>>
    <2>1. undefined' = TRUE /\ UNCHANGED <<sendBuffer, isSendBusy, inflight>>
      BY <1>5 DEF OnWriteOk
    <2>2. TypeOK'
      BY <2>1, <1>2 DEF IInv, TypeOK
    <2>3. ~paced'
      BY <1>4, <1>5
    <2> QED
      BY <2>1, <2>2, <2>3 DEF IInv, NeverBusy, EnoughWrites
  <1>6. CASE sendBuffer # <<>>
    <2>1. sendBuffer' = PopBack(sendBuffer) /\ UNCHANGED undefined
      BY <1>6 DEF OnWriteOk
    <2>2. Head(inflight) \in Message
      BY <1>1
    <2>3. /\ sendBuffer' \in Seq(Message)
          /\ Len(sendBuffer') = Len(sendBuffer) - 1
      BY <1>1, <1>6, <2>1, PopBackProperties
    <2>4. \/ sendBuffer' # <<>> /\ UNCHANGED isSendBusy
               /\ inflight' = Append(Tail(inflight), BackPtr(sendBuffer'))
          \/ sendBuffer' = <<>> /\ isSendBusy' = FALSE
               /\ inflight' = Tail(inflight)
      BY <1>6 DEF OnWriteOk, WriteQueued
    <2>5. /\ inflight' \in Seq(Message)
          /\ sendBuffer' # <<>> => Len(inflight') = Len(inflight)
          /\ sendBuffer' = <<>> => Len(inflight') = Len(inflight) - 1
      <3>1. CASE sendBuffer' # <<>>
        <4>1. BackPtr(sendBuffer') \in Message
          BY <2>3, <3>1, PopBackProperties
        <4>2. inflight' = Append(Tail(inflight), BackPtr(sendBuffer'))
          BY <3>1, <2>4
        <4>3. inflight' \in Seq(Message) /\ Len(inflight') = Len(inflight) - 1 + 1
          BY <4>1, <4>2, <1>3, AppendProperties
        <4>4. Len(inflight) \in Nat
          BY <1>1, LenProperties
        <4> QED
          BY <3>1, <4>3, <4>4
      <3>2. CASE sendBuffer' = <<>>
        BY <3>2, <2>4, <1>3
      <3> QED
        BY <3>1, <3>2
    <2>6. TypeOK'
      <3>1. isSendBusy' = FALSE
        BY <2>4, Zenon DEF IInv, NeverBusy
      <3>2. /\ paced' \in BOOLEAN /\ isSendBusy' \in BOOLEAN
            /\ open' \in BOOLEAN /\ undefined' \in BOOLEAN
        BY <3>1, <2>1, <1>2, Zenon DEF IInv, TypeOK
      <3>3. Len(sendBuffer') <= Capacity
        BY <2>3, <1>1, SendAssumption, LenProperties
      <3> QED
        BY <3>2, <3>3, <2>3, <2>5, <1>2 DEF IInv, TypeOK
    <2>7. NeverBusy' /\ EnoughWrites'
      BY <2>3, <2>4, <2>5, <1>1 DEF IInv, NeverBusy, EnoughWrites
    <2>8. ASSUME paced' PROVE PacedInv'
      <3>1. /\ PacedInv /\ Writing /\ sendBuffer' = <<>>
            /\ Len(inflight) = 1 /\ inflight' = <<>>
        <4>1. PacedInv /\ Writing /\ Len(sendBuffer) = 1 /\ Len(inflight) = 1
          BY <2>8, <1>4, Zenon DEF Writing
        <4>2. sendBuffer' = <<>>
          BY <4>1, <2>3, EmptySeq
        <4> QED
          BY <4>1, <4>2, <2>5, EmptySeq
      <3>2. wire' = accepted'
        BY <3>1, <1>1, <1>2 DEF Writing
      <3>3. Arrived'
        BY <3>1, <3>2, <1>2 DEF Arrived, Writing, Idle
      <3>4. WirePrefix'
        BY <3>2, <1>1, <1>2 DEF WirePrefix
      <3>5. OneOnItsWay'
        BY <3>1, <1>2 DEF OneOnItsWay, Writing
      <3> QED
        BY <3>1, <3>3, <3>4, <3>5, <2>1 DEF PacedInv
    <2> QED
      BY <2>6, <2>7, <2>8 DEF IInv
  <1> QED
    BY <1>5, <1>6

\* A write that fails: the channel is closed, the message stays in the queue.
LEMMA OnWriteFailIInv == IInv /\ OnWriteFail => IInv'
  <1> SUFFICES ASSUME IInv, OnWriteFail PROVE IInv'
    OBVIOUS
  <1>1. /\ inflight \in Seq(Message) /\ inflight # <<>>
        /\ inflight' = Tail(inflight) /\ open' = FALSE
        /\ UNCHANGED <<paced, calls, strand, sendBuffer, isSendBusy, undefined,
                       accepted, wire>>
    BY DEF IInv, TypeOK, OnWriteFail
  <1>2. inflight' \in Seq(Message) /\ Len(inflight') = Len(inflight) - 1
    BY <1>1
  <1>3. TypeOK'
    BY <1>1, <1>2 DEF IInv, TypeOK
  <1>4. NeverBusy' /\ EnoughWrites'
    BY <1>1 DEF IInv, NeverBusy, EnoughWrites
  <1>5. ASSUME paced' PROVE PacedInv'
    <2>1. PacedInv
      BY <1>1, <1>5 DEF IInv
    <2>2. strand \in Seq(Message)
      BY DEF IInv, TypeOK
    <2>3. Len(inflight) = 1 /\ Len(strand) = 0 /\ inflight' = <<>>
      BY <2>1, <2>2, <1>1, <1>2 DEF PacedInv, OneOnItsWay
    <2>4. OneOnItsWay' /\ WirePrefix'
      BY <2>1, <2>3, <1>1 DEF PacedInv, OneOnItsWay, WirePrefix
    <2> QED
      BY <2>1, <2>4, <1>1 DEF PacedInv
  <1> QED
    BY <1>3, <1>4, <1>5 DEF IInv

\* A stuttering step changes nothing.
LEMMA StutterIInv == IInv /\ UNCHANGED vars => IInv'
  BY DEF IInv, TypeOK, NeverBusy, EnoughWrites, PacedInv, OneOnItsWay,
     WirePrefix, Arrived, Posted, Writing, Idle, vars

\* IInv is an inductive invariant of the send queue.
THEOREM Inductive == Spec => []IInv
  <1>1. IInv /\ [Next]_vars => IInv'
    BY SendAsyncIInv, SendIInv, OnWriteOkIInv, OnWriteFailIInv, StutterIInv DEF Next
  <1> QED
    BY <1>1, InitIInv, PTL DEF Spec

\* The types, and the bound kMaxSendQueueSize of the circular buffer, hold for
\* every size of the queue and every number of calls of sendAsync.
THEOREM TypeCorrect == Spec => []TypeOK
  <1>1. IInv => TypeOK
    BY DEF IInv
  <1> QED
    BY <1>1, Inductive, PTL

\* send and onWrite never leave a message in the queue of a working channel
\* without a write that will go on with the queue.
THEOREM NeverStalls == Spec => []NoStall
  <1>1. IInv => NoStall
    <2> SUFFICES ASSUME IInv, open, ~undefined, sendBuffer # <<>>
                 PROVE  inflight # <<>>
      BY DEF NoStall
    <2>1. sendBuffer \in Seq(Message) /\ inflight \in Seq(Message)
      BY DEF IInv, TypeOK
    <2>2. Len(inflight) >= Len(sendBuffer)
      BY DEF IInv, EnoughWrites
    <2> QED
      BY <2>1, <2>2
  <1> QED
    BY <1>1, Inductive, PTL

\* A paced application has at most one write pending, of the message at the
\* back of the buffer, although isSendBusy_ is never set.
THEOREM PacedWritesCorrect == Spec => []PacedWrites
  <1>1. IInv => PacedWrites
    <2> SUFFICES ASSUME IInv, paced
                 PROVE  /\ Len(inflight) <= 1
                        /\ inflight # <<>> => /\ sendBuffer # <<>>
                                              /\ Head(inflight) = BackPtr(sendBuffer)
      BY DEF PacedWrites
    <2>1. /\ sendBuffer \in Seq(Message) /\ inflight \in Seq(Message)
          /\ strand \in Seq(Message)
      BY DEF IInv, TypeOK
    <2>2. OneOnItsWay
      BY DEF IInv, PacedInv
    <2> QED
      BY <2>1, <2>2 DEF OneOnItsWay, BackPtr
  <1> QED
    BY <1>1, Inductive, PTL

\* For a paced application the queue delivers each accepted message once and in
\* order, and every one when nothing is pending on a working channel.
THEOREM PacedDeliveryCorrect == Spec => []PacedDelivery
  <1>1. IInv => PacedDelivery
    <2> SUFFICES ASSUME IInv, paced
                 PROVE  /\ ~undefined
                        /\ Len(wire) <= Len(accepted)
                        /\ wire = SubSeq(accepted, 1, Len(wire))
                        /\ open /\ Idle => wire = accepted
      BY DEF PacedDelivery
    <2>1. wire \in Seq(Message) /\ accepted \in Seq(Message)
      BY DEF IInv, TypeOK
    <2>2. PacedInv
      BY DEF IInv
    <2>3. wire = SubSeq(accepted, 1, Len(wire))
      <3>1. /\ Len(SubSeq(accepted, 1, Len(wire))) = Len(wire)
            /\ \A i \in 1..Len(wire) : SubSeq(accepted, 1, Len(wire))[i] = accepted[i]
            /\ SubSeq(accepted, 1, Len(wire)) \in Seq(Message)
        BY <2>1, <2>2 DEF PacedInv, WirePrefix
      <3> QED
        BY <2>1, <2>2, <3>1 DEF PacedInv, WirePrefix
    <2>4. open /\ Idle => wire = accepted
      BY <2>2 DEF PacedInv, Arrived, Posted, Writing, Idle
    <2> QED
      BY <2>2, <2>3, <2>4 DEF PacedInv, WirePrefix
  <1> QED
    BY <1>1, Inductive, PTL
=============================================================================
