------------------------------- MODULE WsSend -------------------------------
(***************************************************************************)
(* The send queue of ws::WsChannel: sendAsync posts send on the strand of  *)
(* the connection, send puts the message into a circular buffer and        *)
(* writeQueued hands the NEWEST message of the buffer to async_write,      *)
(* whose completion handler onWrite removes it and goes on with the next.  *)
(*                                                                         *)
(* The flag isSendBusy_ is read by send, and asserted by writeQueued and   *)
(* onWrite, but no statement of the class ever sets it.  Nothing therefore *)
(* keeps send from starting a write while another is pending: the model    *)
(* keeps the code as it is and asks when that matters.  Whether it does is *)
(* up to the application: a paced one hands over a message only when       *)
(* nothing is pending, the others do it at any time.                       *)
(*                                                                         *)
(* Messages are numbered in the order of the calls of sendAsync.  Pending  *)
(* writes complete in the order in which they were started, the most       *)
(* benign thing that Beast can do with overlapping writes.  Removing a     *)
(* message from an empty buffer is undefined: the channel stops there.     *)
(***************************************************************************)
EXTENDS Integers, Sequences

CONSTANTS
    Capacity,  \* kMaxSendQueueSize
    MaxSends   \* bound: calls of sendAsync

ASSUME SendAssumption == Capacity \in Nat \ {0} /\ MaxSends \in Nat

\* Messages are numbered in the order of the calls of sendAsync.
Message == 1..MaxSends

VARIABLES
    paced,       \* the application sends only when nothing is pending
    calls,       \* calls of sendAsync so far
    strand,      \* messages of the send tasks posted on perConnectionStrand_
    sendBuffer,  \* sendBuffer_, oldest message first
    isSendBusy,  \* isSendBusy_
    inflight,    \* messages handed to async_write that did not complete
    open,        \* no write has failed: onFail closes the websocket
    undefined,   \* popBack was called on an empty buffer
    accepted,    \* history: messages that sendAsync did not refuse
    wire         \* history: messages whose write succeeded

vars == <<paced, calls, strand, sendBuffer, isSendBusy, inflight, open,
          undefined, accepted, wire>>

Init ==
    /\ paced \in BOOLEAN
    /\ calls = 0
    /\ strand = <<>>
    /\ sendBuffer = <<>>
    /\ isSendBusy = FALSE
    /\ inflight = <<>>
    /\ open = TRUE
    /\ undefined = FALSE
    /\ accepted = <<>>
    /\ wire = <<>>

Idle == strand = <<>> /\ inflight = <<>>

\* What sendAsync tells apart: no byte, up to kMaxMessageSizeByte, or more.
Size == {"empty", "fits", "tooBig"}

\* Mutant of WriteBack: the buffer grows.
WriteBackUnbounded(buf, m) == Append(buf, m)

\* A circular buffer that is full when written loses its oldest message.
WriteBack(buf, m) ==
    IF Len(buf) = Capacity THEN Append(Tail(buf), m) ELSE Append(buf, m)

BackPtr(buf) == buf[Len(buf)]

\* Mutant of PopBack: the written message stays.
PopNothing(buf) == buf

PopBack(buf) == SubSeq(buf, 1, Len(buf) - 1)

\* WsChannel::sendAsync: empty and too big messages are refused.
SendAsync(size) ==
    /\ calls < MaxSends
    /\ paced => Idle
    /\ calls' = calls + 1
    /\ IF size = "fits"
       THEN /\ strand' = Append(strand, calls + 1)
            /\ accepted' = Append(accepted, calls + 1)
       ELSE UNCHANGED <<strand, accepted>>
    /\ UNCHANGED <<paced, sendBuffer, isSendBusy, inflight, open, undefined, wire>>

\* Mutant of WriteQueued: writes the oldest message.
WriteQueuedOldest(buf, pending) == Append(pending, Head(buf))

\* WsChannel::writeQueued: async_write of the newest message.
WriteQueued(buf, pending) == Append(pending, BackPtr(buf))

\* Mutant of Send: the test of isSendBusy_ is inverted.
SendWhenBusy ==
    /\ ~undefined
    /\ strand # <<>>
    /\ strand' = Tail(strand)
    /\ sendBuffer' = WriteBack(sendBuffer, Head(strand))
    /\ inflight' = IF ~isSendBusy THEN inflight ELSE WriteQueued(sendBuffer', inflight)
    /\ UNCHANGED <<paced, calls, isSendBusy, open, undefined, accepted, wire>>

\* WsChannel::send.
Send ==
    /\ ~undefined
    /\ strand # <<>>
    /\ strand' = Tail(strand)
    /\ sendBuffer' = WriteBack(sendBuffer, Head(strand))
    /\ inflight' = IF isSendBusy THEN inflight ELSE WriteQueued(sendBuffer', inflight)
    /\ UNCHANGED <<paced, calls, isSendBusy, open, undefined, accepted, wire>>

\* WsChannel::onWrite without an error: the written message leaves the queue
\* and the next one, if there is one, is written.
OnWriteOk ==
    /\ ~undefined
    /\ inflight # <<>>
    /\ open
    /\ wire' = Append(wire, Head(inflight))
    /\ IF sendBuffer = <<>>
       THEN undefined' = TRUE /\ UNCHANGED <<sendBuffer, isSendBusy, inflight>>
       ELSE /\ sendBuffer' = PopBack(sendBuffer)
            /\ IF sendBuffer' # <<>>
               THEN /\ inflight' = WriteQueued(sendBuffer', Tail(inflight))
                    /\ UNCHANGED isSendBusy
               ELSE inflight' = Tail(inflight) /\ isSendBusy' = FALSE
            /\ UNCHANGED undefined
    /\ UNCHANGED <<paced, calls, strand, open, accepted>>

\* WsChannel::onWrite with an error: onFail ends the channel (doEof), the
\* message stays in the queue.
OnWriteFail ==
    /\ ~undefined
    /\ inflight # <<>>
    /\ open' = FALSE
    /\ inflight' = Tail(inflight)
    /\ UNCHANGED <<paced, calls, strand, sendBuffer, isSendBusy, undefined,
                   accepted, wire>>

Next ==
    \/ \E size \in Size : SendAsync(size)
    \/ Send
    \/ OnWriteOk
    \/ OnWriteFail

Spec == Init /\ [][Next]_vars

\* The strand runs what is posted on it and every write ends, at the latest
\* with the timeout of the websocket stream.
FairSpec == Spec /\ WF_vars(Send) /\ WF_vars(OnWriteOk \/ OnWriteFail)

-----------------------------------------------------------------------------
\* Every variable keeps its type, and the circular buffer never holds more
\* than kMaxSendQueueSize messages.
TypeOK ==
    /\ paced \in BOOLEAN /\ isSendBusy \in BOOLEAN
    /\ open \in BOOLEAN /\ undefined \in BOOLEAN
    /\ calls \in 0..MaxSends
    /\ strand \in Seq(Message)
    /\ sendBuffer \in Seq(Message)
    /\ Len(sendBuffer) <= Capacity
    /\ inflight \in Seq(Message)
    /\ accepted \in Seq(Message)
    /\ wire \in Seq(Message)

\* A message in the queue of a working channel is never left without a write
\* whose completion goes on with the queue: the early return of send and the
\* end of the recursion in onWrite lose no message, however writes overlap.
NoStall == open /\ ~undefined /\ sendBuffer # <<>> => inflight # <<>>

\* For a paced application the queue is transparent: what was written is a
\* prefix of what sendAsync accepted, each message once and in order, and all
\* of it once nothing is pending on a working channel.
PacedDelivery ==
    paced => /\ ~undefined
             /\ Len(wire) <= Len(accepted) /\ wire = SubSeq(accepted, 1, Len(wire))
             /\ open /\ Idle => wire = accepted

\* A paced application never has two writes pending (the rule that the comment
\* on writeQueued states), and the message that is being written is the one at
\* the back of the buffer, which keeps its bytes alive and which popBack drops.
PacedWrites ==
    paced => /\ Len(inflight) <= 1
             /\ inflight # <<>> =>
                  sendBuffer # <<>> /\ Head(inflight) = BackPtr(sendBuffer)

\* The queue of a working channel drains: writeQueued recurses until it is
\* empty.
Drains == sendBuffer # <<>> ~> (sendBuffer = <<>> \/ ~open \/ undefined)

\* What the comment on writeQueued says of every application: async_write is
\* only called again after the last one has finished.
OneWriteAtATime == Len(inflight) <= 1
=============================================================================
