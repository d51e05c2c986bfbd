---------------------------- MODULE HttpSession ----------------------------
(***************************************************************************)
(* The conversation of one HttpChannel with its client: requests that may  *)
(* be pipelined, answers written part by part, the timeout of the stream,  *)
(* and how it ends.  Module Connection has the life of the channel among   *)
(* the other sequences; here its strand runs alone, one handler at a time. *)
(*                                                                         *)
(* A client may send requests at any time, close its side, reset the       *)
(* connection or stop reading.  It decodes what it receives as HTTP does:  *)
(* an answer to HEAD has no body, any other one has as much body as its    *)
(* content length says.                                                    *)
(***************************************************************************)
EXTENDS HttpMessages

CONSTANTS
    Requests,      \* requests a client may send
    MaxRequests,   \* bound: requests sent on the connection
    Expire         \* kExpireTimeoutSec, in ticks of the model's clock

ASSUME HttpSessionAssumption ==
    /\ \A r \in Requests : /\ r.method \in Method
                           /\ r.target \in Seq(STRING)
                           /\ r.keep_alive \in BOOLEAN
                           /\ r.upgrade \in BOOLEAN
                           /\ r.readable \in BOOLEAN
                           /\ r.upgrade => r.method = "get"
    /\ MaxRequests \in Nat
    /\ Expire \in Nat \ {0}

VARIABLES
    op,        \* what the strand waits for
    sock,      \* the socket of stream_
    expires,   \* ticks until the timers of stream_ expire
    read,      \* requests read so far
    resp,      \* the response that async_write owns
    out,       \* parts of it that are not written yet
    sent,      \* requests the client has sent
    peer,      \* the client's side of the connection
    client,    \* how far the client has decoded what it received
    wire,      \* parts of answers received by the client
    done       \* responses whose write completed without an error

serverVars == <<op, sock, expires, read, resp, out>>
clientVars == <<sent, peer, client, wire>>
vars == <<op, sock, expires, read, resp, out, sent, peer, client, wire, done>>

NoResponse == [status |-> "none", type |-> "none", length |-> 0, body |-> FALSE,
               keep_alive |-> FALSE]

Init ==
    /\ op = "posted"
    /\ sock = "open"
    /\ expires = Expire
    /\ read = 0
    /\ resp = NoResponse
    /\ out = << >>
    /\ sent = << >>
    /\ peer = "open"
    /\ client = [next |-> 1, expect |-> "header"]
    /\ wire = << >>
    /\ done = << >>

-----------------------------------------------------------------------------
(* The client *)

Send ==
    /\ peer = "open"
    /\ sock = "open"
    /\ op # "none"
    /\ Len(sent) < MaxRequests
    /\ \E r \in Requests : sent' = Append(sent, r)
    /\ UNCHANGED <<serverVars, peer, client, wire, done>>

\* The client shuts its side down, or the connection breaks.
Leave ==
    /\ \/ peer = "open" /\ peer' = "closed"
       \/ peer # "reset" /\ peer' = "reset"
    /\ op # "none"
    /\ UNCHANGED <<serverVars, sent, client, wire, done>>

\* What the client makes of a part: "lost" when it takes the bytes of a body
\* for a status line, misses a body, or takes an answer for another's.
Decode(part) ==
    LET r == sent[client.next]
    IN  IF client.expect # part.is \/ client.next # part.to
        THEN [client EXCEPT !.expect = "lost"]
        ELSE IF part.is = "header" /\ part.length > 0 /\ r.method # "head"
        THEN [client EXCEPT !.expect = "body"]
        ELSE [next |-> client.next + 1, expect |-> "header"]

-----------------------------------------------------------------------------
(* The strand of the connection *)

\* Mutant of DoRead: the time that is left is added to the timeout.
DoReadExtends ==
    /\ op' = "read"
    /\ expires' = expires + Expire
    /\ UNCHANGED sock

\* doRead sets the timers of the stream, for the read and for the write of
\* the answer.
DoRead ==
    /\ op' = "read"
    /\ expires' = Expire
    /\ UNCHANGED sock

\* doEof closes the socket and posts markUnused.
DoEof ==
    /\ op' = "none"
    /\ sock' = "closed"
    /\ UNCHANGED expires

\* onFail logs the error.
OnFail == DoEof

\* startReadAsync posted doRead.
StartRead ==
    /\ op = "posted"
    /\ DoRead
    /\ UNCHANGED <<read, resp, out, clientVars, done>>

\* The parts of a response, as async_write sends them.
Parts(k, res) ==
    LET header == [to |-> k, is |-> "header", length |-> res.length]
        body == [to |-> k, is |-> "body", length |-> res.length]
    IN  IF res.body /\ res.length > 0 THEN << header, body >> ELSE << header >>

\* onRead with a request: one that the parser refuses ends the connection, an
\* upgrade moves the stream to a WsChannel, any other one is answered.
OnRead ==
    /\ op = "read"
    /\ read < Len(sent)
    /\ peer # "reset"
    /\ LET r == sent[read + 1]
       IN  \/ /\ ~r.readable
              /\ OnFail
              /\ UNCHANGED <<read, resp, out>>
           \/ /\ r.readable /\ r.upgrade
              /\ op' = "none"
              /\ read' = read + 1
              /\ UNCHANGED <<sock, expires, resp, out>>
           \/ /\ r.readable /\ ~r.upgrade
              /\ \E file \in Opened : resp' = HandleRequest(r, file)
              /\ out' = Parts(read + 1, resp')
              /\ read' = read + 1
              /\ op' = "write"
              /\ UNCHANGED <<sock, expires>>
    /\ UNCHANGED <<clientVars, done>>

\* Mutant of OnReadFails: the timeout is not handled.
OnReadFailsNoTimeout ==
    /\ op = "read"
    /\ \/ read = Len(sent) /\ peer = "closed" /\ DoEof
       \/ peer = "reset" /\ OnFail
    /\ UNCHANGED <<read, resp, out, clientVars, done>>

\* onRead with an error: the client has closed its side, the connection is
\* broken, or the timer has expired.
OnReadFails ==
    /\ op = "read"
    /\ \/ read = Len(sent) /\ peer = "closed" /\ DoEof
       \/ peer = "reset" /\ OnFail
       \/ expires = 0 /\ OnFail
    /\ UNCHANGED <<read, resp, out, clientVars, done>>

\* async_write sends a part.
WritePart ==
    /\ op = "write"
    /\ out # << >>
    /\ peer # "reset"
    /\ wire' = Append(wire, Head(out))
    /\ client' = Decode(Head(out))
    /\ out' = Tail(out)
    /\ UNCHANGED <<op, sock, expires, read, resp, sent, peer, done>>

\* Mutant of OnWrite: another request is read without looking at need_eof().
OnWriteReads ==
    /\ op = "write"
    /\ out = << >>
    /\ done' = Append(done, resp)
    /\ DoRead
    /\ UNCHANGED <<read, resp, out, clientVars>>

\* processWrittenResponse and onWrite without an error.
OnWrite ==
    /\ op = "write"
    /\ out = << >>
    /\ done' = Append(done, resp)
    /\ IF NeedEof(resp) THEN DoEof ELSE DoRead
    /\ UNCHANGED <<read, resp, out, clientVars>>

\* Mutant of OnWriteFails: no return after the error.
OnWriteFailsReads ==
    /\ op = "write"
    /\ out # << >>
    /\ peer = "reset" \/ expires = 0 \/ Head(out).is = "body"
    /\ DoRead
    /\ UNCHANGED <<read, resp, out, clientVars, done>>

\* onWrite with an error: the connection is broken, the timer has expired, or
\* the file has become shorter than its size when it was opened.
OnWriteFails ==
    /\ op = "write"
    /\ out # << >>
    /\ peer = "reset" \/ expires = 0 \/ Head(out).is = "body"
    /\ OnFail
    /\ UNCHANGED <<read, resp, out, clientVars, done>>

\* Time passes while an operation is pending.
Tick ==
    /\ op \in {"read", "write"}
    /\ expires > 0
    /\ expires' = expires - 1
    /\ UNCHANGED <<op, sock, read, resp, out, clientVars, done>>

-----------------------------------------------------------------------------
Completion == StartRead \/ OnRead \/ OnReadFails \/ OnWrite \/ OnWriteFails

Next == Send \/ Leave \/ Completion \/ WritePart \/ Tick

Spec == Init /\ [][Next]_vars

\* The strand runs its handlers and the timer expires.  A client need not do
\* anything, not even read what is written.
FairSpec == Spec /\ WF_vars(Completion) /\ WF_vars(Tick)

-----------------------------------------------------------------------------
Response ==
    [status : {"none", "ok", "bad_request", "not_found", "internal_server_error"},
     type : {"none", "application/octet-stream"} \cup {m[2] : m \in MimeTypes},
     length : 0..1, body : BOOLEAN, keep_alive : BOOLEAN]

Part == [to : 1..MaxRequests, is : {"header", "body"}, length : 0..1]

\* Every variable keeps its type.
TypeOK ==
    /\ op \in {"posted", "read", "write", "none"}
    /\ sock \in {"open", "closed"}
    /\ expires \in 0..Expire
    /\ read \in 0..Len(sent)
    /\ resp \in Response
    /\ out \in Seq(Part)
    /\ sent \in Seq(Requests) /\ Len(sent) <= MaxRequests
    /\ peer \in {"open", "closed", "reset"}
    /\ client \in [next : 1..(MaxRequests + 1), expect : {"header", "body", "lost"}]
    /\ wire \in Seq(Part)
    /\ done \in Seq(Response)

\* The conversation implements the exchange that a client may rely on, however
\* it pipelines, whenever it leaves and whichever write fails.
Exchange == INSTANCE HttpExchange WITH
    Responses <- Response, asked <- sent, answered <- done, over <- (op = "none")

ImplementsExchange == Exchange!Spec

\* The answer to the k-th request, written or being written.
AnswerTo(k) == IF k \in DOMAIN done THEN done[k] ELSE resp

\* handleRequest answers a HEAD that it refuses with a text, which the client
\* does not expect and takes for the next answer.  Nothing else makes a client
\* lose track of the answers, however it pipelines its requests.
OnlyRefusedHeadConfuses ==
    client.expect = "lost" =>
      \E k \in 1..read : sent[k].method = "head" /\ AnswerTo(k).status # "ok"

\* An answer that was cut (by a timeout, a broken connection or a file that
\* has become shorter) is the last thing the client receives: it is never
\* followed by bytes of another answer.
CutAnswerIsLast ==
    \A i \in 1..(Len(wire) - 1) :
      wire[i + 1].is = "header" =>
        /\ wire[i + 1].to = wire[i].to + 1
        /\ wire[i].to <= Len(done)

\* The timeout of 20 seconds ends every conversation: a client that is silent,
\* or that does not read its answer, does not hold the channel for ever.
SessionEnds == <>(op = "none")
=============================================================================
