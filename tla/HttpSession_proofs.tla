------------------------- MODULE HttpSession_proofs -------------------------
(***************************************************************************)
(* Proofs about the conversation of an HttpChannel with its client, for    *)
(* every set of requests, every number of them and every timeout: the      *)
(* variables keep their types, and the conversation implements the         *)
(* exchange that a client may rely on.                                     *)
(***************************************************************************)
EXTENDS HttpSession, TLAPS

\* The strand handles one request at a time: while it waits for one, all that
\* were read are answered; while it writes, all but the last are, and what it
\* writes is an answer of handleRequest to that one.
OneAtATime ==
    /\ op \in {"posted", "read"} => read = Len(done)
    /\ op = "write" =>
         /\ read = Len(done) + 1
         /\ sent[read].readable /\ ~sent[read].upgrade
         /\ \E file \in Opened : resp = HandleRequest(sent[read], file)

IInv == TypeOK /\ OneAtATime

-----------------------------------------------------------------------------
\* Whatever path is looked up, the type is one of the table's or the default.
LEMMA MimeTypeType ==
  ASSUME NEW s
  PROVE  MimeType(s) \in {"none", "application/octet-stream"} \cup {m[2] : m \in MimeTypes}
<1>1. CASE \E m \in MimeTypes : m[1] = s
  <2> DEFINE t == CHOOSE m \in MimeTypes : m[1] = s
  <2>1. t \in MimeTypes
    BY <1>1
  <2>2. MimeType(s) = t[2]
    BY <1>1 DEF MimeType
  <2> HIDE DEF t
  <2>. QED
    BY <2>1, <2>2
<1>2. CASE ~ \E m \in MimeTypes : m[1] = s
  BY <1>2 DEF MimeType
<1>. QED
  BY <1>1, <1>2

\* handleRequest answers every request with a response of the protocol.
LEMMA HandleRequestType ==
  ASSUME NEW r \in Requests, NEW file \in Opened
  PROVE  HandleRequest(r, file) \in Response
<1>1. r.keep_alive \in BOOLEAN
  BY HttpSessionAssumption
<1>2. file.size \in 0..1
  BY DEF Opened
<1> DEFINE type == MimeType(FilePath(r.target))
<1>3. type \in {"none", "application/octet-stream"} \cup {m[2] : m \in MimeTypes}
  BY MimeTypeType
<1> HIDE DEF type
<1>4. \A s \in {"bad_request", "not_found", "internal_server_error"} : Refusal(r, s) \in Response
  <2>1. "text/html" \in {m[2] : m \in MimeTypes}
    BY DEF MimeTypes
  <2>. QED
    BY <1>1, <2>1 DEF Refusal, Response
<1>5. EmptyResponse(r, file.size) \in Response /\ FileResponse(r, file.size) \in Response
  BY <1>1, <1>2, <1>3 DEF EmptyResponse, FileResponse, Response, type
<1>. QED
  BY <1>4, <1>5 DEF HandleRequest

\* ... and with one that the request admits.
LEMMA HandleRequestAdmitted ==
  ASSUME NEW r \in Requests, NEW file \in Opened
  PROVE  Exchange!Admits(r, HandleRequest(r, file))
<1> DEFINE a == HandleRequest(r, file)
<1>0. r.method \in Method
  BY HttpSessionAssumption
<1>1. Exchange!Served(r) <=> ~(r.method = "other" \/ IllegalTarget(r.target))
  BY <1>0 DEF Exchange!Served, IllegalTarget, Method
<1>2. a.keep_alive = r.keep_alive
  BY DEF HandleRequest, Refusal, EmptyResponse, FileResponse
<1>3. ~Exchange!Served(r) => a.status = "bad_request"
  BY <1>1 DEF HandleRequest, Refusal
<1>4. Exchange!Served(r) => a.status \in {"ok", "not_found", "internal_server_error"}
  BY <1>1 DEF HandleRequest, Refusal, EmptyResponse, FileResponse
<1>5. a.status = "ok" => a.body = (r.method = "get")
  <2>1. CASE r.method = "head"
    BY <2>1 DEF HandleRequest, Refusal, EmptyResponse, FileResponse
  <2>2. CASE r.method = "get"
    BY <2>2 DEF HandleRequest, Refusal, EmptyResponse, FileResponse
  <2>3. CASE r.method = "other"
    BY <2>3 DEF HandleRequest, Refusal
  <2>. QED
    BY <1>0, <2>1, <2>2, <2>3 DEF Method
<1> HIDE DEF a
<1>. QED
  BY <1>2, <1>3, <1>4, <1>5 DEF Exchange!Admits, a

\* async_write sends parts that belong to the request it answers.
LEMMA PartsType ==
  ASSUME NEW k \in 1..MaxRequests, NEW res \in Response
  PROVE  Parts(k, res) \in Seq(Part)
<1> DEFINE header == [to |-> k, is |-> "header", length |-> res.length]
           body == [to |-> k, is |-> "body", length |-> res.length]
<1>1. header \in Part /\ body \in Part
  BY DEF Part, Response
<1> HIDE DEF header, body
<1>2. << header >> \in Seq(Part) /\ << header, body >> \in Seq(Part)
  BY <1>1
<1>3. Parts(k, res) = << header >> \/ Parts(k, res) = << header, body >>
  BY DEF Parts, header, body
<1>. QED
  BY <1>2, <1>3

\* A client that decodes a part stays within the requests it has sent.
LEMMA DecodeType ==
  ASSUME NEW part \in Part,
         client \in [next : 1..(MaxRequests + 1), expect : {"header", "body", "lost"}]
  PROVE  Decode(part) \in [next : 1..(MaxRequests + 1), expect : {"header", "body", "lost"}]
BY HttpSessionAssumption DEF Decode, Part

-----------------------------------------------------------------------------
\* Initially nothing is sent, read or answered.
LEMMA InitIInv == Init => IInv
<1> SUFFICES ASSUME Init PROVE IInv
  OBVIOUS
<1> USE HttpSessionAssumption
<1>1. NoResponse \in Response
  BY DEF NoResponse, Response
<1>. QED
  BY <1>1 DEF Init, IInv, TypeOK, OneAtATime

\* Steps of the client and of time leave the strand's bookkeeping alone.
LEMMA ClientIInv ==
  ASSUME IInv, Send \/ Leave \/ WritePart \/ Tick
  PROVE  IInv'
<1> USE HttpSessionAssumption
<1>1. CASE Send
  <2> PICK r \in Requests : sent' = Append(sent, r)
    BY <1>1 DEF Send
  <2>1. /\ sent' \in Seq(Requests) /\ Len(sent') = Len(sent) + 1 /\ Len(sent') <= MaxRequests
        /\ \A i \in 1..Len(sent) : sent'[i] = sent[i]
    BY <1>1 DEF Send, IInv, TypeOK
  <2>2. TypeOK'
    BY <1>1, <2>1 DEF Send, IInv, TypeOK, serverVars
  <2>3. OneAtATime'
    <3>1. op = "write" => read \in 1..Len(sent)
      BY DEF IInv, TypeOK, OneAtATime
    <3>. QED
      BY <1>1, <2>1, <3>1 DEF Send, IInv, OneAtATime, serverVars
  <2>. QED
    BY <2>2, <2>3 DEF IInv
<1>2. CASE Leave
  BY <1>2 DEF Leave, IInv, TypeOK, OneAtATime, serverVars
<1>3. CASE WritePart
  <2>1. Head(out) \in Part /\ Tail(out) \in Seq(Part)
    BY <1>3 DEF WritePart, IInv, TypeOK
  <2>2. client' \in [next : 1..(MaxRequests + 1), expect : {"header", "body", "lost"}]
    BY <1>3, <2>1, DecodeType DEF WritePart, IInv, TypeOK
  <2>3. wire' \in Seq(Part) /\ out' \in Seq(Part)
    BY <1>3, <2>1 DEF WritePart, IInv, TypeOK
  <2>. QED
    BY <1>3, <2>2, <2>3 DEF WritePart, IInv, TypeOK, OneAtATime
<1>4. CASE Tick
  BY <1>4 DEF Tick, IInv, TypeOK, OneAtATime, clientVars
<1>. QED
  BY <1>1, <1>2, <1>3, <1>4

\* doRead and doEof, whoever calls them.
LEMMA NextOp ==
  ASSUME IInv, DoRead \/ DoEof
  PROVE  /\ op' \in {"read", "none"} /\ sock' \in {"open", "closed"} /\ expires' \in 0..Expire
         /\ DoRead => op' = "read"
         /\ DoEof => op' = "none"
BY HttpSessionAssumption DEF IInv, TypeOK, DoRead, DoEof

\* A request that was read is answered with an answer to it.
LEMMA OnReadIInv ==
  ASSUME IInv, OnRead
  PROVE  IInv'
<1> USE HttpSessionAssumption
<1> DEFINE r == sent[read + 1]
<1>0. /\ r \in Requests /\ read + 1 \in 1..Len(sent) /\ read + 1 \in 1..MaxRequests
      /\ read = Len(done) /\ UNCHANGED <<clientVars, done>>
  BY DEF OnRead, IInv, TypeOK, OneAtATime
<1>1. CASE OnFail /\ UNCHANGED <<read, resp, out>>
  BY <1>0, <1>1, NextOp DEF OnFail, IInv, TypeOK, OneAtATime, clientVars
<1>2. CASE op' = "none" /\ read' = read + 1 /\ UNCHANGED <<sock, expires, resp, out>>
  BY <1>0, <1>2 DEF IInv, TypeOK, OneAtATime, clientVars
<1>3. CASE /\ r.readable /\ ~r.upgrade
           /\ \E file \in Opened : resp' = HandleRequest(r, file)
           /\ out' = Parts(read + 1, resp')
           /\ read' = read + 1
           /\ op' = "write"
           /\ UNCHANGED <<sock, expires>>
  <2>1. resp' \in Response
    BY <1>0, <1>3, HandleRequestType
  <2>2. out' \in Seq(Part)
    BY <1>0, <1>3, <2>1, PartsType
  <2>3. TypeOK'
    BY <1>0, <1>3, <2>1, <2>2 DEF IInv, TypeOK, clientVars
  <2>4. OneAtATime'
    BY <1>0, <1>3 DEF OneAtATime, clientVars
  <2>. QED
    BY <2>3, <2>4 DEF IInv
<1>. QED
  BY <1>1, <1>2, <1>3 DEF OnRead

\* The other completions.
LEMMA CompletionIInv ==
  ASSUME IInv, StartRead \/ OnReadFails \/ OnWrite \/ OnWriteFails
  PROVE  IInv'
<1> USE HttpSessionAssumption
<1>1. CASE StartRead
  BY <1>1, NextOp DEF StartRead, IInv, TypeOK, OneAtATime, clientVars
<1>2. CASE OnReadFails \/ OnWriteFails
  <2>1. DoEof /\ UNCHANGED <<read, resp, out, clientVars, done>>
    BY <1>2 DEF OnReadFails, OnWriteFails, OnFail
  <2>. QED
    BY <2>1, NextOp DEF IInv, TypeOK, OneAtATime, clientVars
<1>3. CASE OnWrite
  <2>1. /\ op = "write" /\ done' = Append(done, resp) /\ (DoRead \/ DoEof)
        /\ UNCHANGED <<read, resp, out, clientVars>>
    BY <1>3 DEF OnWrite
  <2>2. done' \in Seq(Response) /\ Len(done') = Len(done) + 1
    BY <2>1 DEF IInv, TypeOK
  <2>3. read' = Len(done')
    BY <2>1, <2>2 DEF IInv, OneAtATime
  <2>. QED
    BY <2>1, <2>2, <2>3, NextOp DEF IInv, TypeOK, OneAtATime, clientVars
<1>. QED
  BY <1>1, <1>2, <1>3

\* Every step preserves the invariant.
LEMMA NextIInv == IInv /\ [Next]_vars => IInv'
<1>1. IInv /\ UNCHANGED vars => IInv'
  BY DEF IInv, TypeOK, OneAtATime, vars
<1>. QED
  BY <1>1, ClientIInv, OnReadIInv, CompletionIInv DEF Next, Completion

\* The invariant is inductive.
THEOREM Inductive == Spec => []IInv
BY InitIInv, NextIInv, PTL DEF Spec

\* The variables keep their types: the deadline never grows past the timeout,
\* and the client never counts more answers than it may have asked for.
THEOREM TypeCorrect == Spec => []TypeOK
BY Inductive, PTL DEF IInv

-----------------------------------------------------------------------------
\* A step that leaves requests and answers alone ends the exchange or is
\* invisible in it.
LEMMA QuietStep ==
  ASSUME op # "none", UNCHANGED <<sent, done>>
  PROVE  [Exchange!Next]_(Exchange!exchange)
<1>1. CASE op' = "none"
  BY <1>1 DEF Exchange!Next, Exchange!End
<1>2. CASE op' # "none"
  BY <1>2 DEF Exchange!exchange
<1>. QED
  BY <1>1, <1>2

\* A completed write answers the oldest request that has no answer.
LEMMA OnWriteAnswers ==
  ASSUME IInv, OnWrite
  PROVE  Exchange!Answer
<1>1. /\ op = "write" /\ read = Len(done) + 1 /\ Len(done) < Len(sent)
      /\ sent[Len(done) + 1] \in Requests
  BY DEF OnWrite, IInv, TypeOK, OneAtATime
<1> DEFINE r == sent[Len(done) + 1]
<1>2. r.readable /\ ~r.upgrade
  BY <1>1 DEF IInv, OneAtATime
<1>3. resp \in Response /\ Exchange!Admits(r, resp)
  BY <1>1, HandleRequestAdmitted DEF IInv, TypeOK, OneAtATime
<1>4. (op' = "none") = ~resp.keep_alive
  <2>1. resp.keep_alive \in BOOLEAN
    BY <1>3 DEF Response
  <2>2. CASE resp.keep_alive
    BY <2>2 DEF OnWrite, NeedEof, DoRead
  <2>3. CASE ~resp.keep_alive
    BY <2>3 DEF OnWrite, NeedEof, DoEof
  <2>. QED
    BY <2>1, <2>2, <2>3
<1>5. done' = Append(done, resp) /\ sent' = sent
  BY DEF OnWrite, clientVars
<1> HIDE DEF r
<1>6. \E a \in Response : /\ Exchange!Admits(r, a)
                          /\ done' = Append(done, a)
                          /\ (op' = "none") = ~a.keep_alive
  BY <1>3, <1>4, <1>5
<1>. QED
  BY <1>1, <1>2, <1>5, <1>6 DEF Exchange!Answer, r

\* Every step of the conversation is a step of the exchange or none.
LEMMA StepExchange ==
  ASSUME IInv, [Next]_vars
  PROVE  [Exchange!Next]_(Exchange!exchange)
<1>1. CASE UNCHANGED vars
  BY <1>1 DEF vars, Exchange!exchange
<1>2. CASE Send
  <2>1. Exchange!Ask
    BY <1>2 DEF Send, Exchange!Ask, serverVars
  <2>. QED
    BY <2>1 DEF Exchange!Next
<1>3. CASE OnWrite
  BY <1>3, OnWriteAnswers DEF Exchange!Next
<1>4. CASE Leave \/ WritePart \/ Tick
  BY <1>4, QuietStep DEF Leave, WritePart, Tick, clientVars
<1>5. CASE StartRead \/ OnRead \/ OnReadFails \/ OnWriteFails
  BY <1>5, QuietStep DEF StartRead, OnRead, OnReadFails, OnWriteFails, clientVars
<1>. QED
  BY <1>1, <1>2, <1>3, <1>4, <1>5 DEF Next, Completion

\* HttpChannel implements the exchange that a client may rely on, whatever the
\* client sends, however far ahead it pipelines, and whenever a read, a write
\* or the timer ends the connection: answers come in order, one for each
\* request, never for an upgrade or an unreadable one, and none after the
\* answer that does not keep the connection.
THEOREM ExchangeCorrect == Spec => ImplementsExchange
<1>1. Init => Exchange!Init
  BY DEF Init, Exchange!Init
<1>2. IInv /\ [Next]_vars => [Exchange!Next]_(Exchange!exchange)
  BY StepExchange
<1>. QED
  BY <1>1, <1>2, Inductive, PTL DEF Spec, ImplementsExchange, Exchange!Spec
-----------------------------------------------------------------------------
(***************************************************************************)
(* What the client has received, and what it makes of it.                  *)
(***************************************************************************)
\* Some HEAD was refused: its answer has a text that the client does not
\* expect.
Confusing == \E k \in 1..read : sent[k].method = "head" /\ AnswerTo(k).status # "ok"

\* The request that the last part on the wire answers.
LastTo == IF wire = << >> THEN 0 ELSE wire[Len(wire)].to

Waiting(k, is) == [next |-> k, expect |-> is]

\* The client waits for what comes next on the wire.
InStep(k, is) == Confusing \/ client = Waiting(k, is)

BodyPart == [to |-> read, is |-> "body", length |-> resp.length]

\* Nothing, all but the body, or all of the answer is written.
AtHeader == out = Parts(read, resp) /\ LastTo = Len(done) /\ InStep(read, "header")
AtBody == out = << BodyPart >> /\ LastTo = read /\ InStep(read, "body")
AtEnd == out = << >> /\ LastTo = read /\ InStep(read + 1, "header")

Framing ==
    /\ op \in {"posted", "read"} => LastTo = Len(done) /\ InStep(Len(done) + 1, "header")
    /\ op = "write" => AtHeader \/ AtBody \/ AtEnd

FInv == Framing /\ CutAnswerIsLast /\ OnlyRefusedHeadConfuses

\* Initially the wire is empty and the client waits for a first answer.
LEMMA InitFInv == Init => FInv
<1> SUFFICES ASSUME Init PROVE FInv
  OBVIOUS
<1>1. LastTo = 0 /\ Len(done) = 0 /\ client = Waiting(1, "header") /\ Len(wire) = 0
  BY DEF Init, LastTo, Waiting
<1>2. Framing
  BY <1>1 DEF Init, Framing, InStep
<1>3. CutAnswerIsLast
  BY <1>1 DEF CutAnswerIsLast
<1>4. OnlyRefusedHeadConfuses
  BY DEF Init, OnlyRefusedHeadConfuses
<1>. QED
  BY <1>2, <1>3, <1>4 DEF FInv

\* A refused HEAD stays one: the answer to a request never changes.
LEMMA ConfusingStays ==
  ASSUME IInv, IInv', [Next]_vars, Confusing
  PROVE  Confusing'
<1>1. PICK k \in 1..read : sent[k].method = "head" /\ AnswerTo(k).status # "ok"
  BY DEF Confusing
<1>2. /\ read \in Nat /\ read' \in Nat /\ read <= Len(sent)
      /\ sent \in Seq(Requests) /\ done \in Seq(Response) /\ done' \in Seq(Response)
  BY DEF IInv, TypeOK
<1>3. sent'[k] = sent[k]
  <2>1. CASE Send
    BY <1>2, <2>1 DEF Send
  <2>2. CASE ~Send
    BY <2>2 DEF Next, Completion, Leave, StartRead, OnRead, OnReadFails, OnWrite,
       OnWriteFails, WritePart, Tick, clientVars, vars
  <2>. QED
    BY <2>1, <2>2
<1>4. k \in 1..read' /\ AnswerTo(k)' = AnswerTo(k)
  <2>1. CASE OnRead
    <3>1. read = Len(done) /\ done' = done
      BY <2>1 DEF OnRead, IInv, OneAtATime
    <3>2. read' = read \/ read' = read + 1
      BY <2>1 DEF OnRead
    <3>3. k \in DOMAIN done /\ k \in 1..read'
      BY <1>2, <3>1, <3>2
    <3>. QED
      BY <3>1, <3>3 DEF AnswerTo
  <2>2. CASE OnWrite
    <3>1. done' = Append(done, resp) /\ read' = read /\ resp' = resp /\ read = Len(done) + 1
      BY <2>2 DEF OnWrite, IInv, OneAtATime
    <3>2. k \in 1..Len(done) => k \in DOMAIN done /\ k \in DOMAIN done' /\ done'[k] = done[k]
      BY <1>2, <3>1
    <3>3. k = Len(done) + 1 => k \notin DOMAIN done /\ k \in DOMAIN done' /\ done'[k] = resp
      BY <1>2, <3>1
    <3>4. k \in 1..Len(done) \/ k = Len(done) + 1
      BY <1>2, <3>1
    <3>. QED
      BY <3>1, <3>2, <3>3, <3>4 DEF AnswerTo
  <2>3. CASE ~OnRead /\ ~OnWrite
    <3>1. UNCHANGED <<read, resp, done>>
      BY <2>3 DEF Next, Completion, Leave, StartRead, OnReadFails, Send,
         OnWriteFails, WritePart, Tick, serverVars, vars
    <3>. QED
      BY <3>1 DEF AnswerTo
  <2>. QED
    BY <2>1, <2>2, <2>3
<1>. QED
  BY <1>1, <1>3, <1>4 DEF Confusing

\* A step that does not touch the wire, nor what the client makes of it.
LEMMA WireKept ==
  ASSUME IInv, IInv', FInv, [Next]_vars, UNCHANGED <<wire, client>>
  PROVE  /\ CutAnswerIsLast' /\ OnlyRefusedHeadConfuses' /\ LastTo' = LastTo
         /\ \A k, is : InStep(k, is) => InStep(k, is)'
<1>1. Len(done) <= Len(done') /\ Len(done) \in Nat /\ Len(done') \in Nat
  <2>1. done' = done \/ done' = Append(done, resp)
    BY DEF Next, Completion, Leave, StartRead, OnReadFails, OnRead, OnWrite, Send,
       OnWriteFails, WritePart, Tick, vars
  <2>. QED
    BY <2>1 DEF IInv, TypeOK
<1>2. wire \in Seq(Part) /\ \A i \in 1..Len(wire) : wire[i].to \in Nat
  <2>1. wire \in Seq(Part) /\ \A p \in Part : p.to \in Nat
    BY HttpSessionAssumption DEF IInv, TypeOK, Part
  <2>. QED
    BY <2>1
<1>3. CutAnswerIsLast'
  BY <1>1, <1>2 DEF FInv, CutAnswerIsLast
<1>4. OnlyRefusedHeadConfuses'
  BY ConfusingStays DEF FInv, OnlyRefusedHeadConfuses, Confusing
<1>5. LastTo' = LastTo
  BY DEF LastTo
<1>6. ASSUME NEW k, NEW is, InStep(k, is) PROVE InStep(k, is)'
  BY <1>6, ConfusingStays DEF InStep, Waiting
<1>. QED
  BY <1>3, <1>4, <1>5, <1>6

\* What follows the header of an answer of handleRequest: its body, unless it
\* answers HEAD or has none.  That is what the client expects, but of a HEAD
\* that was refused.
LEMMA PartsOfAnswer ==
  ASSUME IInv, op = "write"
  PROVE  \E header \in Part :
           /\ header.to = read /\ header.is = "header" /\ header.length = resp.length
           /\ Parts(read, resp) = IF resp.body /\ resp.length > 0
                                  THEN << header, BodyPart >> ELSE << header >>
           /\ \/ (resp.body /\ resp.length > 0)
                   <=> (header.length > 0 /\ sent[read].method # "head")
              \/ Confusing
<1> DEFINE header == [to |-> read, is |-> "header", length |-> resp.length]
<1>0. read \in 1..MaxRequests /\ read \in 1..Len(sent) /\ read = Len(done) + 1 /\ Len(done) \in Nat
  BY HttpSessionAssumption DEF IInv, TypeOK, OneAtATime
<1>1. header \in Part
  BY <1>0 DEF Part, IInv, TypeOK, Response
<1>2. Parts(read, resp) = IF resp.body /\ resp.length > 0
                          THEN << header, BodyPart >> ELSE << header >>
  BY DEF Parts, BodyPart
<1>3. PICK file \in Opened : resp = HandleRequest(sent[read], file)
  BY DEF IInv, OneAtATime
<1> DEFINE r == sent[read]
<1>4. r.method \in Method
  BY <1>0, HttpSessionAssumption DEF IInv, TypeOK
<1>5. resp.status # "ok" => resp.length = 1 /\ resp.body
  BY <1>3 DEF HandleRequest, Refusal, EmptyResponse, FileResponse
<1>6. resp.status = "ok" => (resp.body <=> r.method # "head")
  BY <1>3 DEF HandleRequest, Refusal, EmptyResponse, FileResponse
<1>7. resp.status # "ok" /\ r.method = "head" => Confusing
  <2>1. read \notin DOMAIN done
    BY <1>0 DEF IInv, TypeOK
  <2>. QED
    BY <1>0, <2>1 DEF Confusing, AnswerTo
<1>8. \/ (resp.body /\ resp.length > 0) <=> (resp.length > 0 /\ r.method # "head")
      \/ Confusing
  <2>1. CASE resp.status = "ok"
    BY <1>6, <2>1
  <2>2. CASE resp.status # "ok" /\ r.method = "head"
    BY <1>7, <2>2
  <2>3. CASE resp.status # "ok" /\ r.method # "head"
    BY <1>5, <2>3
  <2>. QED
    BY <2>1, <2>2, <2>3
<1>. QED
  BY <1>1, <1>2, <1>8
\* A part of an answer reaches the client.
LEMMA WritePartFInv ==
  ASSUME IInv, IInv', FInv, WritePart
  PROVE  FInv'
<1>0. /\ op = "write" /\ out # << >> /\ wire' = Append(wire, Head(out)) /\ out' = Tail(out)
      /\ client' = Decode(Head(out)) /\ UNCHANGED <<op, read, resp, sent, done>>
      /\ [Next]_vars
  BY DEF WritePart, Next
<1>1. /\ read = Len(done) + 1 /\ Len(done) \in Nat /\ wire \in Seq(Part) /\ out \in Seq(Part)
      /\ Head(out) \in Part /\ read \in 1..Len(sent)
  BY <1>0 DEF IInv, TypeOK, OneAtATime
<1>2. /\ Len(wire') = Len(wire) + 1 /\ Len(wire) \in Nat /\ wire'[Len(wire')] = Head(out)
      /\ wire' # << >> /\ LastTo' = Head(out).to
      /\ \A i \in 1..Len(wire) : wire'[i] = wire[i]
  BY <1>0, <1>1 DEF LastTo
<1>3. Confusing => Confusing'
  BY <1>0, ConfusingStays
<1>4. CASE AtHeader
  <2>1. PICK header \in Part :
           /\ header.to = read /\ header.is = "header" /\ header.length = resp.length
           /\ Parts(read, resp) = IF resp.body /\ resp.length > 0
                                  THEN << header, BodyPart >> ELSE << header >>
           /\ \/ (resp.body /\ resp.length > 0)
                   <=> (header.length > 0 /\ sent[read].method # "head")
              \/ Confusing
    BY <1>0, PartsOfAnswer
  <2>2. Head(out) = header /\ LastTo' = read
    BY <1>2, <1>4, <2>1 DEF AtHeader
  <2>3. IF resp.body /\ resp.length > 0 THEN out' = << BodyPart >> ELSE out' = << >>
    BY <1>0, <1>4, <2>1 DEF AtHeader
  <2>4. \/ Confusing
        \/ client' = IF resp.body /\ resp.length > 0 THEN Waiting(read, "body")
                     ELSE Waiting(read + 1, "header")
    <3>1. CASE Confusing
      BY <3>1
    <3>2. CASE ~Confusing
      <4>1. client = Waiting(read, "header")
        BY <1>4, <3>2 DEF AtHeader, InStep
      <4>2. client.next = read /\ client.expect = "header"
        BY <4>1 DEF Waiting
      <4>3. client' = IF header.length > 0 /\ sent[read].method # "head"
                      THEN [client EXCEPT !.expect = "body"]
                      ELSE [next |-> client.next + 1, expect |-> "header"]
        BY <1>0, <2>1, <2>2, <4>2 DEF Decode
      <4>4. [client EXCEPT !.expect = "body"] = Waiting(read, "body")
        BY <4>1 DEF Waiting
      <4>. QED
        BY <2>1, <3>2, <4>2, <4>3, <4>4 DEF Waiting
    <3>. QED
      BY <3>1, <3>2
  <2>5. AtBody' \/ AtEnd'
    BY <1>0, <1>3, <2>2, <2>3, <2>4 DEF AtBody, AtEnd, InStep, BodyPart, Waiting
  <2>6. CutAnswerIsLast'
    <3> SUFFICES ASSUME NEW i \in 1..(Len(wire') - 1), wire'[i + 1].is = "header"
                 PROVE  wire'[i + 1].to = wire'[i].to + 1 /\ wire'[i].to <= Len(done)
      BY <1>0 DEF CutAnswerIsLast
    <3>1. CASE i < Len(wire)
      <4>1. i \in 1..(Len(wire) - 1) /\ wire'[i] = wire[i] /\ wire'[i + 1] = wire[i + 1]
        BY <1>2, <3>1
      <4>. QED
        BY <4>1 DEF FInv, CutAnswerIsLast
    <3>2. CASE i = Len(wire)
      <4>1. wire'[i + 1].to = read /\ wire'[i] = wire[i] /\ wire # << >>
        BY <1>2, <2>1, <2>2, <3>2
      <4>2. wire[i].to = Len(done)
        BY <1>4, <3>2, <4>1 DEF AtHeader, LastTo
      <4>. QED
        BY <1>1, <4>1, <4>2
    <3>. QED
      BY <1>2, <3>1, <3>2
  <2>7. OnlyRefusedHeadConfuses'
    <3>1. client'.expect = "lost" => Confusing'
      BY <1>3, <2>4 DEF Waiting
    <3>. QED
      BY <3>1 DEF OnlyRefusedHeadConfuses, Confusing
  <2>. QED
    BY <1>0, <2>5, <2>6, <2>7 DEF FInv, Framing
<1>5. CASE AtBody
  <2>1. Head(out) = BodyPart /\ out' = << >> /\ LastTo' = read
    BY <1>0, <1>2, <1>5 DEF AtBody, BodyPart
  <2>2. Confusing \/ client' = Waiting(read + 1, "header")
    <3>1. CASE client = Waiting(read, "body")
      <4>1. client.next = read /\ client.expect = "body"
        BY <3>1 DEF Waiting
      <4>. QED
        BY <1>0, <2>1, <4>1 DEF Decode, BodyPart, Waiting
    <3>. QED
      BY <1>5, <3>1 DEF AtBody, InStep
  <2>3. AtEnd'
    BY <1>0, <1>3, <2>1, <2>2 DEF AtEnd, InStep, Waiting
  <2>4. CutAnswerIsLast'
    <3> SUFFICES ASSUME NEW i \in 1..(Len(wire') - 1), wire'[i + 1].is = "header"
                 PROVE  wire'[i + 1].to = wire'[i].to + 1 /\ wire'[i].to <= Len(done)
      BY <1>0 DEF CutAnswerIsLast
    <3>1. i # Len(wire)
      BY <1>2, <2>1 DEF BodyPart
    <3>2. i \in 1..(Len(wire) - 1) /\ wire'[i] = wire[i] /\ wire'[i + 1] = wire[i + 1]
      BY <1>2, <3>1
    <3>. QED
      BY <3>2 DEF FInv, CutAnswerIsLast
  <2>5. OnlyRefusedHeadConfuses'
    <3>1. client'.expect = "lost" => Confusing'
      BY <1>3, <2>2 DEF Waiting
    <3>. QED
      BY <3>1 DEF OnlyRefusedHeadConfuses, Confusing
  <2>. QED
    BY <1>0, <2>3, <2>4, <2>5 DEF FInv, Framing
<1>6. ~AtEnd
  BY <1>0 DEF AtEnd
<1>. QED
  BY <1>0, <1>4, <1>5, <1>6 DEF FInv, Framing

\* Every step keeps the client in step with the wire.
LEMMA NextFInv == IInv /\ IInv' /\ FInv /\ [Next]_vars => FInv'
<1> SUFFICES ASSUME IInv, IInv', FInv, [Next]_vars PROVE FInv'
  OBVIOUS
<1>1. CASE WritePart
  BY <1>1, WritePartFInv
<1>2. CASE ~WritePart
  <2>0. UNCHANGED <<wire, client>>
    BY <1>2 DEF Next, Completion, Leave, StartRead, OnReadFails, OnRead, OnWrite, Send,
       OnWriteFails, Tick, clientVars, vars
  <2>1. /\ CutAnswerIsLast' /\ OnlyRefusedHeadConfuses' /\ LastTo' = LastTo
        /\ \A k, is : InStep(k, is) => InStep(k, is)'
    BY <2>0, WireKept
  <2>2. CASE OnRead
    <3>1. op = "read" /\ read = Len(done) /\ done' = done
      BY <2>2 DEF OnRead, IInv, OneAtATime
    <3>2. op' = "none" \/ (op' = "write" /\ read' = read + 1 /\ out' = Parts(read', resp'))
      BY <2>2 DEF OnRead, OnFail, DoEof
    <3>3. op' = "write" => AtHeader'
      BY <2>1, <3>1, <3>2 DEF FInv, Framing, AtHeader
    <3>. QED
      BY <2>1, <3>2, <3>3 DEF FInv, Framing
  <2>3. CASE OnWrite
    <3>1. /\ op = "write" /\ out = << >> /\ done' = Append(done, resp) /\ read = Len(done) + 1
          /\ op' \in {"read", "none"}
      BY <2>3 DEF OnWrite, DoRead, DoEof, IInv, OneAtATime
    <3>2. Len(done') = read
      BY <3>1 DEF IInv, TypeOK
    <3>3. AtEnd
      <4>1. Parts(read, resp) # << >>
        BY DEF Parts
      <4>. QED
        BY <3>1, <4>1 DEF FInv, Framing, AtHeader, AtBody
    <3>. QED
      BY <2>1, <3>1, <3>2, <3>3 DEF FInv, Framing, AtEnd
  <2>4. CASE StartRead \/ OnReadFails \/ OnWriteFails
    <3>1. done' = done /\ (op' = "none" \/ (op = "posted" /\ op' = "read"))
      BY <2>4 DEF StartRead, OnReadFails, OnWriteFails, OnFail, DoRead, DoEof
    <3>. QED
      BY <2>1, <3>1 DEF FInv, Framing
  <2>5. CASE Send \/ Leave \/ Tick \/ UNCHANGED vars
    <3>1. UNCHANGED <<op, read, resp, out, done>>
      BY <2>5 DEF Send, Leave, Tick, serverVars, vars
    <3>. QED
      BY <2>1, <3>1 DEF FInv, Framing, AtHeader, AtBody, AtEnd, BodyPart
  <2>. QED
    BY <1>2, <2>2, <2>3, <2>4, <2>5 DEF Next, Completion
<1>. QED
  BY <1>1, <1>2

\* Together they are inductive.
THEOREM FramingInductive == Spec => []FInv
BY InitFInv, NextFInv, Inductive, PTL DEF Spec

\* Whatever cuts an answer, no other one follows it on the wire.
THEOREM CutAnswerCorrect == Spec => []CutAnswerIsLast
BY FramingInductive, PTL DEF FInv

\* Only the text that handleRequest adds to a refused HEAD makes a client take
\* one answer for another.
THEOREM RefusedHeadCorrect == Spec => []OnlyRefusedHeadConfuses
BY FramingInductive, PTL DEF FInv
=============================================================================
