---------------------------- MODULE Stream_proofs ----------------------------
(***************************************************************************)
(* Where the stream of a connection is.  For every number of connections   *)
(* and everything that the clients may do, a stream has one owner and no   *)
(* entity is left without somebody to release it.                          *)
(***************************************************************************)
EXTENDS Connection_proofs

\* Operations of a strand before and after the upgrade to a websocket, and the
\* tasks of the registry sequence that carry a stream.
PlainOp == {"accept", "runDetector", "detect", "httpDoRead", "httpRead", "httpWrite"}
WsOp == {"wsStartAccept", "wsAccept", "wsRead", "wsWrite", "wsClose"}
Carrier == {"setAccept", "setSSLDetect", "upgrade"}

\* The stages of a connection, in the order in which it reaches them.
Early == {"asyncAccept", "accept", "setAccept", "accResult"}
Detecting == {"runDetector", "detect", "setSSLDetect", "sslResult"}
Reading == {"httpDoRead", "httpRead", "httpWrite", "upgrade"}
Late == {"ws", "markUnused"}
Stage == Early \cup Detecting \cup Reading \cup Late

InQueue(q, op, c) == \E i \in DOMAIN q : q[i].op = op /\ q[i].c = c

Once(q, op, c) ==
    \A i, j \in DOMAIN q :
      q[i].op = op /\ q[i].c = c /\ q[j].op = op /\ q[j].c = c => i = j

\* A result of connection c waits in entity r for the next pass.
AccWaits(r, c) == r.acc.c = c /\ "UnusedAcceptResult" \notin r.tags
SslWaits(r, c) == r.ssl.c = c /\ "UnusedSSLDetectResult" \notin r.tags

\* Connection c is at stage s: the closure, operation, task or component is
\* there.  A websocket is there as long as its channel or one of its handlers.
At(s, c) ==
    \/ s = "asyncAccept" /\ InQueue(astrand, s, c)
    \/ s \in PlainOp /\ Op(s, c) \in ops
    \/ s \in Carrier \cup {"markUnused"} /\ InQueue(rq, s, c)
    \/ s = "accResult" /\ \E e \in Conn : AccWaits(reg[e], c)
    \/ s = "sslResult" /\ \E e \in Conn : SslWaits(reg[e], c)
    \/ s = "ws" /\ \E o \in WsOp : Op(o, c) \in ops
    \/ s = "ws" /\ \E e \in Conn : reg[e].ws = c

\* Only a websocket and its markUnused tasks are there at the same time.
Exclusive ==
    \A c \in Conn, s, t \in Stage : At(s, c) /\ At(t, c) => s = t \/ {s, t} \subseteq Late

OneTask == \A c \in Conn, op \in Carrier : Once(rq, op, c)

\* What is there belongs to a connection that was allocated and to its entity.
Known ==
    \A c \in Conn : /\ \A s \in Stage : At(s, c) => ent[c] # 0
                    /\ Op("wsDoEof", c) \in ops => ent[c] # 0
                    /\ ent[c] # 0 => ent[ent[c]] # 0
                    /\ reg[c].valid => ent[c] # 0
                    /\ ~reg[c].valid => reg[c] = Absent
                    /\ "NeedToDestroy" \notin reg[c].tags

Belongs ==
    \A e, c \in Conn :
      c \in {reg[e].acc.c, reg[e].ssl.c, reg[e].detect, reg[e].http, reg[e].ws} => ent[c] = e

\* The channel objects of a connection are not created twice.
Fresh ==
    \A c, e \in Conn, s \in Stage :
      At(s, c) => /\ s \in Early => reg[e].detect # c
                  /\ s \in Early \cup Detecting => reg[e].http # c

\* A handler of a websocket whose entity exists is preceded by an upgrade of it.
WsKnown ==
    \A c \in Conn, o \in WsOp :
      Op(o, c) \in ops /\ reg[ent[c]].valid => reg[ent[c]].ws # 0

\* Somebody is going to release entity e.
Released(e) == "Unused" \in reg[e].tags \/ reg[e].ws # 0 \/ e \in dropped

Held(e) == Released(e) \/ \E c \in Conn, s \in Stage : ent[c] = e /\ At(s, c)

AllHeld == \A e \in Entities : Held(e)

StageInv ==
    /\ Exclusive
    /\ OneTask
    /\ Known
    /\ Belongs
    /\ Fresh
    /\ WsKnown
    /\ AllHeld

StreamInv == Inv /\ StageInv

-----------------------------------------------------------------------------
\* What is in a queue after an item was taken from it or put on it.
LEMMA QueueStages ==
    ASSUME NEW S, NEW q \in Seq(S)
    PROVE  /\ \A x \in S : \A op, c :
                /\ InQueue(Append(q, x), op, c) <=>
                     InQueue(q, op, c) \/ (x.op = op /\ x.c = c)
                /\ Once(q, op, c) /\ ~(InQueue(q, op, c) /\ x.op = op /\ x.c = c) =>
                     Once(Append(q, x), op, c)
           /\ q # <<>> => \A op, c :
                /\ InQueue(q, op, c) <=>
                     InQueue(Tail(q), op, c) \/ (Head(q).op = op /\ Head(q).c = c)
                /\ Once(q, op, c) => /\ Once(Tail(q), op, c)
                                     /\ Head(q).op = op /\ Head(q).c = c =>
                                          ~InQueue(Tail(q), op, c)
  <1>0. DOMAIN q = 1..Len(q) /\ Len(q) \in Nat
    BY LenProperties
  <1>1. ASSUME NEW x \in S, NEW op, NEW c
        PROVE  /\ InQueue(Append(q, x), op, c) <=>
                    InQueue(q, op, c) \/ (x.op = op /\ x.c = c)
               /\ Once(q, op, c) /\ ~(InQueue(q, op, c) /\ x.op = op /\ x.c = c) =>
                    Once(Append(q, x), op, c)
    <2>1. /\ DOMAIN Append(q, x) = 1..(Len(q) + 1)
          /\ \A i \in 1..Len(q) : Append(q, x)[i] = q[i]
          /\ Append(q, x)[Len(q) + 1] = x
      BY <1>0, AppendProperties, LenProperties
    <2>2. \A i \in DOMAIN Append(q, x) : i \in DOMAIN q \/ i = Len(q) + 1
      BY <1>0, <2>1
    <2>3. DOMAIN q \subseteq DOMAIN Append(q, x) /\ Len(q) + 1 \in DOMAIN Append(q, x)
      BY <1>0, <2>1
    <2>4. \A i \in DOMAIN q : Append(q, x)[i] = q[i]
      BY <1>0, <2>1
    <2>5. InQueue(Append(q, x), op, c) <=> InQueue(q, op, c) \/ (x.op = op /\ x.c = c)
      BY <2>1, <2>2, <2>3, <2>4 DEF InQueue
    <2>6. Once(q, op, c) /\ ~(InQueue(q, op, c) /\ x.op = op /\ x.c = c) =>
            Once(Append(q, x), op, c)
      BY <2>1, <2>2, <2>3, <2>4 DEF InQueue, Once
    <2> QED
      BY <2>5, <2>6
  <1>2. ASSUME q # <<>>, NEW op, NEW c
        PROVE  /\ InQueue(q, op, c) <=>
                    InQueue(Tail(q), op, c) \/ (Head(q).op = op /\ Head(q).c = c)
               /\ Once(q, op, c) => /\ Once(Tail(q), op, c)
                                    /\ Head(q).op = op /\ Head(q).c = c =>
                                         ~InQueue(Tail(q), op, c)
    <2>1. /\ DOMAIN Tail(q) = 1..(Len(q) - 1) /\ Len(q) > 0 /\ Head(q) = q[1]
          /\ \A i \in 1..(Len(q) - 1) : Tail(q)[i] = q[i + 1]
      BY <1>0, <1>2, EmptySeq, HeadTailProperties, LenProperties
    <2>2. /\ 1 \in DOMAIN q
          /\ \A i \in DOMAIN q : i # 1 => \E j \in DOMAIN Tail(q) : Tail(q)[j] = q[i]
      <3>1. ASSUME NEW i \in DOMAIN q, i # 1 PROVE \E j \in DOMAIN Tail(q) : Tail(q)[j] = q[i]
        <4>1. i - 1 \in 1..(Len(q) - 1) /\ (i - 1) + 1 = i
          BY <1>0, <3>1
        <4> QED
          BY <2>1, <4>1
      <3> QED
        BY <1>0, <2>1, <3>1
    <2>3. \A i \in DOMAIN Tail(q) : i + 1 \in DOMAIN q /\ i + 1 # 1 /\ Tail(q)[i] = q[i + 1]
      BY <1>0, <2>1
    <2>4. \A i, j \in DOMAIN Tail(q) : i + 1 = j + 1 => i = j
      BY <1>0, <2>1
    <2> DEFINE t == Tail(q)
               h == Head(q)
    <2>5. /\ h = q[1] /\ 1 \in DOMAIN q
          /\ \A i \in DOMAIN q : i # 1 => \E j \in DOMAIN t : t[j] = q[i]
          /\ \A i \in DOMAIN t : i + 1 \in DOMAIN q /\ i + 1 # 1 /\ t[i] = q[i + 1]
          /\ \A i, j \in DOMAIN t : i + 1 = j + 1 => i = j
      BY <2>1, <2>2, <2>3, <2>4
    <2> HIDE DEF t, h
    <2>6. InQueue(q, op, c) <=> InQueue(t, op, c) \/ (h.op = op /\ h.c = c)
      BY <2>5 DEF InQueue
    <2>7. Once(q, op, c) => Once(t, op, c)
      BY <2>5 DEF Once
    <2>8. Once(q, op, c) /\ h.op = op /\ h.c = c => ~InQueue(t, op, c)
      BY <2>5 DEF InQueue, Once
    <2> QED
      BY <2>6, <2>7, <2>8 DEF t, h
  <1> QED
    BY <1>1, <1>2

\* The shape of the items that the actions post.
LEMMA ItemFields ==
    /\ \A op, c : Op(op, c).op = op /\ Op(op, c).c = c
    /\ \A op, c, ec, close : Task(op, c, ec, close).op = op /\ Task(op, c, ec, close).c = c
    /\ \A op, c : Do(op, c).op = op /\ Do(op, c).c = c
    /\ \A o, p, c, d : Op(o, c) = Op(p, d) <=> o = p /\ c = d
  BY DEF Op, Do, Task
-----------------------------------------------------------------------------
(***************************************************************************)
(* How a step moves connections from stage to stage: one that reaches      *)
(* stage s comes from the stage that nxt leads from, and has left it; or it *)
(* was just allocated; or it has a websocket.                              *)
(***************************************************************************)
Leads(a, b) ==
    /\ a \in Stage \ Late
    /\ b \in Early => a \in Early
    /\ b \in Detecting => a \in Early \cup Detecting

Moves(nxt) ==
    \A c \in Conn, s \in Stage : At(s, c)' =>
      \/ At(s, c)
      \/ s = "asyncAccept" /\ ent[c] = 0
      \/ s \in Late /\ At("ws", c)
      \/ \E a \in Stage : /\ At(a, c) /\ ~At(a, c)'
                           /\ s = nxt[a] /\ Leads(a, s)

\* No connection of an entity that exists leaves its last stage unless the
\* entity is going to be released.
Keeps ==
    \A c \in Conn, s \in Stage :
      At(s, c) /\ reg'[ent[c]].valid => Released(ent[c])' \/ \E t \in Stage : At(t, c)'

\* Such steps leave every connection at one stage, and do not let it go back.
LEMMA MovesKeep ==
    ASSUME StageInv, NEW nxt, Moves(nxt)
    PROVE  /\ Exclusive'
           /\ (\A e \in Conn : /\ reg'[e].detect \in {0, reg[e].detect}
                               /\ reg'[e].http \in {0, reg[e].http}) => Fresh'
  <1>1. Exclusive'
    <2> SUFFICES ASSUME NEW c \in Conn, NEW s \in Stage, NEW t \in Stage, At(s, c)', At(t, c)'
                 PROVE  s = t \/ {s, t} \subseteq Late
      BY DEF Exclusive
    <2>1. CASE ent[c] = 0
      <3>1. \A a \in Stage : ~At(a, c)
        BY <2>1 DEF StageInv, Known
      <3>2. "ws" \in Stage
        BY DEF Stage, Late
      <3> QED
        BY <3>1, <3>2 DEF Moves
    <2>2. CASE ent[c] # 0
      <3>1. \A a, b \in Stage : At(a, c) /\ At(b, c) => a = b \/ {a, b} \subseteq Late
        BY DEF StageInv, Exclusive
      <3>2. "ws" \in Stage /\ "ws" \in Late
        BY DEF Stage, Late
      <3> QED
        BY <2>2, <3>1, <3>2 DEF Moves, Leads
    <2> QED
      BY <2>1, <2>2
  <1>2. ASSUME \A e \in Conn : /\ reg'[e].detect \in {0, reg[e].detect}
                              /\ reg'[e].http \in {0, reg[e].http}
        PROVE  Fresh'
    <2> SUFFICES ASSUME NEW c \in Conn, NEW e \in Conn, NEW s \in Stage, At(s, c)'
                 PROVE  /\ s \in Early => reg'[e].detect # c
                        /\ s \in Early \cup Detecting => reg'[e].http # c
      BY DEF Fresh
    <2>1. c # 0 /\ Late \cap (Early \cup Detecting) = {} /\ Early \cap Detecting = {}
      BY ConnFacts DEF Late, Early, Detecting
    <2>2. CASE ent[c] = 0
      <3>1. reg[e].detect # c /\ reg[e].http # c
        BY <2>2, ConnFacts DEF StageInv, Belongs
      <3> QED
        BY <1>2, <2>1, <3>1
    <2>3. CASE \E a \in Stage : /\ At(a, c)
                                /\ s \in Early => a \in Early
                                /\ s \in Early \cup Detecting => a \in Early \cup Detecting
      <3>1. /\ s \in Early => reg[e].detect # c
            /\ s \in Early \cup Detecting => reg[e].http # c
        BY <2>3 DEF StageInv, Fresh
      <3> QED
        BY <1>2, <2>1, <3>1
    <2>4. CASE s \in Late
      BY <2>1, <2>4
    <2> QED
      BY <2>2, <2>3, <2>4 DEF Moves, Leads
  <1> QED
    BY <1>1, <1>2

\* Nobody leaks an entity in such a step.
LEMMA MovesHold ==
    ASSUME StageInv, Keeps, UNCHANGED ent,
           \A e \in Conn : reg'[e].valid => reg[e].valid /\ (Released(e) => Released(e)')
    PROVE  AllHeld'
  <1> SUFFICES ASSUME NEW e \in Conn, reg'[e].valid
               PROVE  Held(e)'
    BY DEF AllHeld, Entities
  <1>1. Held(e)
    BY DEF StageInv, AllHeld, Entities
  <1>2. CASE Released(e)
    BY <1>2 DEF Held
  <1>3. ASSUME NEW c \in Conn, NEW s \in Stage, ent[c] = e, At(s, c)
        PROVE  Held(e)'
    BY <1>3 DEF Keeps, Held
  <1> QED
    BY <1>1, <1>2, <1>3 DEF Held

-----------------------------------------------------------------------------
(***************************************************************************)
(* The strand of a connection before the upgrade: an operation makes way   *)
(* for another one or for a task of the registry sequence.                 *)
(***************************************************************************)
SameAcceptor ==
    \A d \in Conn : InQueue(astrand, "asyncAccept", d)' <=> InQueue(astrand, "asyncAccept", d)

\* Operation a of connection c makes way for operation or task b.
Hands(c, a, b) ==
    \/ /\ b \in PlainOp /\ b # a
       /\ ops' = (ops \ {Op(a, c)}) \cup {Op(b, c)}
       /\ UNCHANGED rq
    \/ /\ b \in Carrier \cup {"markUnused"}
       /\ ops' = ops \ {Op(a, c)}
       /\ \E t \in RegistryItem : t.op = b /\ t.c = c /\ rq' = Append(rq, t)

\* A channel hands its stream to itself or lets the registry have it.
Follows(a, b) ==
    /\ Leads(a, b)
    /\ b \in Detecting => a \in Detecting
    /\ b \in Reading => a \in Reading

\* What is on the registry sequence and on the strands after that.
LEMMA HandsStages ==
    ASSUME TypeOK, NEW c \in Conn, NEW a \in PlainOp, NEW b, Hands(c, a, b),
           Op(a, c) \in ops, SameAcceptor, UNCHANGED reg
    PROVE  \A d \in Conn, s \in Stage :
             At(s, d)' <=> (At(s, d) /\ ~(d = c /\ s = a)) \/ (d = c /\ s = b)
  <1> SUFFICES ASSUME NEW d \in Conn, NEW s \in Stage
               PROVE  At(s, d)' <=> (At(s, d) /\ ~(d = c /\ s = a)) \/ (d = c /\ s = b)
    OBVIOUS
  <1>0. rq \in Seq(RegistryItem)
    BY DEF TypeOK
  <1>1. CASE s \in PlainOp
    <2>1. /\ At(s, d) <=> Op(s, d) \in ops
          /\ At(s, d)' <=> Op(s, d) \in ops'
      BY <1>1 DEF At, PlainOp, Carrier
    <2> QED
      BY <1>1, <2>1, ItemFields DEF Hands, PlainOp, Carrier
  <1>2. CASE s \in Carrier \cup {"markUnused"}
    <2>1. /\ At(s, d) <=> InQueue(rq, s, d)
          /\ At(s, d)' <=> InQueue(rq', s, d)
      BY <1>2 DEF At, PlainOp, Carrier
    <2>2. InQueue(rq', s, d) <=> InQueue(rq, s, d) \/ (d = c /\ s = b)
      <3>1. CASE b \in PlainOp /\ rq' = rq
        BY <1>2, <3>1 DEF PlainOp, Carrier
      <3>2. ASSUME NEW t \in RegistryItem, t.op = b, t.c = c, rq' = Append(rq, t)
            PROVE  InQueue(rq', s, d) <=> InQueue(rq, s, d) \/ (d = c /\ s = b)
        BY <1>0, <3>2, QueueStages
      <3> QED
        BY <3>1, <3>2 DEF Hands
    <2> QED
      BY <1>2, <2>1, <2>2 DEF PlainOp, Carrier
  <1>3. CASE s = "asyncAccept"
    BY <1>3 DEF At, PlainOp, Carrier, SameAcceptor, Hands
  <1>4. CASE s \in {"accResult", "sslResult"}
    BY <1>4 DEF At, PlainOp, Carrier, Hands
  <1>5. CASE s = "ws"
    <2>1. \A o \in WsOp : Op(o, d) \in ops' <=> Op(o, d) \in ops
      BY ItemFields DEF Hands, PlainOp, WsOp, Carrier
    <2> QED
      BY <1>5, <2>1 DEF At, PlainOp, Carrier, Hands
  <1> QED
    BY <1>1, <1>2, <1>3, <1>4, <1>5 DEF Stage, Early, Detecting, Reading, Late, PlainOp, Carrier

\* Such a step keeps the invariant.
LEMMA HandsKeep ==
    ASSUME StreamInv, NEW c \in Conn, NEW a \in PlainOp, NEW b \in Stage, Hands(c, a, b),
           Op(a, c) \in ops, SameAcceptor, UNCHANGED <<ent, reg, dropped>>, Leads(a, b)
    PROVE  StageInv'
  <1> USE DEF StreamInv
  <1>1. \A d \in Conn, s \in Stage :
          At(s, d)' <=> (At(s, d) /\ ~(d = c /\ s = a)) \/ (d = c /\ s = b)
    BY HandsStages DEF Inv
  <1>2. a \in Stage /\ At(a, c) /\ a # b
    BY DEF At, Hands, PlainOp, Carrier, Stage, Early, Detecting, Reading
  <1>3. Moves([x \in Stage |-> b])
    BY <1>1, <1>2 DEF Moves
  <1>4. Keeps
    BY <1>1 DEF Keeps
  <1>5. AllHeld'
    BY <1>4, MovesHold DEF Released
  <1>6. Exclusive' /\ Fresh'
    BY <1>3, MovesKeep
  <1>7. Known' /\ Belongs'
    BY <1>1, <1>2, ItemFields DEF StageInv, Known, Belongs, Hands, PlainOp
  <1>8. WsKnown'
    BY ItemFields DEF StageInv, WsKnown, Hands, WsOp, PlainOp
  <1>9. OneTask'
    <2> SUFFICES ASSUME NEW d \in Conn, NEW op \in Carrier PROVE Once(rq', op, d)
      BY DEF OneTask
    <2>1. rq \in Seq(RegistryItem) /\ Once(rq, op, d)
      BY DEF Inv, TypeOK, StageInv, OneTask
    <2>2. ~(op = b /\ d = c /\ InQueue(rq, op, d))
      <3> SUFFICES ASSUME op = b, d = c, InQueue(rq, op, d) PROVE FALSE
        OBVIOUS
      <3>1. At(b, c)
        BY DEF At
      <3>2. a \notin Late
        BY DEF Leads
      <3> QED
        BY <1>2, <3>1, <3>2 DEF StageInv, Exclusive
    <2>3. ASSUME NEW t \in RegistryItem, t.op = b, t.c = c, rq' = Append(rq, t)
          PROVE  Once(rq', op, d)
      BY <2>1, <2>2, <2>3, QueueStages
    <2> QED
      BY <2>1, <2>3 DEF Hands
  <1> QED
    BY <1>5, <1>6, <1>7, <1>8, <1>9 DEF StageInv

\* The steps of the detector and of the HTTP channel, and the completion of an
\* accept while the io_context runs.
LEMMA PlainSteps ==
    ASSUME StreamInv, NEW c \in Conn,
           \/ (IocRuns /\ OnAccept(c)) \/ RunDetector(c) \/ OnDetected(c)
           \/ HttpDoRead(c) \/ HttpOnRead(c) \/ HttpOnWrite(c)
    PROVE  /\ \E a \in PlainOp, b \in Stage :
                /\ Op(a, c) \in ops /\ Hands(c, a, b) /\ Follows(a, b)
                /\ b = "upgrade" => "upgrade" \in Env
           /\ SameAcceptor /\ UNCHANGED <<phase, acceptorOpen, ent, reg, orphans, dropped>>
  <1> DEFINE Goal == \E a \in PlainOp, b \in Stage :
                       /\ Op(a, c) \in ops /\ Hands(c, a, b) /\ Follows(a, b)
                       /\ b = "upgrade" => "upgrade" \in Env
  <1>0. astrand \in Seq(AcceptorItem) /\ Op("doAccept", 0) \in AcceptorItem
    BY ItemTypes DEF StreamInv, Inv, TypeOK
  <1>1. /\ \A op \in PlainOp, then \in PlainOp :
             /\ Continue(op, c, {then}) => ops' = (ops \ {Op(op, c)}) \cup {Op(then, c)}
             /\ Continue(op, c, {}) => ops' = ops \ {Op(op, c)}
    BY DEF Continue
  <1>2. ASSUME NEW op \in PlainOp, NEW b \in PlainOp, OnStrand(op, c), Continue(op, c, {b}),
               UNCHANGED rq, b # op, Follows(op, b)
        PROVE  Goal
    <2>1. Hands(c, op, b)
      BY <1>1, <1>2 DEF Hands
    <2>2. b \in Stage /\ b # "upgrade"
      BY DEF PlainOp, Stage, Early, Detecting, Reading
    <2> QED
      BY <1>2, <2>1, <2>2 DEF OnStrand
  <1>3. ASSUME NEW op \in PlainOp, NEW b \in Carrier \cup {"markUnused"}, Op(op, c) \in ops,
               ops' = ops \ {Op(op, c)}, Follows(op, b), b = "upgrade" => "upgrade" \in Env,
               \E t \in RegistryItem : t.op = b /\ t.c = c /\ rq' = Append(rq, t)
        PROVE  Goal
    <2>1. Hands(c, op, b)
      BY <1>3 DEF Hands
    <2>2. b \in Stage
      BY DEF Carrier, Stage, Early, Detecting, Reading, Late
    <2> QED
      BY <1>3, <2>1, <2>2
  <1>4. Follows("accept", "setAccept") /\ Follows("runDetector", "detect")
        /\ Follows("detect", "setSSLDetect") /\ Follows("httpDoRead", "httpRead")
        /\ Follows("httpRead", "markUnused") /\ Follows("httpRead", "upgrade")
        /\ Follows("httpRead", "httpWrite") /\ Follows("httpWrite", "markUnused")
        /\ Follows("httpWrite", "httpRead")
    BY DEF Follows, Leads, Stage, Early, Detecting, Reading, Late
  <1>5. CASE IocRuns /\ OnAccept(c)
    <2>1. /\ \E ec \in BOOLEAN : rq' = Append(rq, Task("setAccept", c, ec, FALSE))
          /\ astrand' = Append(astrand, Op("doAccept", 0)) /\ dropped' = dropped
      BY <1>5, OnAcceptCases DEF IocRuns
    <2>2. \E t \in RegistryItem : t.op = "setAccept" /\ t.c = c /\ rq' = Append(rq, t)
      <3>1. PICK ec \in BOOLEAN : rq' = Append(rq, Task("setAccept", c, ec, FALSE))
        BY <2>1
      <3>2. PICK t : t = Task("setAccept", c, ec, FALSE)
        OBVIOUS
      <3>3. t \in RegistryItem
        BY <3>2, ItemTypes
      <3>4. t.op = "setAccept" /\ t.c = c
        BY <3>2 DEF Task
      <3> QED
        BY <3>1, <3>2, <3>3, <3>4, Zenon
    <2>3. Goal
      BY <1>3, <1>4, <1>5, <2>2 DEF OnAccept, PlainOp, Carrier
    <2>4. SameAcceptor
      BY <1>0, <2>1, QueueStages, ItemFields DEF SameAcceptor
    <2> QED
      BY <1>5, <2>1, <2>3, <2>4 DEF OnAccept
  <1>6. CASE RunDetector(c)
    <2>1. Goal
      BY <1>2, <1>4, <1>6 DEF RunDetector, PlainOp
    <2> QED
      BY <1>6, <2>1 DEF RunDetector, SameAcceptor
  <1>7. CASE OnDetected(c)
    <2>1. PICK ec \in BOOLEAN, close \in BOOLEAN : rq' = Append(rq, Task("setSSLDetect", c, ec, close))
      BY <1>7 DEF OnDetected, PostReg
    <2>2. \E t \in RegistryItem : t.op = "setSSLDetect" /\ t.c = c /\ rq' = Append(rq, t)
      BY <2>1, ItemTypes, ItemFields
    <2>3. ops' = ops \ {Op("detect", c)} /\ Op("detect", c) \in ops
      BY <1>1, <1>7 DEF OnDetected, OnStrand, PlainOp
    <2>4. Goal
      BY <1>3, <1>4, <2>2, <2>3 DEF PlainOp, Carrier
    <2> QED
      BY <1>7, <2>4 DEF OnDetected, SameAcceptor
  <1>8. CASE HttpDoRead(c)
    <2>1. Goal
      BY <1>2, <1>4, <1>8 DEF HttpDoRead, PlainOp
    <2> QED
      BY <1>8, <2>1 DEF HttpDoRead, SameAcceptor
  <1>9. CASE HttpOnRead(c) \/ HttpOnWrite(c)
    <2>1. ASSUME NEW op \in {"httpRead", "httpWrite"}, NEW b \in {"markUnused", "upgrade"},
                 OnStrand(op, c), Continue(op, c, {}), rq' = Append(rq, Do(b, c)),
                 Follows(op, b), b = "upgrade" => "upgrade" \in Env
          PROVE  Goal
      <3>1. \E t \in RegistryItem : t.op = b /\ t.c = c /\ rq' = Append(rq, t)
        BY <2>1, ItemTypes, ItemFields
      <3> QED
        BY <1>1, <1>3, <2>1, <3>1 DEF OnStrand, PlainOp, Carrier
    <2>2. CASE HttpOnRead(c)
      BY <1>2, <1>4, <2>1, <2>2 DEF HttpOnRead, HttpDoEof, PostReg, SameAcceptor, PlainOp
    <2>3. CASE HttpOnWrite(c)
      BY <1>2, <1>4, <2>1, <2>3 DEF HttpOnWrite, HttpDoEof, PostReg, SameAcceptor, PlainOp
    <2> QED
      BY <1>9, <2>2, <2>3
  <1> QED
    BY <1>5, <1>6, <1>7, <1>8, <1>9

-----------------------------------------------------------------------------
(***************************************************************************)
(* Steps after which every connection is at the stages at which it was.    *)
(***************************************************************************)
SameStages == \A c \in Conn, s \in Stage : At(s, c)' <=> At(s, c)

\* No handler of a websocket was started.
NoNewWs == \A c \in Conn, o \in WsOp : Op(o, c) \in ops' => Op(o, c) \in ops

\* Such steps keep the invariant if they leave the entities alone, or give one
\* of them children.
LEMMA SameKeeps ==
    ASSUME StageInv, SameStages, OneTask', UNCHANGED <<ent, dropped>>, NoNewWs,
           \A c \in Conn : Op("wsDoEof", c) \in ops' => ent[c] # 0,
           \A e \in Conn : \E k : reg'[e] = [reg[e] EXCEPT !.kids = k],
           \A e \in Conn : ~reg[e].valid => reg'[e] = reg[e],
           TypeOK
    PROVE  StageInv'
  <1>1. \A e \in Conn : /\ reg'[e].valid = reg[e].valid /\ reg'[e].tags = reg[e].tags
                        /\ reg'[e].acc = reg[e].acc /\ reg'[e].ssl = reg[e].ssl
                        /\ reg'[e].detect = reg[e].detect /\ reg'[e].http = reg[e].http
                        /\ reg'[e].ws = reg[e].ws
    BY DEF TypeOK, Entity
  <1>2. Moves([x \in Stage |-> x])
    BY DEF SameStages, Moves
  <1>3. Exclusive' /\ Fresh'
    BY <1>1, <1>2, MovesKeep
  <1>4. AllHeld'
    <2>1. Keeps
      BY DEF Keeps, SameStages
    <2> QED
      BY <1>1, <2>1, MovesHold DEF Released
  <1>5. Known'
    BY <1>1 DEF StageInv, Known, SameStages
  <1>6. Belongs'
    BY <1>1 DEF StageInv, Belongs
  <1>7. WsKnown'
    <2> SUFFICES ASSUME NEW c \in Conn, NEW o \in WsOp, Op(o, c) \in ops', reg'[ent[c]].valid
                 PROVE  reg'[ent[c]].ws # 0
      BY DEF WsKnown
    <2>1. Op(o, c) \in ops /\ ent[c] # 0
      BY DEF NoNewWs, StageInv, Known, At, Stage, Late
    <2>2. ent[c] \in Conn
      BY <2>1, BoundAssumption DEF TypeOK, Conn
    <2> QED
      BY <1>1, <2>1, <2>2 DEF StageInv, WsKnown
  <1> QED
    BY <1>3, <1>4, <1>5, <1>6, <1>7 DEF StageInv

\* What the registry sequence holds after a task that carries no stream was
\* put on it or taken from it.
SameTasks ==
    /\ \A d \in Conn, op \in Carrier \cup {"markUnused"} : InQueue(rq', op, d) <=> InQueue(rq, op, d)
    /\ \A d \in Conn, op \in Carrier \cup {"markUnused"} : Once(rq, op, d) => Once(rq', op, d)

\* A step that puts no such task on the sequence, and takes none from it.
LEMMA TasksSame ==
    ASSUME TypeOK,
           \/ rq' = rq
           \/ \E t \in RegistryItem : t.op \notin Carrier \cup {"markUnused"} /\ rq' = Append(rq, t)
           \/ /\ rq # <<>> /\ Head(rq).op \notin Carrier \cup {"markUnused"}
              /\ rq' = Tail(rq)
           \/ rq' = rq \o <<Do("closeAll", 0), Do("check", 0)>>
    PROVE  SameTasks
  <1>0. rq \in Seq(RegistryItem)
    BY DEF TypeOK
  <1>1. CASE rq' = rq
    BY <1>1 DEF SameTasks
  <1>2. ASSUME NEW t \in RegistryItem, t.op \notin Carrier \cup {"markUnused"}, rq' = Append(rq, t)
        PROVE  SameTasks
    BY <1>0, <1>2, QueueStages DEF SameTasks
  <1>3. CASE rq # <<>> /\ Head(rq).op \notin Carrier \cup {"markUnused"} /\ rq' = Tail(rq)
    BY <1>0, <1>3, QueueStages DEF SameTasks
  <1>4. CASE rq' = rq \o <<Do("closeAll", 0), Do("check", 0)>>
    <2> DEFINE t == Do("closeAll", 0)
               u == Do("check", 0)
               q == Append(rq, t)
    <2>1. /\ t \in RegistryItem /\ u \in RegistryItem
          /\ t.op \notin Carrier \cup {"markUnused"} /\ u.op \notin Carrier \cup {"markUnused"}
      BY ItemTypes, ItemFields DEF Carrier
    <2> HIDE DEF t, u
    <2>2. rq \o <<t, u>> = Append(q, u)
      BY <1>0, <2>1
    <2>3. q \in Seq(RegistryItem)
      BY <1>0, <2>1, QueueType
    <2> HIDE DEF q
    <2>4. \A d \in Conn, op \in Carrier \cup {"markUnused"} :
            (InQueue(q, op, d) <=> InQueue(rq, op, d)) /\ (Once(rq, op, d) => Once(q, op, d))
      BY <1>0, <2>1, QueueStages DEF q
    <2>5. \A d \in Conn, op \in Carrier \cup {"markUnused"} :
            /\ InQueue(Append(q, u), op, d) <=> InQueue(q, op, d)
            /\ Once(q, op, d) => Once(Append(q, u), op, d)
      BY <2>1, <2>3, QueueStages
    <2>6. rq' = Append(q, u)
      BY <1>4, <2>2 DEF t, u
    <2> QED
      BY <2>4, <2>5, <2>6 DEF SameTasks
  <1> QED
    BY <1>1, <1>2, <1>3, <1>4

\* If each place holds what it held, the stages are the same.
LEMMA StagesSame ==
    ASSUME TypeOK, SameAcceptor, SameTasks,
           \A d \in Conn, o \in PlainOp \cup WsOp : Op(o, d) \in ops' <=> Op(o, d) \in ops,
           \A e \in Conn : \E k : reg'[e] = [reg[e] EXCEPT !.kids = k]
    PROVE  SameStages /\ NoNewWs
  <1>1. \A e \in Conn : /\ reg'[e].acc = reg[e].acc /\ reg'[e].ssl = reg[e].ssl
                        /\ reg'[e].tags = reg[e].tags /\ reg'[e].ws = reg[e].ws
    <2> SUFFICES ASSUME NEW e \in Conn
                 PROVE  /\ reg'[e].acc = reg[e].acc /\ reg'[e].ssl = reg[e].ssl
                        /\ reg'[e].tags = reg[e].tags /\ reg'[e].ws = reg[e].ws
      OBVIOUS
    <2>1. reg[e] \in Entity
      BY DEF TypeOK
    <2>2. PICK k : reg'[e] = [reg[e] EXCEPT !.kids = k]
      OBVIOUS
    <2> QED
      BY ONLY <2>1, <2>2 DEF Entity
  <1>2. \A e, c \in Conn : /\ AccWaits(reg'[e], c) <=> AccWaits(reg[e], c)
                           /\ SslWaits(reg'[e], c) <=> SslWaits(reg[e], c)
    BY <1>1 DEF AccWaits, SslWaits
  <1>3. SameStages
    <2> SUFFICES ASSUME NEW c \in Conn, NEW s \in Stage PROVE At(s, c)' <=> At(s, c)
      BY DEF SameStages
    <2>1. CASE s \in PlainOp
      BY <2>1 DEF At, PlainOp, Carrier
    <2>2. CASE s \in Carrier \cup {"markUnused"}
      BY <2>2 DEF At, PlainOp, Carrier, SameTasks
    <2>3. CASE s = "asyncAccept"
      BY <2>3 DEF At, PlainOp, Carrier, SameAcceptor
    <2>4. CASE s \in {"accResult", "sslResult"}
      BY <1>2, <2>4 DEF At, PlainOp, Carrier
    <2>5. CASE s = "ws"
      BY <1>1, <2>5 DEF At, PlainOp, Carrier
    <2> QED
      BY <2>1, <2>2, <2>3, <2>4, <2>5 DEF Stage, Early, Detecting, Reading, Late, PlainOp, Carrier
  <1> QED
    BY <1>3 DEF NoNewWs

\* doAccept, stopAcceptor, messages, and what unload does.
LEMMA QuietSteps ==
    ASSUME StreamInv,
           \/ DoAccept \/ StopAcceptor \/ AllocateRecievedDataComponent \/ CloseNetworkResources
           \/ CheckRegistryEmpty \/ Unload \/ ValidateAndFreeNetworkResources \/ StopIOContext
           \/ UNCHANGED vars
    PROVE  /\ SameStages /\ SameTasks /\ NoNewWs /\ UNCHANGED <<ent, dropped>>
           /\ \A c \in Conn : Op("wsDoEof", c) \in ops' => ent[c] # 0
           /\ \A e \in Conn : \E k : reg'[e] = [reg[e] EXCEPT !.kids = k]
           /\ \A e \in Conn : ~reg[e].valid => reg'[e] = reg[e]
  <1>0. /\ TypeOK /\ astrand \in Seq(AcceptorItem) /\ rq \in Seq(RegistryItem)
        /\ Op("stop", 0) \in AcceptorItem
    BY ItemTypes DEF StreamInv, Inv, TypeOK
  <1>1. SameAcceptor
    <2>1. \/ astrand' = astrand
          \/ /\ astrand # <<>> /\ Head(astrand).op # "asyncAccept"
             /\ astrand' = Tail(astrand)
          \/ astrand' = Append(astrand, Op("stop", 0))
      BY DEF DoAccept, StopAcceptor, AllocateRecievedDataComponent, CloseNetworkResources,
         CheckRegistryEmpty, Unload, ValidateAndFreeNetworkResources, StopIOContext, vars,
         OnAcceptorStrand
    <2>2. CASE astrand' = astrand
      BY <2>2 DEF SameAcceptor
    <2>3. CASE astrand # <<>> /\ Head(astrand).op # "asyncAccept" /\ astrand' = Tail(astrand)
      BY <1>0, <2>3, QueueStages DEF SameAcceptor
    <2>4. CASE astrand' = Append(astrand, Op("stop", 0))
      BY <1>0, <2>4, QueueStages, ItemFields DEF SameAcceptor
    <2> QED
      BY <2>1, <2>2, <2>3, <2>4
  <1>2. SameTasks
    <2>1. CASE DoAccept
      <3>1. rq' = rq \/ rq' = Append(rq, Do("alloc", 0))
        BY <2>1, Zenon DEF DoAccept, PostReg
      <3>2. Do("alloc", 0) \in RegistryItem /\ Do("alloc", 0).op \notin Carrier \cup {"markUnused"}
        BY ItemTypes, ItemFields DEF Carrier
      <3> QED
        BY <1>0, <3>1, <3>2, TasksSame
    <2>2. CASE AllocateRecievedDataComponent \/ CloseNetworkResources \/ CheckRegistryEmpty
      <3>1. rq # <<>> /\ Head(rq).op \in {"recieved", "closeAll", "check"} /\ rq' = Tail(rq)
        BY <2>2 DEF AllocateRecievedDataComponent, CloseNetworkResources, CheckRegistryEmpty,
           OnRegistry
      <3> QED
        BY <1>0, <3>1, TasksSame DEF Carrier
    <2>3. CASE ValidateAndFreeNetworkResources
      BY <1>0, <2>3, TasksSame DEF ValidateAndFreeNetworkResources
    <2>4. CASE StopAcceptor \/ Unload \/ StopIOContext \/ UNCHANGED vars
      BY <1>0, <2>4, TasksSame DEF StopAcceptor, Unload, StopIOContext, vars
    <2> QED
      BY <2>1, <2>2, <2>3, <2>4
  <1>3. \A d \in Conn, o \in PlainOp \cup WsOp : Op(o, d) \in ops' <=> Op(o, d) \in ops
    <2>1. CASE CloseNetworkResources
      BY <2>1, ItemFields DEF CloseNetworkResources, PlainOp, WsOp
    <2>2. CASE ops' = ops
      BY <2>2
    <2> QED
      BY <2>1, <2>2 DEF DoAccept, StopAcceptor, AllocateRecievedDataComponent, CheckRegistryEmpty,
         Unload, ValidateAndFreeNetworkResources, StopIOContext, vars
  <1> DEFINE Small(e) == /\ \E k : reg'[e] = [reg[e] EXCEPT !.kids = k]
                         /\ ~reg[e].valid => reg'[e] = reg[e]
  <1>4. \A e \in Conn : Small(e)
    <2>1. \A e \in Conn : reg[e] = [reg[e] EXCEPT !.kids = reg[e].kids]
      BY <1>0 DEF TypeOK, Entity
    <2>2. CASE AllocateRecievedDataComponent
      <3>1. \/ \E c, e :
                  /\ reg[e].valid
                  /\ reg' = [reg EXCEPT ![e] = [reg[e] EXCEPT !.kids = reg[e].kids \cup {c}]]
            \/ reg' = reg
        BY <2>2 DEF AllocateRecievedDataComponent
      <3>2. reg \in [Conn -> Entity]
        BY <1>0 DEF TypeOK
      <3>3. ASSUME NEW c, NEW e, reg[e].valid,
                   reg' = [reg EXCEPT ![e] = [reg[e] EXCEPT !.kids = reg[e].kids \cup {c}]]
            PROVE  \A d \in Conn : Small(d)
        <4> TAKE d \in Conn
        <4>1. CASE d = e
          <5>1. reg'[d] = [reg[d] EXCEPT !.kids = reg[e].kids \cup {c}]
            BY <3>2, <3>3, <4>1
          <5> QED
            BY <3>3, <4>1, <5>1
        <4>2. CASE d # e
          <5>1. reg'[d] = reg[d]
            BY <3>2, <3>3, <4>2
          <5> QED
            BY <2>1, <5>1
        <4> QED
          BY <4>1, <4>2
      <3>4. CASE reg' = reg
        BY <2>1, <3>4
      <3> HIDE DEF Small
      <3> QED
        BY <3>1, <3>3, <3>4
    <2>3. CASE reg' = reg
      BY <2>1, <2>3
    <2> HIDE DEF Small
    <2> QED
      BY <2>2, <2>3 DEF DoAccept, StopAcceptor, CloseNetworkResources, CheckRegistryEmpty,
         Unload, ValidateAndFreeNetworkResources, StopIOContext, vars
  <1>5. UNCHANGED <<ent, dropped>>
    BY DEF DoAccept, StopAcceptor, AllocateRecievedDataComponent, CloseNetworkResources,
       CheckRegistryEmpty, Unload, ValidateAndFreeNetworkResources, StopIOContext, vars
  <1>6. SameStages /\ NoNewWs
    BY <1>0, <1>1, <1>2, <1>3, <1>4, StagesSame
  <1>7. \A c \in Conn : Op("wsDoEof", c) \in ops' => ent[c] # 0
    <2>1. CASE CloseNetworkResources
      <3>1. ASSUME NEW c \in Conn, NEW e \in Entities, c = reg[e].ws PROVE ent[c] # 0
        BY <3>1, ConnFacts DEF StreamInv, StageInv, Belongs, Entities
      <3> QED
        BY <2>1, <3>1, ItemFields DEF CloseNetworkResources, StreamInv, StageInv, Known
    <2>2. CASE ops' = ops
      BY <2>2 DEF StreamInv, StageInv, Known
    <2> QED
      BY <2>1, <2>2 DEF DoAccept, StopAcceptor, AllocateRecievedDataComponent, CheckRegistryEmpty,
         Unload, ValidateAndFreeNetworkResources, StopIOContext, vars
  <1> QED
    BY <1>2, <1>4, <1>5, <1>6, <1>7

-----------------------------------------------------------------------------
(***************************************************************************)
(* The strand of a connection after the upgrade.                           *)
(***************************************************************************)
\* Its handlers start and end others, and ask the registry to mark the entity.
LEMMA WsSteps ==
    ASSUME StreamInv, NEW c \in Conn,
           \/ WsStartAccept(c) \/ WsOnAccept(c) \/ WsOnRead(c) \/ WsSendAsync(c)
           \/ WsOnWrite(c) \/ WsOnClose(c) \/ WsPostedDoEof(c)
    PROVE  /\ UNCHANGED <<phase, acceptorOpen, ent, reg, astrand, orphans, dropped>>
           /\ \A d \in Conn, o \in PlainOp : Op(o, d) \in ops' <=> Op(o, d) \in ops
           /\ \A d \in Conn \ {c}, o \in WsOp : Op(o, d) \in ops' <=> Op(o, d) \in ops
           /\ \/ rq' = rq
              \/ \E op \in {"markUnused", "recieved"} : rq' = Append(rq, Do(op, c))
           /\ \/ /\ At("ws", c)
                 /\ reg[ent[c]].valid => reg[ent[c]].ws # 0
              \/ /\ \A o \in WsOp : Op(o, c) \in ops' <=> Op(o, c) \in ops
                 /\ rq' = rq
  <1> USE DEF WsStartAccept, WsOnAccept, WsOnRead, WsSendAsync, WsOnWrite, WsOnClose,
              WsPostedDoEof
  <1>1. UNCHANGED <<phase, acceptorOpen, ent, reg, astrand, orphans, dropped>>
    OBVIOUS
  <1>2. /\ ops' \subseteq ops \cup {Op(o, c) : o \in WsOp}
        /\ ops \ {Op(o, c) : o \in WsOp \cup {"wsDoEof"}} \subseteq ops'
    BY DEF Continue, WsOnFail, WsDoEof, WsOp
  <1>3. \A d \in Conn, o \in PlainOp : Op(o, d) \in ops' <=> Op(o, d) \in ops
    BY <1>2, ItemFields DEF PlainOp, WsOp
  <1>4. \A d \in Conn \ {c}, o \in WsOp : Op(o, d) \in ops' <=> Op(o, d) \in ops
    BY <1>2, ItemFields
  <1>5. \/ rq' = rq
        \/ \E op \in {"markUnused", "recieved"} : rq' = Append(rq, Do(op, c))
    BY DEF WsOnFail, WsDoEof, PostReg
  <1>6. \/ \E o \in WsOp : Op(o, c) \in ops
        \/ ent[c] # 0 /\ Alive("ws", c)
        \/ Op("wsDoEof", c) \in ops /\ Alive("ws", c)
        \/ ops' = ops \ {Op("wsDoEof", c)} /\ rq' = rq
    BY DEF OnStrand, WsOp, Continue
  <1>7. CASE \E o \in WsOp : Op(o, c) \in ops
    BY <1>1, <1>3, <1>4, <1>5, <1>7 DEF At, StreamInv, StageInv, WsKnown
  <1>8. CASE (ent[c] # 0 \/ Op("wsDoEof", c) \in ops) /\ Alive("ws", c)
    <2>1. reg[ent[c]].valid /\ reg[ent[c]].ws = c /\ c # 0
      BY <1>8, ConnFacts DEF Alive
    <2>2. CASE ent[c] # 0
      <3>1. ent[c] \in Conn
        BY <2>2, BoundAssumption DEF StreamInv, Inv, TypeOK, Conn
      <3> QED
        BY <1>1, <1>3, <1>4, <1>5, <2>1, <3>1 DEF At
    <2>3. CASE ent[c] = 0 /\ Op("wsDoEof", c) \in ops
      BY <2>3 DEF StreamInv, StageInv, Known
    <2> QED
      BY <1>8, <2>2, <2>3
  <1>9. CASE ops' = ops \ {Op("wsDoEof", c)} /\ rq' = rq
    <2>1. \A o \in WsOp : Op(o, c) \in ops' <=> Op(o, c) \in ops
      BY <1>9, ItemFields DEF WsOp
    <2> QED
      BY <1>1, <1>3, <1>4, <1>9, <2>1
  <1> QED
    BY <1>6, <1>7, <1>8, <1>9

\* These steps keep the invariant: the entity, if it exists, has a websocket.
LEMMA WsKeeps ==
    ASSUME StreamInv, NEW c \in Conn,
           \/ WsStartAccept(c) \/ WsOnAccept(c) \/ WsOnRead(c) \/ WsSendAsync(c)
           \/ WsOnWrite(c) \/ WsOnClose(c) \/ WsPostedDoEof(c)
    PROVE  StageInv'
  <1>1. /\ UNCHANGED <<ent, reg, astrand, dropped>>
        /\ \A d \in Conn, o \in PlainOp : Op(o, d) \in ops' <=> Op(o, d) \in ops
        /\ \A d \in Conn \ {c}, o \in WsOp : Op(o, d) \in ops' <=> Op(o, d) \in ops
        /\ \/ rq' = rq
           \/ \E op \in {"markUnused", "recieved"} : rq' = Append(rq, Do(op, c))
        /\ \/ At("ws", c) /\ (reg[ent[c]].valid => reg[ent[c]].ws # 0)
           \/ (\A o \in WsOp : Op(o, c) \in ops' <=> Op(o, c) \in ops) /\ rq' = rq
    BY WsSteps
  <1>2. /\ TypeOK /\ rq \in Seq(RegistryItem) /\ StageInv
    BY DEF StreamInv, Inv, TypeOK
  <1>3. /\ \A d \in Conn, op \in Carrier : InQueue(rq', op, d) <=> InQueue(rq, op, d)
        /\ \A d \in Conn \ {c} : InQueue(rq', "markUnused", d) <=> InQueue(rq, "markUnused", d)
        /\ \A d \in Conn, op \in Carrier : Once(rq, op, d) => Once(rq', op, d)
        /\ rq' = rq => (InQueue(rq', "markUnused", c) <=> InQueue(rq, "markUnused", c))
    <2>1. CASE rq' = rq
      BY <2>1
    <2>2. ASSUME NEW op \in {"markUnused", "recieved"}, rq' = Append(rq, Do(op, c)), rq' # rq
          PROVE  /\ \A d \in Conn, o \in Carrier : InQueue(rq', o, d) <=> InQueue(rq, o, d)
                 /\ \A d \in Conn \ {c} : InQueue(rq', "markUnused", d) <=> InQueue(rq, "markUnused", d)
                 /\ \A d \in Conn, o \in Carrier : Once(rq, o, d) => Once(rq', o, d)
      <3>0. Do("markUnused", c) \in RegistryItem /\ Do("recieved", c) \in RegistryItem
        BY ItemTypes
      <3>1. Do(op, c) \in RegistryItem /\ Do(op, c).op = op /\ Do(op, c).c = c
        BY <3>0, ItemFields
      <3>2. op \notin Carrier
        BY DEF Carrier
      <3> QED
        BY <1>2, <2>2, <3>1, <3>2, QueueStages
    <2> QED
      BY <1>1, <2>1, <2>2
  <1>4. ASSUME NEW d \in Conn, NEW s \in Stage, d # c \/ s \notin Late
        PROVE  At(s, d)' <=> At(s, d)
    <2>1. CASE s \in PlainOp
      BY <1>1, <2>1 DEF At, PlainOp, Carrier
    <2>2. CASE s \in Carrier \cup {"markUnused"}
      BY <1>3, <1>4, <2>2 DEF At, PlainOp, Carrier, Late
    <2>3. CASE s \in {"asyncAccept", "accResult", "sslResult"}
      BY <1>1, <2>3 DEF At, PlainOp, Carrier
    <2>4. CASE s = "ws"
      BY <1>1, <1>4, <2>4 DEF At, PlainOp, Carrier, Late
    <2> QED
      BY <2>1, <2>2, <2>3, <2>4 DEF Stage, Early, Detecting, Reading, Late, PlainOp, Carrier
  <1>5. CASE At("ws", c) /\ (reg[ent[c]].valid => reg[ent[c]].ws # 0)
    <2>1. Moves([x \in Stage |-> x])
      BY <1>4, <1>5 DEF Moves
    <2>2. Exclusive' /\ Fresh'
      BY <1>1, <1>2, <2>1, MovesKeep
    <2>3. Keeps
      BY <1>1, <1>4, <1>5 DEF Keeps, Released
    <2>4. AllHeld'
      BY <1>1, <1>2, <2>3, MovesHold DEF Released
    <2>5. ent[c] # 0
      BY <1>2, <1>5 DEF StageInv, Known, Stage, Late
    <2>6. \A d \in Conn : Op("wsDoEof", d) \in ops' => ent[d] # 0
      <3>1. \A d \in Conn \ {c} : Op("wsDoEof", d) \in ops' => Op("wsDoEof", d) \in ops
        BY ItemFields DEF WsStartAccept, WsOnAccept, WsOnRead, WsSendAsync, WsOnWrite, WsOnClose,
           WsPostedDoEof, Continue, WsOnFail, WsDoEof
      <3> QED
        BY <1>2, <2>5, <3>1 DEF StageInv, Known
    <2>7. Known'
      BY <1>1, <1>2, <1>4, <2>5, <2>6 DEF StageInv, Known
    <2>8. Belongs'
      BY <1>1, <1>2 DEF StageInv, Belongs
    <2>9. WsKnown'
      BY <1>1, <1>2, <1>5 DEF StageInv, WsKnown
    <2>10. OneTask'
      BY <1>2, <1>3 DEF StageInv, OneTask
    <2> QED
      BY <2>2, <2>4, <2>7, <2>8, <2>9, <2>10 DEF StageInv
  <1>6. CASE (\A o \in WsOp : Op(o, c) \in ops' <=> Op(o, c) \in ops) /\ rq' = rq
    <2>2. SameStages /\ NoNewWs
      <3>1. SameAcceptor /\ SameTasks
        BY <1>1, <1>6 DEF SameAcceptor, SameTasks
      <3>2. \A e \in Conn : reg'[e] = [reg[e] EXCEPT !.kids = reg[e].kids]
        BY <1>1, <1>2 DEF TypeOK, Entity
      <3>3. \A d \in Conn, o \in PlainOp \cup WsOp : Op(o, d) \in ops' <=> Op(o, d) \in ops
        BY <1>1, <1>6
      <3> QED
        BY <1>2, <3>1, <3>2, <3>3, StagesSame
    <2>3. \A e \in Conn : reg'[e] = [reg[e] EXCEPT !.kids = reg[e].kids]
      BY <1>1, <1>2 DEF TypeOK, Entity
    <2>4. \A d \in Conn : Op("wsDoEof", d) \in ops' => ent[d] # 0
      <3>1. ops' \subseteq ops \cup {Op(o, c) : o \in WsOp}
        BY DEF WsStartAccept, WsOnAccept, WsOnRead, WsSendAsync, WsOnWrite, WsOnClose,
           WsPostedDoEof, Continue, WsOnFail, WsDoEof, WsOp
      <3> QED
        BY <1>2, <3>1, ItemFields DEF StageInv, Known, WsOp
    <2>5. OneTask'
      BY <1>2, <1>6 DEF StageInv, OneTask
    <2> QED
      BY <1>1, <1>2, <2>2, <2>3, <2>4, <2>5, SameKeeps
  <1> QED
    BY <1>1, <1>5, <1>6

-----------------------------------------------------------------------------
(***************************************************************************)
(* The listener.                                                           *)
(***************************************************************************)
\* asyncAccept starts the accept of the only connection that waits for it, or
\* drops the entity.
LEMMA AsyncAcceptStages ==
    ASSUME StreamInv, AsyncAccept
    PROVE  /\ \E c \in Conn :
                /\ At("asyncAccept", c)
                /\ \A d \in Conn, s \in Stage :
                     At(s, d)' => (At(s, d) /\ s # "asyncAccept") \/ (d = c /\ s = "accept")
                /\ \A d \in Conn, s \in Stage : s # "asyncAccept" /\ At(s, d) => At(s, d)'
                /\ \A d \in Conn : At("asyncAccept", d) => d = c
                /\ At("accept", c)' \/ ent[c] \in dropped'
           /\ UNCHANGED <<ent, reg, rq>> /\ dropped \subseteq dropped'
           /\ \A d \in Conn, o \in WsOp \cup {"wsDoEof"} : Op(o, d) \in ops' <=> Op(o, d) \in ops
  <1>0. astrand \in Seq(AcceptorItem) /\ astrand # <<>> /\ Head(astrand).op = "asyncAccept"
        /\ astrand' = Tail(astrand)
    BY DEF StreamInv, Inv, TypeOK, AsyncAccept, OnAcceptorStrand
  <1>1. PICK c \in Conn : c = Head(astrand).c
    <2>1. Head(astrand) \in AcceptorItem
      BY <1>0, QueueType
    <2> QED
      BY <1>0, <2>1 DEF AcceptorItem
  <1>2. \A d \in Conn : InQueue(astrand, "asyncAccept", d) <=> d = c
    <2>1. \A d \in Conn : InQueue(astrand, "asyncAccept", d) =>
            \E i \in DOMAIN astrand : OnAcceptor(i) /\ astrand[i].c = d
      BY DEF InQueue, OnAcceptor
    <2>2. 1 \in DOMAIN astrand /\ OnAcceptor(1) /\ astrand[1].c = c /\ astrand[1].op = "asyncAccept"
      BY <1>0, <1>1, QueueItems DEF OnAcceptor
    <2> QED
      BY <2>1, <2>2 DEF StreamInv, Inv, OneAcceptAtATime, InQueue
  <1>3. \A d \in Conn : ~InQueue(astrand', "asyncAccept", d)
    <2>1. Once(astrand, "asyncAccept", c)
      BY DEF StreamInv, Inv, OneAcceptAtATime, OnAcceptor, Once
    <2>2. ~InQueue(Tail(astrand), "asyncAccept", c)
      BY <1>0, <1>1, <2>1, QueueStages
    <2>3. \A d \in Conn : InQueue(Tail(astrand), "asyncAccept", d) => InQueue(astrand, "asyncAccept", d)
      BY <1>0, QueueStages
    <2> QED
      BY <1>0, <1>2, <2>2, <2>3
  <1>4. /\ UNCHANGED <<ent, reg, rq>> /\ dropped \subseteq dropped'
        /\ ops' = ops \/ ops' = ops \cup {Op("accept", c)}
        /\ Op("accept", c) \in ops' \/ ent[c] \in dropped'
    BY <1>1 DEF AsyncAccept
  <1>5. \A d \in Conn : At("asyncAccept", d) <=> d = c
    BY <1>2 DEF At, PlainOp, Carrier
  <1>6. ASSUME NEW d \in Conn, NEW s \in Stage
        PROVE  /\ At(s, d)' => (At(s, d) /\ s # "asyncAccept") \/ (d = c /\ s = "accept")
               /\ s # "asyncAccept" /\ At(s, d) => At(s, d)'
    <2>1. CASE s \in PlainOp
      BY <1>4, <2>1, ItemFields DEF At, PlainOp, Carrier
    <2>2. CASE s \in Carrier \cup {"markUnused", "accResult", "sslResult"}
      BY <1>4, <2>2 DEF At, PlainOp, Carrier
    <2>3. CASE s = "asyncAccept"
      BY <1>3, <2>3 DEF At, PlainOp, Carrier
    <2>4. CASE s = "ws"
      <3>1. \A o \in WsOp : Op(o, d) \in ops' <=> Op(o, d) \in ops
        BY <1>4, ItemFields DEF WsOp
      <3> QED
        BY <1>4, <2>4, <3>1 DEF At, PlainOp, Carrier
    <2> QED
      BY <2>1, <2>2, <2>3, <2>4 DEF Stage, Early, Detecting, Reading, Late, PlainOp, Carrier
  <1>7. At("accept", c)' \/ ent[c] \in dropped'
    BY <1>4 DEF At, PlainOp, Carrier
  <1>8. \A d \in Conn, o \in WsOp \cup {"wsDoEof"} : Op(o, d) \in ops' <=> Op(o, d) \in ops
    BY <1>4, ItemFields DEF WsOp
  <1> QED
    BY <1>1, <1>4, <1>5, <1>6, <1>7, <1>8

\* That step keeps the invariant.
LEMMA AsyncAcceptKeeps ==
    ASSUME StreamInv, AsyncAccept
    PROVE  StageInv'
  <1>1. PICK c \in Conn :
          /\ At("asyncAccept", c)
          /\ \A d \in Conn, s \in Stage :
               At(s, d)' => (At(s, d) /\ s # "asyncAccept") \/ (d = c /\ s = "accept")
          /\ \A d \in Conn, s \in Stage : s # "asyncAccept" /\ At(s, d) => At(s, d)'
          /\ \A d \in Conn : At("asyncAccept", d) => d = c
          /\ At("accept", c)' \/ ent[c] \in dropped'
    BY AsyncAcceptStages
  <1>2. /\ UNCHANGED <<ent, reg, rq>> /\ dropped \subseteq dropped'
        /\ \A d \in Conn, o \in WsOp \cup {"wsDoEof"} : Op(o, d) \in ops' <=> Op(o, d) \in ops
        /\ StageInv
    BY AsyncAcceptStages DEF StreamInv
  <1>3. "asyncAccept" \in Stage /\ "accept" \in Stage /\ Leads("asyncAccept", "accept")
    BY DEF Leads, Stage, Early, Detecting, Late
  <1>4. Moves([x \in Stage |-> "accept"])
    BY <1>1, <1>3 DEF Moves
  <1>5. Exclusive' /\ Fresh'
    BY <1>2, <1>4, MovesKeep
  <1>6. Keeps
    BY <1>1, <1>2, <1>3 DEF Keeps, Released
  <1>7. AllHeld'
    BY <1>2, <1>6, MovesHold DEF Released
  <1>8. Known' /\ Belongs' /\ WsKnown' /\ OneTask'
    BY <1>1, <1>2, <1>3 DEF StageInv, Known, Belongs, WsKnown, OneTask
  <1> QED
    BY <1>5, <1>7, <1>8 DEF StageInv

\* A completion of an accept that finds the io_context stopped drops the entity.
LEMMA StoppedAcceptStages ==
    ASSUME StreamInv, NEW c \in Conn, OnAccept(c), ~IocRuns
    PROVE  /\ At("accept", c)
           /\ \A d \in Conn, s \in Stage : At(s, d)' <=> At(s, d) /\ ~(d = c /\ s = "accept")
           /\ UNCHANGED <<phase, acceptorOpen, astrand, ent, reg, rq, orphans>>
           /\ dropped' = dropped \cup {ent[c]}
           /\ ops' = ops \ {Op("accept", c)}
  <1>1. /\ UNCHANGED <<phase, acceptorOpen, astrand, ent, reg, rq, orphans>>
        /\ dropped' = dropped \cup {ent[c]}
        /\ ops' = ops \ {Op("accept", c)} /\ Op("accept", c) \in ops
    BY OnAcceptCases DEF OnAccept
  <1>2. ASSUME NEW d \in Conn, NEW s \in Stage
        PROVE  At(s, d)' <=> At(s, d) /\ ~(d = c /\ s = "accept")
    <2>1. CASE s \in PlainOp
      BY <1>1, <2>1, ItemFields DEF At, PlainOp, Carrier
    <2>2. CASE s \in Carrier \cup {"markUnused", "accResult", "sslResult", "asyncAccept"}
      BY <1>1, <2>2 DEF At, PlainOp, Carrier
    <2>3. CASE s = "ws"
      <3>1. \A o \in WsOp : Op(o, d) \in ops' <=> Op(o, d) \in ops
        BY <1>1, ItemFields DEF WsOp
      <3> QED
        BY <1>1, <2>3, <3>1 DEF At, PlainOp, Carrier
    <2> QED
      BY <2>1, <2>2, <2>3 DEF Stage, Early, Detecting, Reading, Late, PlainOp, Carrier
  <1> QED
    BY <1>1, <1>2 DEF At, PlainOp

\* That step keeps the invariant, too.
LEMMA StoppedAcceptKeeps ==
    ASSUME StreamInv, NEW c \in Conn, OnAccept(c), ~IocRuns
    PROVE  StageInv'
  <1>1. /\ \A d \in Conn, s \in Stage : At(s, d)' <=> At(s, d) /\ ~(d = c /\ s = "accept")
        /\ UNCHANGED <<ent, reg, rq>>
        /\ dropped' = dropped \cup {ent[c]}
        /\ ops' = ops \ {Op("accept", c)}
        /\ StageInv
    BY StoppedAcceptStages DEF StreamInv
  <1>2. Moves([x \in Stage |-> x])
    BY <1>1 DEF Moves
  <1>3. Exclusive' /\ Fresh'
    BY <1>1, <1>2, MovesKeep
  <1>4. Keeps
    <2> SUFFICES ASSUME NEW d \in Conn, NEW s \in Stage, At(s, d)
                 PROVE  Released(ent[d])' \/ \E t \in Stage : At(t, d)'
      BY DEF Keeps
    <2>1. CASE d = c
      BY <1>1, <2>1 DEF Released
    <2>2. CASE d # c
      BY <1>1, <2>2
    <2> QED
      BY <2>1, <2>2
  <1>5. AllHeld'
    BY <1>1, <1>4, MovesHold DEF Released
  <1>6. Known' /\ Belongs' /\ WsKnown' /\ OneTask'
    BY <1>1 DEF StageInv, Known, Belongs, WsKnown, OneTask
  <1> QED
    BY <1>3, <1>5, <1>6 DEF StageInv

-----------------------------------------------------------------------------
(***************************************************************************)
(* The tasks of the registry sequence that a strand posts.                 *)
(***************************************************************************)
\* What task op of connection c does to its entity e, if there is one: a result
\* or a websocket of c replaces another one, or the entity is marked.
TaskEffect(e, c, op) ==
    /\ \A f \in Conn \ {e} : reg'[f] = reg[f]
    /\ reg'[e].valid = reg[e].valid
    /\ reg'[e].detect = reg[e].detect /\ reg'[e].http = reg[e].http
    /\ reg'[e].kids = reg[e].kids
    /\ ~reg[e].valid => reg'[e] = reg[e]
    /\ "NeedToDestroy" \notin reg'[e].tags
    /\ "Unused" \in reg'[e].tags => "Unused" \in reg[e].tags \/ op = "markUnused"
    /\ \/ /\ reg'[e].acc = reg[e].acc
          /\ "UnusedAcceptResult" \in reg'[e].tags <=> "UnusedAcceptResult" \in reg[e].tags
       \/ op = "setAccept" /\ reg'[e].acc.c = c
    /\ \/ /\ reg'[e].ssl = reg[e].ssl
          /\ "UnusedSSLDetectResult" \in reg'[e].tags <=> "UnusedSSLDetectResult" \in reg[e].tags
       \/ op = "setSSLDetect" /\ reg'[e].ssl.c = c
    /\ reg'[e].ws = reg[e].ws \/ (op = "upgrade" /\ reg'[e].ws = c)
    /\ reg[e].valid => \/ "Unused" \in reg'[e].tags \/ reg'[e].ws # 0
                       \/ AccWaits(reg'[e], c) \/ SslWaits(reg'[e], c)

TaskStep(op, c) ==
    /\ OnRegistry(op) /\ c = Head(rq).c /\ rq' = Tail(rq)
    /\ TaskEffect(ent[c], c, op)
    /\ UNCHANGED <<phase, acceptorOpen, astrand, ent, orphans, dropped>>
    /\ \/ ops' = ops
       \/ /\ ops' = ops \cup {Op("wsStartAccept", c)} /\ op = "upgrade"
          /\ reg'[ent[c]].ws = c

\* The stage to which a task brings its connection.
AfterTask(op) == CASE op = "setAccept" -> "accResult"
                   [] op = "setSSLDetect" -> "sslResult"
                   [] op = "upgrade" -> "ws"
                   [] op = "markUnused" -> "markUnused"

\* The task that is taken belongs to a connection, which does not wait in the
\* queue for a second one that carries its stream.
LEMMA TaskTaken ==
    ASSUME StreamInv, NEW op \in Carrier \cup {"markUnused"}, OnRegistry(op), rq' = Tail(rq)
    PROVE  /\ Head(rq).c \in Conn /\ ent[Head(rq).c] \in Conn /\ At(op, Head(rq).c)
           /\ \A d \in Conn, o \in Carrier \cup {"markUnused"} :
                /\ InQueue(rq', o, d) => InQueue(rq, o, d)
                /\ InQueue(rq, o, d) => InQueue(rq', o, d) \/ (o = op /\ d = Head(rq).c)
                /\ op \in Carrier => ~InQueue(rq', op, Head(rq).c)
           /\ OneTask'
  <1>1. rq \in Seq(RegistryItem) /\ rq # <<>> /\ Head(rq).op = op /\ TypeOK /\ StageInv
    BY DEF StreamInv, Inv, TypeOK, OnRegistry
  <1>2. Head(rq) \in RegistryItem
    BY <1>1, QueueType
  <1>3. Head(rq).c \in Conn
    BY <1>1, <1>2 DEF RegistryItem, Carrier
  <1>4. At(op, Head(rq).c) /\ op \in Stage
    BY <1>1, <1>3, QueueStages DEF At, Carrier, Stage, Early, Detecting, Reading, Late
  <1>5. ent[Head(rq).c] \in Conn
    <2>1. ent[Head(rq).c] # 0
      BY <1>1, <1>3, <1>4 DEF StageInv, Known
    <2> QED
      BY <1>1, <1>3, <2>1, BoundAssumption DEF TypeOK, Conn
  <1>6. \A d \in Conn, o \in Carrier \cup {"markUnused"} :
          /\ InQueue(rq', o, d) => InQueue(rq, o, d)
          /\ InQueue(rq, o, d) => InQueue(rq', o, d) \/ (o = op /\ d = Head(rq).c)
    BY <1>1, QueueStages
  <1>7. op \in Carrier => ~InQueue(rq', op, Head(rq).c)
    BY <1>1, <1>3, QueueStages DEF StageInv, OneTask
  <1>8. OneTask'
    BY <1>1, QueueStages DEF StageInv, OneTask
  <1> QED
    BY <1>3, <1>4, <1>5, <1>6, <1>7, <1>8

\* Such a task moves only its connection.
LEMMA EffectStages ==
    ASSUME StreamInv, NEW op \in Carrier \cup {"markUnused"}, NEW c \in Conn, TaskStep(op, c)
    PROVE  \A d \in Conn, s \in Stage :
             At(s, d)' /\ ~At(s, d) => d = c /\ s = AfterTask(op) /\ op \in Carrier
  <1> USE DEF TaskStep
  <1>0. /\ TypeOK /\ StageInv /\ ent[c] \in Conn /\ At(op, c)
        /\ \A d \in Conn, o \in Carrier \cup {"markUnused"} :
             /\ InQueue(rq', o, d) => InQueue(rq, o, d)
             /\ InQueue(rq, o, d) => InQueue(rq', o, d) \/ (o = op /\ d = c)
        /\ op \in Carrier => ~InQueue(rq', op, c)
        /\ OneTask'
    BY TaskTaken DEF StreamInv, Inv
  <1>1. PICK e \in Conn : e = ent[c]
    BY <1>0
  <1>2. TaskEffect(e, c, op) /\ c # 0
    BY <1>1, ConnFacts
  <1>3. /\ \A d \in Conn, o \in PlainOp \cup {"wsDoEof"} : Op(o, d) \in ops' <=> Op(o, d) \in ops
        /\ \A d \in Conn, o \in WsOp : Op(o, d) \in ops => Op(o, d) \in ops'
        /\ \A d \in Conn, o \in WsOp :
             Op(o, d) \in ops' => Op(o, d) \in ops \/ (d = c /\ op = "upgrade" /\ reg'[e].ws = c)
    BY <1>1, ItemFields DEF PlainOp, WsOp
  <1>4. ASSUME NEW d \in Conn, NEW s \in Stage, At(s, d)', ~At(s, d)
        PROVE  d = c /\ s = AfterTask(op) /\ op \in Carrier
    <2>1. CASE s \in PlainOp
      BY <1>3, <1>4, <2>1 DEF At, PlainOp, Carrier
    <2>2. CASE s \in Carrier \cup {"markUnused"}
      BY <1>0, <1>4, <2>2 DEF At, PlainOp, Carrier
    <2>3. CASE s = "asyncAccept"
      BY <1>4, <2>3 DEF At, PlainOp, Carrier
    <2>4. CASE s = "accResult"
      <3>1. PICK f \in Conn : AccWaits(reg'[f], d) /\ ~AccWaits(reg[f], d)
        BY <1>4, <2>4 DEF At, PlainOp, Carrier
      <3>2. f = e
        BY <1>2, <3>1 DEF TaskEffect
      <3> QED
        BY <1>2, <2>4, <3>1, <3>2 DEF TaskEffect, AccWaits, AfterTask, Carrier
    <2>5. CASE s = "sslResult"
      <3>1. PICK f \in Conn : SslWaits(reg'[f], d) /\ ~SslWaits(reg[f], d)
        BY <1>4, <2>5 DEF At, PlainOp, Carrier
      <3>2. f = e
        BY <1>2, <3>1 DEF TaskEffect
      <3> QED
        BY <1>2, <2>5, <3>1, <3>2 DEF TaskEffect, SslWaits, AfterTask, Carrier
    <2>6. CASE s = "ws"
      <3>1. d = c /\ op = "upgrade"
        <4>1. CASE \E o \in WsOp : Op(o, d) \in ops'
          BY <1>3, <1>4, <2>6, <4>1 DEF At
        <4>2. ASSUME NEW f \in Conn, reg'[f].ws = d PROVE d = c /\ op = "upgrade"
          <5>1. reg[f].ws # d
            BY <1>4, <2>6 DEF At
          <5> QED
            BY <1>2, <4>2, <5>1 DEF TaskEffect
        <4> QED
          BY <1>4, <2>6, <4>1, <4>2 DEF At, PlainOp, Carrier
      <3> QED
        BY <2>6, <3>1 DEF AfterTask, Carrier
    <2> QED
      BY <2>1, <2>2, <2>3, <2>4, <2>5, <2>6
         DEF Stage, Early, Detecting, Reading, Late, PlainOp, Carrier
  <1> QED
    BY <1>4

\* It keeps the invariant.
LEMMA EffectKeeps ==
    ASSUME StreamInv, NEW op \in Carrier \cup {"markUnused"}, NEW c \in Conn, TaskStep(op, c)
    PROVE  StageInv'
  <1> USE DEF TaskStep
  <1>0. /\ TypeOK /\ StageInv /\ ent[c] \in Conn /\ At(op, c)
        /\ \A d \in Conn, o \in Carrier \cup {"markUnused"} :
             /\ InQueue(rq', o, d) => InQueue(rq, o, d)
             /\ InQueue(rq, o, d) => InQueue(rq', o, d) \/ (o = op /\ d = c)
        /\ op \in Carrier => ~InQueue(rq', op, c)
        /\ OneTask'
    BY TaskTaken DEF StreamInv, Inv
  <1>1. PICK e \in Conn : e = ent[c]
    BY <1>0
  <1>2. TaskEffect(e, c, op) /\ c # 0
    BY <1>1, ConnFacts
  <1>3. /\ \A d \in Conn, o \in PlainOp \cup {"wsDoEof"} : Op(o, d) \in ops' <=> Op(o, d) \in ops
        /\ \A d \in Conn, o \in WsOp : Op(o, d) \in ops => Op(o, d) \in ops'
        /\ \A d \in Conn, o \in WsOp :
             Op(o, d) \in ops' => Op(o, d) \in ops \/ (d = c /\ op = "upgrade" /\ reg'[e].ws = c)
    BY <1>1, ItemFields DEF PlainOp, WsOp
  <1>4. \A d \in Conn, s \in Stage :
          At(s, d)' /\ ~At(s, d) => d = c /\ s = AfterTask(op) /\ op \in Carrier
    BY EffectStages
  <1>5. Moves([x \in Stage |-> AfterTask(op)])
    <2>1. op \in Carrier => /\ op \in Stage /\ Leads(op, AfterTask(op)) /\ ~At(op, c)'
      BY <1>0 DEF Carrier, AfterTask, Leads, Stage, Early, Detecting, Reading, Late, At, PlainOp
    <2> QED
      BY <1>0, <1>4, <2>1 DEF Moves
  <1>6. Exclusive' /\ Fresh'
    <2>1. \A f \in Conn : reg'[f].detect = reg[f].detect /\ reg'[f].http = reg[f].http
      BY <1>2 DEF TaskEffect
    <2> QED
      BY <1>0, <1>5, <2>1, MovesKeep
  <1>7. Belongs'
    <2>1. ASSUME NEW f \in Conn, NEW d \in Conn,
                 d \in {reg'[f].acc.c, reg'[f].ssl.c, reg'[f].detect, reg'[f].http, reg'[f].ws}
          PROVE  \/ d \in {reg[f].acc.c, reg[f].ssl.c, reg[f].detect, reg[f].http, reg[f].ws}
                 \/ f = e /\ d = c
      BY <1>2, <2>1 DEF TaskEffect
    <2> QED
      BY <1>0, <1>1, <2>1 DEF StageInv, Belongs
  <1>8. Known'
    <2>1. \A d \in Conn, s \in Stage : At(s, d)' => ent[d] # 0
      BY <1>0, <1>4, ConnFacts DEF StageInv, Known
    <2>2. \A d \in Conn : /\ reg'[d].valid = reg[d].valid /\ "NeedToDestroy" \notin reg'[d].tags
                          /\ ~reg[d].valid => reg'[d] = reg[d]
      BY <1>0, <1>2 DEF TaskEffect, StageInv, Known
    <2> QED
      BY <1>0, <1>3, <2>1, <2>2 DEF StageInv, Known
  <1>9. WsKnown'
    <2> SUFFICES ASSUME NEW d \in Conn, NEW o \in WsOp, Op(o, d) \in ops', reg'[ent[d]].valid
                 PROVE  reg'[ent[d]].ws # 0
      BY DEF WsKnown
    <2>1. CASE Op(o, d) \in ops
      <3>1. ent[d] # 0
        BY <1>0, <2>1 DEF StageInv, Known, At, Stage, Late
      <3>2. ent[d] \in Conn
        BY <1>0, <3>1, BoundAssumption DEF TypeOK, Conn
      <3> QED
        BY <1>0, <1>2, <2>1, <3>2 DEF TaskEffect, StageInv, WsKnown
    <2> QED
      BY <1>1, <1>2, <1>3, <2>1
  <1>10. AllHeld'
    <2> SUFFICES ASSUME NEW f \in Conn, reg'[f].valid PROVE Held(f)'
      BY DEF AllHeld, Entities
    <2>1. CASE f = e
      <3>1. \/ Released(e)' \/ At("accResult", c)' \/ At("sslResult", c)'
        BY <1>2, <2>1 DEF TaskEffect, Released, At
      <3> QED
        BY <1>1, <2>1, <3>1 DEF Held, Stage, Early, Detecting
    <2>2. CASE f # e
      <3>1. reg'[f] = reg[f]
        BY <1>2, <2>2 DEF TaskEffect
      <3>2. Held(f)
        BY <1>0, <3>1 DEF StageInv, AllHeld, Entities
      <3>3. Released(f) => Released(f)'
        BY <3>1 DEF Released
      <3>4. ASSUME NEW d \in Conn, NEW s \in Stage, ent[d] = f, At(s, d) PROVE At(s, d)'
        <4>1. d # c
          BY <1>1, <2>2, <3>4
        <4>2. \A g \in Conn : d \in {reg[g].acc.c, reg[g].ssl.c, reg[g].ws} => reg'[g] = reg[g]
          BY <1>0, <3>1, <3>4 DEF StageInv, Belongs
        <4>3. CASE s \in PlainOp \cup {"asyncAccept"}
          BY <1>3, <3>4, <4>3 DEF At, PlainOp, Carrier
        <4>4. CASE s \in Carrier \cup {"markUnused"}
          BY <1>0, <3>4, <4>1, <4>4 DEF At, PlainOp, Carrier
        <4>5. CASE s \in {"accResult", "sslResult"}
          BY <3>4, <4>2, <4>5 DEF At, PlainOp, Carrier, AccWaits, SslWaits
        <4>6. CASE s = "ws"
          BY <1>3, <3>4, <4>2, <4>6 DEF At, PlainOp, Carrier
        <4> QED
          BY <4>3, <4>4, <4>5, <4>6 DEF Stage, Early, Detecting, Reading, Late, PlainOp, Carrier
      <3> QED
        BY <3>2, <3>3, <3>4 DEF Held
    <2> QED
      BY <2>1, <2>2
  <1> QED
    BY <1>0, <1>6, <1>7, <1>8, <1>9, <1>10 DEF StageInv

\* Replacing what the entity of the task holds.
LEMMA EntityReplaced ==
    ASSUME TypeOK, NEW e \in Conn, NEW r, \/ reg[e].valid /\ reg' = [reg EXCEPT ![e] = r]
                                          \/ ~reg[e].valid /\ reg' = reg
    PROVE  /\ \A f \in Conn \ {e} : reg'[f] = reg[f]
           /\ reg[e].valid => reg'[e] = r
           /\ ~reg[e].valid => reg' = reg
  BY DEF TypeOK

\* The four tasks that a strand posts are such steps.
LEMMA TaskSteps ==
    ASSUME StreamInv,
           \/ SetAcceptConnectionResult \/ SetSSLDetectResult \/ MarkUnused
           \/ HandleWebsocketUpgrade
    PROVE  \E op \in Carrier \cup {"markUnused"}, c \in Conn : TaskStep(op, c)
  <1> USE DEF Carrier
  <1>0. TypeOK /\ StageInv
    BY DEF StreamInv, Inv
  <1>1. CASE SetAcceptConnectionResult
    <2>0. OnRegistry("setAccept") /\ rq' = Tail(rq)
          /\ UNCHANGED <<phase, acceptorOpen, astrand, ent, orphans, dropped, ops>>
      BY <1>1 DEF SetAcceptConnectionResult
    <2>1. PICK c \in Conn : c = Head(rq).c /\ ent[c] \in Conn
      BY <2>0, TaskTaken
    <2>2. PICK e \in Conn : e = ent[c]
      BY <2>1
    <2>3. PICK x, r :
            /\ r = [reg[e] EXCEPT !.tags = reg[e].tags \ {"UnusedAcceptResult"}, !.acc = x]
            /\ x.c = c
            /\ \/ reg[e].valid /\ reg' = [reg EXCEPT ![e] = r]
               \/ ~reg[e].valid /\ reg' = reg
      <3> DEFINE x == [c |-> c, ec |-> Head(rq).ec, close |-> sock[c] # "open"]
                 r == [reg[e] EXCEPT !.tags = reg[e].tags \ {"UnusedAcceptResult"}, !.acc = x]
      <3>1. \/ reg[e].valid /\ reg' = [reg EXCEPT ![e] = r]
            \/ ~reg[e].valid /\ reg' = reg
        BY <1>1, <2>1, <2>2 DEF SetAcceptConnectionResult
      <3>2. x.c = c
        OBVIOUS
      <3> HIDE DEF x
      <3> QED
        BY <3>1, <3>2
    <2>4. /\ \A f \in Conn \ {e} : reg'[f] = reg[f]
          /\ reg[e].valid => reg'[e] = r
          /\ ~reg[e].valid => reg' = reg
      BY <1>0, <2>3, EntityReplaced
    <2>5. reg[e] \in Entity /\ "NeedToDestroy" \notin reg[e].tags
      BY <1>0 DEF TypeOK, StageInv, Known
    <2>6. /\ r.valid = reg[e].valid /\ r.detect = reg[e].detect /\ r.http = reg[e].http /\ r.kids = reg[e].kids
          /\ r.tags = reg[e].tags \ {"UnusedAcceptResult"} /\ r.acc.c = c
          /\ r.ssl = reg[e].ssl /\ r.ws = reg[e].ws
      BY ONLY <2>3, <2>5 DEF Entity
    <2>7. TaskEffect(e, c, "setAccept")
      BY <2>4, <2>5, <2>6 DEF TaskEffect, AccWaits
    <2> QED
      BY <2>0, <2>1, <2>2, <2>7 DEF TaskStep
  <1>2. CASE SetSSLDetectResult
    <2>0. OnRegistry("setSSLDetect") /\ rq' = Tail(rq)
          /\ UNCHANGED <<phase, acceptorOpen, astrand, ent, orphans, dropped, ops>>
      BY <1>2 DEF SetSSLDetectResult
    <2>1. PICK c \in Conn : c = Head(rq).c /\ ent[c] \in Conn
      BY <2>0, TaskTaken
    <2>2. PICK e \in Conn : e = ent[c]
      BY <2>1
    <2>3. PICK x, r :
            /\ r = [reg[e] EXCEPT !.tags = reg[e].tags \ {"UnusedSSLDetectResult"}, !.ssl = x]
            /\ x.c = c
            /\ \/ reg[e].valid /\ reg' = [reg EXCEPT ![e] = r]
               \/ ~reg[e].valid /\ reg' = reg
      <3> DEFINE x == [c |-> c, ec |-> Head(rq).ec, close |-> Head(rq).close]
                 r == [reg[e] EXCEPT !.tags = reg[e].tags \ {"UnusedSSLDetectResult"}, !.ssl = x]
      <3>1. \/ reg[e].valid /\ reg' = [reg EXCEPT ![e] = r]
            \/ ~reg[e].valid /\ reg' = reg
        BY <1>2, <2>1, <2>2 DEF SetSSLDetectResult
      <3>2. x.c = c
        OBVIOUS
      <3> HIDE DEF x
      <3> QED
        BY <3>1, <3>2
    <2>4. /\ \A f \in Conn \ {e} : reg'[f] = reg[f]
          /\ reg[e].valid => reg'[e] = r
          /\ ~reg[e].valid => reg' = reg
      BY <1>0, <2>3, EntityReplaced
    <2>5. reg[e] \in Entity /\ "NeedToDestroy" \notin reg[e].tags
      BY <1>0 DEF TypeOK, StageInv, Known
    <2>6. /\ r.valid = reg[e].valid /\ r.detect = reg[e].detect /\ r.http = reg[e].http /\ r.kids = reg[e].kids
          /\ r.tags = reg[e].tags \ {"UnusedSSLDetectResult"} /\ r.ssl.c = c
          /\ r.acc = reg[e].acc /\ r.ws = reg[e].ws
      BY ONLY <2>3, <2>5 DEF Entity
    <2>7. TaskEffect(e, c, "setSSLDetect")
      BY <2>4, <2>5, <2>6 DEF TaskEffect, SslWaits
    <2> QED
      BY <2>0, <2>1, <2>2, <2>7 DEF TaskStep
  <1>3. CASE MarkUnused
    <2>0. OnRegistry("markUnused") /\ rq' = Tail(rq)
          /\ UNCHANGED <<phase, acceptorOpen, astrand, ent, orphans, dropped, ops>>
      BY <1>3 DEF MarkUnused
    <2>1. PICK c \in Conn : c = Head(rq).c /\ ent[c] \in Conn
      BY <2>0, TaskTaken
    <2>2. PICK e \in Conn : e = ent[c]
      BY <2>1
    <2>3. PICK r :
            /\ r = [reg[e] EXCEPT !.tags = reg[e].tags \cup {"Unused"}]
            /\ \/ reg[e].valid /\ reg' = [reg EXCEPT ![e] = r]
               \/ ~reg[e].valid /\ reg' = reg
      BY <1>3, <2>1, <2>2 DEF MarkUnused
    <2>4. /\ \A f \in Conn \ {e} : reg'[f] = reg[f]
          /\ reg[e].valid => reg'[e] = r
          /\ ~reg[e].valid => reg' = reg
      BY <1>0, <2>3, EntityReplaced
    <2>5. reg[e] \in Entity /\ "NeedToDestroy" \notin reg[e].tags
      BY <1>0 DEF TypeOK, StageInv, Known
    <2>6. /\ r.valid = reg[e].valid /\ r.detect = reg[e].detect /\ r.http = reg[e].http /\ r.kids = reg[e].kids
          /\ r.tags = reg[e].tags \cup {"Unused"} /\ r.ssl = reg[e].ssl
          /\ r.acc = reg[e].acc /\ r.ws = reg[e].ws
      BY ONLY <2>3, <2>5 DEF Entity
    <2>7. TaskEffect(e, c, "markUnused")
      BY <2>4, <2>5, <2>6 DEF TaskEffect
    <2> QED
      BY <2>0, <2>1, <2>2, <2>7 DEF TaskStep
  <1>4. CASE HandleWebsocketUpgrade
    <2>0. OnRegistry("upgrade") /\ rq' = Tail(rq)
          /\ UNCHANGED <<phase, acceptorOpen, astrand, ent, orphans, dropped>>
      BY <1>4 DEF HandleWebsocketUpgrade
    <2>1. PICK c \in Conn : c = Head(rq).c /\ ent[c] \in Conn
      BY <2>0, TaskTaken
    <2>2. PICK e \in Conn : e = ent[c]
      BY <2>1
    <2>3. PICK r :
            /\ r = [reg[e] EXCEPT !.ws = c]
            /\ \/ reg[e].valid /\ reg' = [reg EXCEPT ![e] = r]
               \/ ~reg[e].valid /\ reg' = reg
      BY <1>4, <2>1, <2>2 DEF HandleWebsocketUpgrade
    <2>4. /\ \A f \in Conn \ {e} : reg'[f] = reg[f]
          /\ reg[e].valid => reg'[e] = r
          /\ ~reg[e].valid => reg' = reg
      BY <1>0, <2>3, EntityReplaced
    <2>5. reg[e] \in Entity /\ "NeedToDestroy" \notin reg[e].tags
      BY <1>0 DEF TypeOK, StageInv, Known
    <2>6. /\ r.valid = reg[e].valid /\ r.detect = reg[e].detect /\ r.http = reg[e].http /\ r.kids = reg[e].kids
          /\ r.tags = reg[e].tags /\ r.ssl = reg[e].ssl
          /\ r.acc = reg[e].acc /\ r.ws = c
      BY ONLY <2>3, <2>5 DEF Entity
    <2>7. TaskEffect(e, c, "upgrade")
      BY <2>4, <2>5, <2>6, ConnFacts DEF TaskEffect
    <2>8. \/ ops' = ops
          \/ ops' = ops \cup {Op("wsStartAccept", c)} /\ reg'[e].ws = c
      BY <1>4, <2>1, <2>2, <2>4, <2>6 DEF HandleWebsocketUpgrade
    <2> QED
      BY <2>0, <2>1, <2>2, <2>7, <2>8 DEF TaskStep
  <1> QED
    BY <1>1, <1>2, <1>3, <1>4

\* They keep the invariant.
LEMMA TasksKeep ==
    ASSUME StreamInv,
           \/ SetAcceptConnectionResult \/ SetSSLDetectResult \/ MarkUnused
           \/ HandleWebsocketUpgrade
    PROVE  StageInv'
  BY TaskSteps, EffectKeeps

\* Allocation brings a new connection to the first stage, with an entity that
\* was not there or that was marked as unused, or drops this entity.
AllocEffect(c, e) ==
    /\ c \in NextConn /\ ent[c] = 0 /\ ent' = [ent EXCEPT ![c] = e]
    /\ e = c \/ (e \in Reusable /\ reg[e].valid /\ ent[e] # 0)
    /\ \A f \in Conn \ {e} : reg'[f] = reg[f]
    /\ reg'[e].valid /\ reg'[e].tags \cap {"NeedToDestroy", "Unused"} = {}
    /\ reg'[e].acc = reg[e].acc /\ reg'[e].ssl = reg[e].ssl
    /\ reg'[e].detect = reg[e].detect /\ reg'[e].http = reg[e].http
    /\ reg'[e].ws = reg[e].ws /\ reg'[e].kids = reg[e].kids
    /\ \A x \in {"UnusedAcceptResult", "UnusedSSLDetectResult"} :
         x \in reg'[e].tags <=> x \in reg[e].tags
    /\ \/ astrand' = Append(astrand, Op("asyncAccept", c)) /\ dropped' = dropped
       \/ astrand' = astrand /\ dropped' = dropped \cup {e}
    /\ UNCHANGED phase

\* That is what allocateTcpResourceAndAccept does, unless a CHECK fails.
LEMMA AllocSteps ==
    ASSUME StreamInv, AllocateTcpResourceAndAccept
    PROVE  \/ \E c, e \in Conn : AllocEffect(c, e)
           \/ /\ \E e \in Reusable : ~ResultsProcessed(reg[e])
              /\ phase' = "aborted" /\ UNCHANGED <<ent, reg, astrand, dropped>>
  <1>0. TypeOK /\ StageInv
    BY DEF StreamInv, Inv
  <1>1. PICK c \in NextConn :
         \/ /\ ent' = [ent EXCEPT ![c] = c]
            /\ reg' = [reg EXCEPT ![c] = NewEntity]
            /\ AcceptOn(c, c)
            /\ UNCHANGED phase
         \/ \E e \in Reusable :
              /\ ent' = [ent EXCEPT ![c] = e]
              /\ reg' = [reg EXCEPT ![e] = ResetOnCacheReuse(reg[e])]
              /\ AcceptOn(c, e)
              /\ UNCHANGED phase
         \/ /\ \E e \in Reusable : ~ResultsProcessed(reg[e])
            /\ phase' = "aborted" /\ UNCHANGED <<ent, reg, astrand, dropped>>
    BY AllocCases, Zenon
  <1>2. c \in Conn /\ ent[c] = 0
    BY DEF NextConn, Allocated
  <1>3. CASE /\ ent' = [ent EXCEPT ![c] = c]
             /\ reg' = [reg EXCEPT ![c] = NewEntity]
             /\ AcceptOn(c, c)
             /\ UNCHANGED phase
    <2>0. \/ astrand' = Append(astrand, Op("asyncAccept", c)) /\ dropped' = dropped
          \/ astrand' = astrand /\ dropped' = dropped \cup {c}
      BY <1>3, AcceptOnEffect, Zenon
    <2>1. reg[c] = Absent
      BY <1>0, <1>2 DEF StageInv, Known
    <2>2. /\ NewEntity.valid /\ NewEntity.tags = {"DelayedConstruction"}
          /\ NewEntity.acc = Absent.acc /\ NewEntity.ssl = Absent.ssl /\ NewEntity.ws = Absent.ws
          /\ NewEntity.detect = Absent.detect /\ NewEntity.http = Absent.http
          /\ NewEntity.kids = Absent.kids /\ Absent.tags = {}
      BY DEF NewEntity, Absent
    <2>3. reg'[c] = NewEntity /\ \A f \in Conn \ {c} : reg'[f] = reg[f]
      BY <1>0, <1>2, <1>3 DEF TypeOK
    <2>4. AllocEffect(c, c)
      BY <1>2, <1>3, <2>0, <2>1, <2>2, <2>3 DEF AllocEffect
    <2> QED
      BY <1>2, <2>4
  <1>4. ASSUME NEW e \in Reusable, ent' = [ent EXCEPT ![c] = e],
               reg' = [reg EXCEPT ![e] = ResetOnCacheReuse(reg[e])],
               AcceptOn(c, e), UNCHANGED phase
        PROVE  \E d, f \in Conn : AllocEffect(d, f)
    <2> DEFINE r == ResetOnCacheReuse(reg[e])
    <2>0. \/ astrand' = Append(astrand, Op("asyncAccept", c)) /\ dropped' = dropped
          \/ astrand' = astrand /\ dropped' = dropped \cup {e}
      BY <1>4, AcceptOnEffect, Zenon
    <2>1. e \in Conn /\ reg[e].valid /\ "NeedToDestroy" \notin reg[e].tags /\ reg[e] \in Entity
      BY <1>0 DEF Reusable, Entities, TypeOK
    <2>2. ent[e] # 0
      BY <1>0, <2>1 DEF StageInv, Known
    <2>3. /\ r.valid = reg[e].valid /\ r.acc = reg[e].acc /\ r.ssl = reg[e].ssl
          /\ r.ws = reg[e].ws /\ r.detect = reg[e].detect /\ r.http = reg[e].http
          /\ r.kids = reg[e].kids
          /\ r.tags = (reg[e].tags \ ReuseClears) \cup {"DelayedConstruction"}
      BY ONLY <2>1 DEF Entity, ResetOnCacheReuse
    <2>4. ReuseClears \subseteq {"Unused", "JustDone"} /\ "Unused" \in ReuseClears
      BY LibraryAssumption
    <2>5. reg'[e] = r /\ \A f \in Conn \ {e} : reg'[f] = reg[f]
      BY <1>0, <1>4, <2>1 DEF TypeOK
    <2> HIDE DEF r
    <2>6. /\ r.tags \cap {"NeedToDestroy", "Unused"} = {}
          /\ \A x \in {"UnusedAcceptResult", "UnusedSSLDetectResult"} :
               x \in r.tags <=> x \in reg[e].tags
      BY <2>1, <2>3, <2>4
    <2>7. AllocEffect(c, e)
      BY <1>2, <1>4, <2>0, <2>1, <2>2, <2>3, <2>5, <2>6 DEF AllocEffect
    <2> QED
      BY <1>2, <2>1, <2>7
  <1> QED
    BY <1>1, <1>3, <1>4

\* The stages after an allocation.
LEMMA AllocStages ==
    ASSUME StreamInv, AllocateTcpResourceAndAccept, NEW c \in Conn, NEW e \in Conn,
           AllocEffect(c, e)
    PROVE  /\ \A d \in Conn, s \in Stage :
                /\ At(s, d)' => At(s, d) \/ (d = c /\ s = "asyncAccept")
                /\ At(s, d) => At(s, d)'
           /\ At("asyncAccept", c)' \/ e \in dropped'
           /\ dropped \subseteq dropped'
           /\ SameTasks /\ UNCHANGED <<acceptorOpen, ops, orphans>>
           /\ \A d \in Conn \ {c} : ent'[d] = ent[d]
           /\ ent'[c] = e
           /\ \A d \in Conn : ent[d] # 0 => ent[d] \in Conn /\ ent[d] # c
  <1>0. /\ TypeOK /\ StageInv /\ rq \in Seq(RegistryItem) /\ rq # <<>>
        /\ Head(rq).op = "alloc" /\ rq' = Tail(rq) /\ astrand \in Seq(AcceptorItem)
        /\ UNCHANGED <<acceptorOpen, ops, orphans>>
    BY DEF StreamInv, Inv, TypeOK, AllocateTcpResourceAndAccept, OnRegistry
  <1>1. SameTasks
    BY <1>0, TasksSame DEF Carrier
  <1>2. /\ \A d \in Conn \ {c} : ent'[d] = ent[d]
        /\ ent'[c] = e
    BY <1>0 DEF TypeOK, AllocEffect
  <1>3. \A f, d \in Conn : /\ AccWaits(reg'[f], d) <=> AccWaits(reg[f], d)
                           /\ SslWaits(reg'[f], d) <=> SslWaits(reg[f], d)
                           /\ reg'[f].ws = reg[f].ws
    BY DEF AccWaits, SslWaits, AllocEffect
  <1>4. /\ \A d \in Conn :
             /\ InQueue(astrand', "asyncAccept", d) => InQueue(astrand, "asyncAccept", d) \/ d = c
             /\ InQueue(astrand, "asyncAccept", d) => InQueue(astrand', "asyncAccept", d)
        /\ InQueue(astrand', "asyncAccept", c) \/ e \in dropped'
        /\ dropped \subseteq dropped'
    <2>1. CASE astrand' = Append(astrand, Op("asyncAccept", c)) /\ dropped' = dropped
      BY <1>0, <2>1, ItemTypes, ItemFields, QueueStages
    <2>2. CASE astrand' = astrand /\ dropped' = dropped \cup {e}
      BY <2>2
    <2> QED
      BY <2>1, <2>2 DEF AllocEffect
  <1>5. ASSUME NEW d \in Conn, NEW s \in Stage
        PROVE  /\ At(s, d)' => At(s, d) \/ (d = c /\ s = "asyncAccept")
               /\ At(s, d) => At(s, d)'
    <2>1. CASE s \in PlainOp
      BY <1>0, <2>1 DEF At, PlainOp, Carrier
    <2>2. CASE s \in Carrier \cup {"markUnused"}
      BY <1>1, <2>2 DEF At, PlainOp, Carrier, SameTasks
    <2>3. CASE s = "asyncAccept"
      BY <1>4, <2>3 DEF At, PlainOp, Carrier
    <2>4. CASE s \in {"accResult", "sslResult"}
      BY <1>3, <2>4 DEF At, PlainOp, Carrier
    <2>5. CASE s = "ws"
      BY <1>0, <1>3, <2>5 DEF At, PlainOp, Carrier
    <2> QED
      BY <2>1, <2>2, <2>3, <2>4, <2>5
         DEF Stage, Early, Detecting, Reading, Late, PlainOp, Carrier
  <1>6. \A d \in Conn : ent[d] # 0 => ent[d] \in Conn /\ ent[d] # c
    BY <1>0, BoundAssumption DEF TypeOK, Conn, StageInv, Known, AllocEffect
  <1>7. At("asyncAccept", c)' \/ e \in dropped'
    BY <1>4 DEF At
  <1> QED
    BY <1>0, <1>1, <1>2, <1>4, <1>5, <1>6, <1>7

\* Allocation keeps the invariant.
LEMMA AllocKeeps ==
    ASSUME StreamInv, AllocateTcpResourceAndAccept
    PROVE  StageInv'
  <1>0. /\ TypeOK /\ StageInv /\ rq \in Seq(RegistryItem) /\ rq # <<>>
        /\ Head(rq).op = "alloc" /\ rq' = Tail(rq)
        /\ UNCHANGED ops
    BY DEF StreamInv, Inv, TypeOK, AllocateTcpResourceAndAccept, OnRegistry
  <1>1. SameTasks
    BY <1>0, TasksSame DEF Carrier
  <1>2. OneTask'
    BY <1>0, <1>1 DEF StageInv, OneTask, SameTasks
  <1>3. CASE UNCHANGED <<ent, reg, astrand, dropped>>
    <2>1. \A e \in Conn : reg'[e] = [reg[e] EXCEPT !.kids = reg[e].kids]
      BY <1>0, <1>3 DEF TypeOK, Entity
    <2>2. SameStages /\ NoNewWs
      BY <1>0, <1>1, <1>3, <2>1, StagesSame DEF SameAcceptor
    <2>3. \A c \in Conn : Op("wsDoEof", c) \in ops' => ent[c] # 0
      BY <1>0 DEF StageInv, Known
    <2> QED
      BY <1>0, <1>2, <1>3, <2>1, <2>2, <2>3, SameKeeps
  <1>4. ASSUME NEW c \in Conn, NEW e \in Conn, AllocEffect(c, e)
        PROVE  StageInv'
    <2>1. /\ \A f \in Conn \ {e} : reg'[f] = reg[f]
          /\ reg'[e].valid /\ ent[c] = 0 /\ (e = c \/ (reg[e].valid /\ ent[e] # 0))
          /\ \A d \in Conn \ {c} : ent'[d] = ent[d]
          /\ ent'[c] = e /\ e # 0
      BY <1>4, AllocStages, ConnFacts DEF AllocEffect
    <2>2. \A f \in Conn : /\ reg'[f].acc = reg[f].acc /\ reg'[f].ssl = reg[f].ssl
                          /\ reg'[f].ws = reg[f].ws
                          /\ reg'[f].detect = reg[f].detect /\ reg'[f].http = reg[f].http
                          /\ "NeedToDestroy" \notin reg'[f].tags
      BY <1>0, <1>4 DEF StageInv, Known, AllocEffect
    <2>5. /\ \A d \in Conn, s \in Stage :
               /\ At(s, d)' => At(s, d) \/ (d = c /\ s = "asyncAccept")
               /\ At(s, d) => At(s, d)'
          /\ At("asyncAccept", c)' \/ e \in dropped'
          /\ dropped \subseteq dropped'
      BY <1>4, AllocStages
    <2>6. Exclusive' /\ Fresh'
      <3>1. Moves([x \in Stage |-> x])
        BY <2>1, <2>5 DEF Moves
      <3> QED
        BY <1>0, <2>2, <3>1, MovesKeep
    <2>7. \A d \in Conn : ent[d] # 0 => /\ d # c /\ ent'[d] = ent[d] /\ ent[d] \in Conn
                                        /\ ent[ent[d]] # 0
      <3>1. \A d \in Conn : ent[d] # 0 => ent[d] \in Conn
        BY <1>4, AllocStages
      <3>2. \A d \in Conn : ent[d] # 0 => ent[ent[d]] # 0
        BY <1>0 DEF StageInv, Known
      <3> QED
        BY <2>1, <3>1, <3>2
    <2>8. Known'
      <3>1. \A d \in Conn : reg'[d].valid => ent'[d] # 0
        BY <1>0, <2>1, <2>7 DEF StageInv, Known
      <3>2. \A d \in Conn : ~reg'[d].valid => reg'[d] = Absent
        BY <1>0, <2>1 DEF StageInv, Known
      <3>3. \A d \in Conn : ent'[d] # 0 => ent'[ent'[d]] # 0
        BY <2>1, <2>7
      <3>4. \A d \in Conn : /\ \A s \in Stage : At(s, d)' => ent'[d] # 0
                            /\ Op("wsDoEof", d) \in ops' => ent'[d] # 0
        BY <1>0, <2>1, <2>5, <2>7 DEF StageInv, Known
      <3> QED
        BY <2>2, <3>1, <3>2, <3>3, <3>4 DEF Known
    <2>9. Belongs'
      <3>1. \A f, d \in Conn :
              d \in {reg'[f].acc.c, reg'[f].ssl.c, reg'[f].detect, reg'[f].http, reg'[f].ws} =>
                ent[d] = f
        BY <1>0, <2>2 DEF StageInv, Belongs
      <3>2. \A f, d \in Conn : ent[d] = f => ent'[d] = f
        BY <2>7, ConnFacts
      <3> QED
        BY <3>1, <3>2, Zenon DEF Belongs
    <2>10. WsKnown'
      <3> SUFFICES ASSUME NEW d \in Conn, NEW o \in WsOp, Op(o, d) \in ops', reg'[ent'[d]].valid
                   PROVE  reg'[ent'[d]].ws # 0
        BY DEF WsKnown
      <3>1. Op(o, d) \in ops /\ ent[d] # 0
        BY <1>0 DEF StageInv, Known, At, Stage, Late
      <3>2. ent'[d] = ent[d] /\ ent[d] \in Conn /\ ent[d] # c
        BY <2>1, <2>7, <3>1
      <3>3. reg[ent[d]].valid
        BY <2>1, <3>2
      <3> QED
        BY <1>0, <2>2, <3>1, <3>2, <3>3 DEF StageInv, WsKnown
    <2>11. AllHeld'
      <3> SUFFICES ASSUME NEW f \in Conn, reg'[f].valid PROVE Held(f)'
        BY DEF AllHeld, Entities
      <3>1. CASE f = e
        BY <2>1, <2>5, <3>1 DEF Held, Released, Stage, Early
      <3>2. CASE f # e
        <4>1. reg'[f] = reg[f]
          BY <2>1, <3>2
        <4>2. Held(f)
          BY <1>0, <4>1 DEF StageInv, AllHeld, Entities
        <4>3. Released(f) => Released(f)'
          BY <2>5, <4>1 DEF Released
        <4> QED
          BY <2>5, <2>7, <4>2, <4>3, ConnFacts DEF Held
      <3> QED
        BY <3>1, <3>2
    <2> QED
      BY <1>2, <2>6, <2>8, <2>9, <2>10, <2>11 DEF StageInv
  <1> QED
    BY <1>3, <1>4, AllocSteps

-----------------------------------------------------------------------------
(***************************************************************************)
(* A pass of the systems.                                                  *)
(***************************************************************************)
\* What the systems make of entity r before the cleanup (s) and after it (p): a
\* result that waits is handled, which creates a channel or marks the entity,
\* and a marked entity is destroyed.
PassEffect(r, s, p) ==
    /\ s.detect = r.detect \/ (s.detect = r.acc.c /\ AccWaits(r, r.acc.c) /\ r.acc # None)
    /\ s.http = r.http \/ (s.http = r.ssl.c /\ SslWaits(r, r.ssl.c) /\ r.ssl # None)
    /\ p # Absent =>
         /\ p.valid = r.valid /\ p.acc = r.acc /\ p.ssl = r.ssl /\ p.ws = r.ws
         /\ p.detect = s.detect /\ p.http = s.http
         /\ "NeedToDestroy" \notin p.tags /\ "Unused" \notin r.tags /\ "Unused" \notin p.tags
         /\ "UnusedAcceptResult" \in r.tags => "UnusedAcceptResult" \in p.tags
         /\ "UnusedSSLDetectResult" \in r.tags => "UnusedSSLDetectResult" \in p.tags
         /\ s.detect # r.detect => "UnusedAcceptResult" \in p.tags
         /\ s.http # r.http => "UnusedSSLDetectResult" \in p.tags
         /\ "UnusedAcceptResult" \in p.tags =>
              "UnusedAcceptResult" \in r.tags \/ s.detect = r.acc.c
         /\ "UnusedSSLDetectResult" \in p.tags =>
              "UnusedSSLDetectResult" \in r.tags \/ s.http = r.ssl.c
    /\ r = Absent => s = r /\ p = r

\* The systems do that.
LEMMA PassFacts ==
    ASSUME NEW r \in Entity, "NeedToDestroy" \notin r.tags
    PROVE  PassEffect(r, AfterResults(r), UpdatePass(r))
  <1> DEFINE r1 == UpdateNewConnections(r)
             r2 == UpdateSSLDetection(r1)
             r3 == UpdateUnusedChildList(r2)
             r4 == UpdateDelayedConstructionJustDone(r3)
             r5 == UpdateDelayedConstruction(r4)
             r6 == UpdateUnusedSystem(r5)
  <1>1. /\ r1 \in Entity
        /\ r1.valid = r.valid /\ r1.acc = r.acc /\ r1.ssl = r.ssl /\ r1.ws = r.ws
        /\ r1.http = r.http /\ r.tags \subseteq r1.tags
        /\ r1.tags \subseteq r.tags \cup {"Unused", "UnusedAcceptResult"}
        /\ r1.detect # r.detect =>
             /\ r1.detect = r.acc.c /\ r.acc # None
             /\ "UnusedAcceptResult" \notin r.tags /\ "UnusedAcceptResult" \in r1.tags
        /\ "UnusedAcceptResult" \in r1.tags =>
             "UnusedAcceptResult" \in r.tags \/ r1.detect = r.acc.c \/ "Unused" \in r1.tags
        /\ ~r.valid => r1 = r
    BY ConnFacts DEF Entity, UpdateNewConnections, HandleAcceptResult, NewAccept, Visible,
       AddTag, Result, Tag
  <1> HIDE DEF r1
  <1>2. /\ r2 \in Entity
        /\ r2.valid = r1.valid /\ r2.acc = r1.acc /\ r2.ssl = r1.ssl /\ r2.ws = r1.ws
        /\ r2.detect = r1.detect /\ r1.tags \subseteq r2.tags
        /\ r2.tags \subseteq r1.tags \cup {"Unused", "UnusedSSLDetectResult"}
        /\ r2.http # r1.http =>
             /\ r2.http = r1.ssl.c /\ r1.ssl # None
             /\ "UnusedSSLDetectResult" \notin r1.tags /\ "UnusedSSLDetectResult" \in r2.tags
        /\ "UnusedSSLDetectResult" \in r2.tags =>
             "UnusedSSLDetectResult" \in r1.tags \/ r2.http = r1.ssl.c \/ "Unused" \in r2.tags
        /\ ~r1.valid => r2 = r1
    BY <1>1, ConnFacts DEF Entity, UpdateSSLDetection, HandleSSLDetectResult, NewSSLDetect, Visible,
       AddTag, Result, Tag
  <1> HIDE DEF r2
  <1>3. /\ r3 \in Entity /\ r3.valid = r2.valid /\ r3.acc = r2.acc /\ r3.ssl = r2.ssl
        /\ r3.ws = r2.ws /\ r3.detect = r2.detect /\ r3.http = r2.http /\ r3.tags = r2.tags
        /\ r2.tags = {} => r3 = r2
    BY <1>2 DEF Entity, UpdateUnusedChildList
  <1> HIDE DEF r3
  <1>4. /\ r4 \in Entity /\ r4.valid = r3.valid /\ r4.acc = r3.acc /\ r4.ssl = r3.ssl
        /\ r4.ws = r3.ws /\ r4.detect = r3.detect /\ r4.http = r3.http
        /\ r4.tags = r3.tags \ {"JustDone"} \/ r4.tags = r3.tags
        /\ r3.tags = {} => r4 = r3
    BY <1>3 DEF Entity, UpdateDelayedConstructionJustDone
  <1> HIDE DEF r4
  <1>5. /\ r5 \in Entity /\ r5.valid = r4.valid /\ r5.acc = r4.acc /\ r5.ssl = r4.ssl
        /\ r5.ws = r4.ws /\ r5.detect = r4.detect /\ r5.http = r4.http
        /\ \/ r5.tags = (r4.tags \ {"DelayedConstruction"}) \cup {"JustDone"}
           \/ r5.tags = r4.tags
        /\ r4.tags = {} => r5 = r4
    BY <1>4 DEF Entity, UpdateDelayedConstruction, Tag
  <1> HIDE DEF r5
  <1>6. /\ "Unused" \notin r5.tags => r6 = r5
        /\ "Unused" \in r5.tags => "NeedToDestroy" \in r6.tags
    BY <1>5 DEF Entity, UpdateUnusedSystem, AddTag
  <1> HIDE DEF r6
  <1>7. AfterResults(r) = r2 /\ UpdatePass(r) = UpdateCleanupSystem(r6)
    BY DEF AfterResults, BeforeCleanup, UpdatePass, r1, r2, r3, r4, r5, r6
  <1>8. "NeedToDestroy" \notin r5.tags
    BY <1>1, <1>2, <1>3, <1>4, <1>5
  <1>9. \A x \in {"Unused", "UnusedAcceptResult", "UnusedSSLDetectResult"} : x \in r5.tags <=> x \in r2.tags
    BY <1>3, <1>4, <1>5
  <1>10. UpdatePass(r) = IF "Unused" \in r2.tags THEN Absent ELSE r5
    BY <1>6, <1>7, <1>8, <1>9 DEF UpdateCleanupSystem
  <1>11. r = Absent => r2 = r /\ UpdatePass(r) = r
    <2>1. Absent.valid = FALSE /\ Absent.tags = {}
      BY DEF Absent
    <2> QED
      BY <1>1, <1>2, <1>3, <1>4, <1>5, <1>10, <2>1
  <1>12. /\ r2.detect = r.detect \/ (r2.detect = r.acc.c /\ AccWaits(r, r.acc.c) /\ r.acc # None)
         /\ r2.http = r.http \/ (r2.http = r.ssl.c /\ SslWaits(r, r.ssl.c) /\ r.ssl # None)
    BY <1>1, <1>2 DEF AccWaits, SslWaits
  <1>13. CASE UpdatePass(r) # Absent
    <2>1. UpdatePass(r) = r5 /\ "Unused" \notin r2.tags
      BY <1>10, <1>13
    <2>2. /\ r5.valid = r.valid /\ r5.acc = r.acc /\ r5.ssl = r.ssl /\ r5.ws = r.ws
          /\ r5.detect = r2.detect /\ r5.http = r2.http
      BY <1>1, <1>2, <1>3, <1>4, <1>5
    <2>3. /\ "NeedToDestroy" \notin r5.tags /\ "Unused" \notin r.tags /\ "Unused" \notin r5.tags
          /\ "UnusedAcceptResult" \in r.tags => "UnusedAcceptResult" \in r5.tags
          /\ "UnusedSSLDetectResult" \in r.tags => "UnusedSSLDetectResult" \in r5.tags
          /\ r2.detect # r.detect => "UnusedAcceptResult" \in r5.tags
          /\ r2.http # r.http => "UnusedSSLDetectResult" \in r5.tags
      BY <1>1, <1>2, <1>8, <1>9, <2>1
    <2>4. /\ "UnusedAcceptResult" \in r5.tags =>
               "UnusedAcceptResult" \in r.tags \/ r2.detect = r.acc.c
          /\ "UnusedSSLDetectResult" \in r5.tags =>
               "UnusedSSLDetectResult" \in r.tags \/ r2.http = r.ssl.c
      BY <1>1, <1>2, <1>9, <2>1
    <2> QED
      BY <1>7, <1>11, <1>12, <2>1, <2>2, <2>3, <2>4 DEF PassEffect
  <1> QED
    BY <1>7, <1>11, <1>12, <1>13 DEF PassEffect

\* What a pass does to the registry and to the strands.
LEMMA UpdateFacts ==
    ASSUME StreamInv, Update
    PROVE  /\ \A e \in Conn : PassEffect(reg[e], AfterResults(reg[e]), reg'[e])
           /\ \A d \in Conn, o \in StrandOp \ {"runDetector", "httpDoRead"} :
                Op(o, d) \in ops' <=> Op(o, d) \in ops
           /\ ops \subseteq ops'
           /\ \A d \in Conn : Op("runDetector", d) \in ops' /\ Op("runDetector", d) \notin ops =>
                \E e \in Conn : /\ AccWaits(reg[e], d)
                                /\ reg'[e] # Absent => "UnusedAcceptResult" \in reg'[e].tags
           /\ \A d \in Conn : Op("httpDoRead", d) \in ops' /\ Op("httpDoRead", d) \notin ops =>
                \E e \in Conn : /\ SslWaits(reg[e], d)
                                /\ reg'[e] # Absent => "UnusedSSLDetectResult" \in reg'[e].tags
           /\ \A e \in Conn : reg'[e] # Absent =>
                /\ reg'[e].detect # reg[e].detect => Op("runDetector", reg'[e].detect) \in ops'
                /\ reg'[e].http # reg[e].http => Op("httpDoRead", reg'[e].http) \in ops'
           /\ UNCHANGED <<phase, acceptorOpen, astrand, rq, ent, dropped>>
  <1>0. TypeOK /\ StageInv
    BY DEF StreamInv, Inv
  <1> DEFINE S(e) == AfterResults(reg[e])
  <1>1. ASSUME NEW e \in Conn PROVE PassEffect(reg[e], S(e), reg'[e])
    <2>1. reg[e] \in Entity /\ "NeedToDestroy" \notin reg[e].tags
      BY <1>0 DEF TypeOK, StageInv, Known
    <2>2. reg'[e] = UpdatePass(reg[e])
      BY DEF Update
    <2> QED
      BY <2>1, <2>2, PassFacts
  <1>2. ops' = ops \cup UNION {PostedByPass(e) : e \in Entities}
    BY DEF Update
  <1>3. \A e : PostedByPass(e) =
          (IF S(e).detect # reg[e].detect THEN {Op("runDetector", S(e).detect)} ELSE {})
            \cup (IF S(e).http # reg[e].http THEN {Op("httpDoRead", S(e).http)} ELSE {})
    BY DEF PostedByPass
  <1> HIDE DEF S
  <1>4. \A d \in Conn, o \in StrandOp \ {"runDetector", "httpDoRead"} :
          Op(o, d) \in ops' <=> Op(o, d) \in ops
    BY <1>2, <1>3, ItemFields
  <1>5. ASSUME NEW d \in Conn, Op("runDetector", d) \in ops', Op("runDetector", d) \notin ops
        PROVE  \E e \in Conn : /\ AccWaits(reg[e], d)
                               /\ reg'[e] # Absent => "UnusedAcceptResult" \in reg'[e].tags
    <2>1. PICK e \in Entities : Op("runDetector", d) \in PostedByPass(e)
      BY <1>2, <1>5
    <2>2. S(e).detect # reg[e].detect /\ d = S(e).detect /\ e \in Conn
      BY <1>3, <2>1, ItemFields DEF Entities
    <2> QED
      BY <1>1, <2>2 DEF PassEffect
  <1>6. ASSUME NEW d \in Conn, Op("httpDoRead", d) \in ops', Op("httpDoRead", d) \notin ops
        PROVE  \E e \in Conn : /\ SslWaits(reg[e], d)
                               /\ reg'[e] # Absent => "UnusedSSLDetectResult" \in reg'[e].tags
    <2>1. PICK e \in Entities : Op("httpDoRead", d) \in PostedByPass(e)
      BY <1>2, <1>6
    <2>2. S(e).http # reg[e].http /\ d = S(e).http /\ e \in Conn
      BY <1>3, <2>1, ItemFields DEF Entities
    <2> QED
      BY <1>1, <2>2 DEF PassEffect
  <1>7. ASSUME NEW e \in Conn, reg'[e] # Absent
        PROVE  /\ reg'[e].detect # reg[e].detect => Op("runDetector", reg'[e].detect) \in ops'
               /\ reg'[e].http # reg[e].http => Op("httpDoRead", reg'[e].http) \in ops'
    <2>1. reg'[e].detect = S(e).detect /\ reg'[e].http = S(e).http
      BY <1>1, <1>7 DEF PassEffect
    <2>2. e \in Entities
      BY <1>0, <1>1, <1>7 DEF Entities, StageInv, Known, PassEffect
    <2> QED
      BY <1>2, <1>3, <2>1, <2>2
  <1>8. UNCHANGED <<phase, acceptorOpen, astrand, rq, ent, dropped>> /\ ops \subseteq ops'
    BY <1>2 DEF Update
  <1> QED
    BY <1>1, <1>4, <1>5, <1>6, <1>7, <1>8 DEF S

\* A pass moves connections from their results to the channels.
LEMMA UpdateMoves ==
    ASSUME StreamInv, Update
    PROVE  /\ \A d \in Conn, s \in Stage : At(s, d)' =>
                \/ At(s, d)
                \/ s = "runDetector" /\ At("accResult", d) /\ ~At("accResult", d)'
                \/ s = "httpDoRead" /\ At("sslResult", d) /\ ~At("sslResult", d)'
           /\ \A d \in Conn, s \in Stage : At(s, d) /\ reg'[ent[d]].valid => \E t \in Stage : At(t, d)'
  <1>0. TypeOK /\ StageInv
    BY DEF StreamInv, Inv
  <1>1. /\ \A d \in Conn, o \in PlainOp \ {"runDetector", "httpDoRead"} :
             Op(o, d) \in ops' <=> Op(o, d) \in ops
        /\ \A d \in Conn, o \in WsOp : Op(o, d) \in ops' <=> Op(o, d) \in ops
        /\ ops \subseteq ops'
        /\ UNCHANGED <<astrand, rq, ent, dropped>>
    BY UpdateFacts DEF PlainOp, WsOp, StrandOp
  <1>2. \A e \in Conn : PassEffect(reg[e], AfterResults(reg[e]), reg'[e])
    BY UpdateFacts
  <1>3. \A e \in Conn : reg'[e] = Absent \/ reg'[e] # Absent
    OBVIOUS
  <1>4. /\ Absent.acc.c = 0 /\ Absent.ssl.c = 0 /\ Absent.detect = 0 /\ Absent.http = 0
        /\ Absent.ws = 0 /\ Absent.valid = FALSE
    BY DEF Absent, None
  <1>5. ASSUME NEW d \in Conn, NEW e \in Conn
        PROVE  /\ AccWaits(reg'[e], d) => AccWaits(reg[e], d)
               /\ SslWaits(reg'[e], d) => SslWaits(reg[e], d)
               /\ reg'[e].ws = d => reg[e].ws = d
    <2>1. d # 0
      BY ConnFacts
    <2> QED
      BY <1>2, <1>4, <2>1 DEF PassEffect, AccWaits, SslWaits
  <1>6. \A e, d \in Conn : AccWaits(reg[e], d) \/ SslWaits(reg[e], d) \/ reg[e].ws = d => ent[d] = e
    BY <1>0 DEF StageInv, Belongs, AccWaits, SslWaits
  <1>7. ASSUME NEW d \in Conn, Op("runDetector", d) \in ops', Op("runDetector", d) \notin ops
        PROVE  At("accResult", d) /\ ~At("accResult", d)'
    <2>1. PICK e \in Conn : /\ reg'[e] # Absent => "UnusedAcceptResult" \in reg'[e].tags
                            /\ AccWaits(reg[e], d)
      BY <1>7, UpdateFacts
    <2>2. ~AccWaits(reg'[e], d)
      BY <1>4, <2>1, ConnFacts DEF AccWaits
    <2>3. \A f \in Conn : ~AccWaits(reg'[f], d)
      BY <1>5, <1>6, <2>1, <2>2
    <2> QED
      BY <2>1, <2>3 DEF At, PlainOp, Carrier
  <1>8. ASSUME NEW d \in Conn, Op("httpDoRead", d) \in ops', Op("httpDoRead", d) \notin ops
        PROVE  At("sslResult", d) /\ ~At("sslResult", d)'
    <2>1. PICK e \in Conn : /\ reg'[e] # Absent => "UnusedSSLDetectResult" \in reg'[e].tags
                            /\ SslWaits(reg[e], d)
      BY <1>8, UpdateFacts
    <2>2. ~SslWaits(reg'[e], d)
      BY <1>4, <2>1, ConnFacts DEF SslWaits
    <2>3. \A f \in Conn : ~SslWaits(reg'[f], d)
      BY <1>5, <1>6, <2>1, <2>2
    <2> QED
      BY <2>1, <2>3 DEF At, PlainOp, Carrier
  <1>9. ASSUME NEW d \in Conn, NEW s \in Stage, At(s, d)', ~At(s, d)
        PROVE  \/ s = "runDetector" /\ At("accResult", d) /\ ~At("accResult", d)'
               \/ s = "httpDoRead" /\ At("sslResult", d) /\ ~At("sslResult", d)'
    <2>1. CASE s \in PlainOp
      <3>1. Op(s, d) \in ops' /\ Op(s, d) \notin ops
        BY <1>9, <2>1 DEF At, PlainOp, Carrier
      <3> QED
        BY <1>1, <1>7, <1>8, <2>1, <3>1
    <2>2. CASE s \in Carrier \cup {"markUnused", "asyncAccept"}
      BY <1>1, <1>9, <2>2 DEF At, PlainOp, Carrier
    <2>3. CASE s \in {"accResult", "sslResult"}
      BY <1>5, <1>9, <2>3 DEF At, PlainOp, Carrier
    <2>4. CASE s = "ws"
      BY <1>1, <1>5, <1>9, <2>4 DEF At, PlainOp, Carrier
    <2> QED
      BY <2>1, <2>2, <2>3, <2>4 DEF Stage, Early, Detecting, Reading, Late, PlainOp, Carrier
  <1>10. ASSUME NEW d \in Conn, NEW s \in Stage, At(s, d), reg'[ent[d]].valid
         PROVE  \E t \in Stage : At(t, d)'
    <2>1. CASE s \in PlainOp \cup Carrier \cup {"markUnused", "asyncAccept"}
      <3>1. At(s, d)'
        BY <1>1, <1>10, <2>1 DEF At, PlainOp, Carrier
      <3> QED
        BY <3>1
    <2>2. CASE s = "accResult"
      <3>1. PICK e \in Conn : AccWaits(reg[e], d)
        BY <1>10, <2>2 DEF At, PlainOp, Carrier
      <3>2. ent[d] = e /\ reg'[e] # Absent /\ reg[e].acc.c = d
        BY <1>4, <1>6, <1>10, <3>1 DEF AccWaits
      <3>3. CASE AccWaits(reg'[e], d)
        BY <3>3 DEF At, Stage, Early
      <3>4. CASE ~AccWaits(reg'[e], d)
        <4>1. reg'[e].detect = d
          BY <1>2, <3>1, <3>2, <3>4 DEF PassEffect, AccWaits
        <4>2. reg[e].detect # d
          BY <1>0, <1>10, <2>2 DEF StageInv, Fresh, Early
        <4>3. Op("runDetector", d) \in ops'
          BY <3>2, <4>1, <4>2, UpdateFacts
        <4>4. At("runDetector", d)'
          BY <4>3 DEF At, PlainOp
        <4> QED
          BY <4>4 DEF Stage, Detecting
      <3> QED
        BY <3>3, <3>4
    <2>3. CASE s = "sslResult"
      <3>1. PICK e \in Conn : SslWaits(reg[e], d)
        BY <1>10, <2>3 DEF At, PlainOp, Carrier
      <3>2. ent[d] = e /\ reg'[e] # Absent /\ reg[e].ssl.c = d
        BY <1>4, <1>6, <1>10, <3>1 DEF SslWaits
      <3>3. CASE SslWaits(reg'[e], d)
        BY <3>3 DEF At, Stage, Detecting
      <3>4. CASE ~SslWaits(reg'[e], d)
        <4>1. reg'[e].http = d
          BY <1>2, <3>1, <3>2, <3>4 DEF PassEffect, SslWaits
        <4>2. reg[e].http # d
          BY <1>0, <1>10, <2>3 DEF StageInv, Fresh, Detecting
        <4>3. Op("httpDoRead", d) \in ops'
          BY <3>2, <4>1, <4>2, UpdateFacts
        <4>4. At("httpDoRead", d)'
          BY <4>3 DEF At, PlainOp
        <4> QED
          BY <4>4 DEF Stage, Reading
      <3> QED
        BY <3>3, <3>4
    <2>4. CASE s = "ws"
      <3>1. CASE \E o \in WsOp : Op(o, d) \in ops
        BY <1>1, <2>4, <3>1 DEF At, Stage, Late
      <3>2. ASSUME NEW e \in Conn, reg[e].ws = d PROVE At("ws", d)'
        <4>1. ent[d] = e /\ reg'[e] # Absent
          BY <1>4, <1>6, <1>10, <3>2
        <4> QED
          BY <1>2, <3>2, <4>1 DEF PassEffect, At
      <3> QED
        BY <1>10, <2>4, <3>1, <3>2 DEF At, PlainOp, Carrier, Stage, Late
    <2> QED
      BY <2>1, <2>2, <2>3, <2>4 DEF Stage, Early, Detecting, Reading, Late, PlainOp, Carrier
  <1> QED
    BY <1>9, <1>10

\* A pass keeps the invariant.
LEMMA UpdateKeeps ==
    ASSUME StreamInv, Update
    PROVE  StageInv'
  <1>0. TypeOK /\ StageInv
    BY DEF StreamInv, Inv
  <1>1. /\ \A d \in Conn, s \in Stage : At(s, d)' =>
             \/ At(s, d)
             \/ s = "runDetector" /\ At("accResult", d) /\ ~At("accResult", d)'
             \/ s = "httpDoRead" /\ At("sslResult", d) /\ ~At("sslResult", d)'
        /\ \A d \in Conn, s \in Stage : At(s, d) /\ reg'[ent[d]].valid => \E t \in Stage : At(t, d)'
    BY UpdateMoves
  <1>2. \A e \in Conn : PassEffect(reg[e], AfterResults(reg[e]), reg'[e])
    BY UpdateFacts
  <1>3. /\ UNCHANGED <<astrand, rq, ent, dropped>>
        /\ \A d \in Conn, o \in WsOp \cup {"wsDoEof"} : Op(o, d) \in ops' <=> Op(o, d) \in ops
    BY UpdateFacts DEF WsOp, StrandOp
  <1>4. /\ Absent.acc.c = 0 /\ Absent.ssl.c = 0 /\ Absent.detect = 0 /\ Absent.http = 0
        /\ Absent.ws = 0 /\ Absent.valid = FALSE /\ Absent.tags = {}
    BY DEF Absent, None
  <1>5. "accResult" \in Stage /\ "sslResult" \in Stage /\ "accResult" \in Early
        /\ "sslResult" \in Detecting /\ "runDetector" \in Detecting /\ "httpDoRead" \in Reading
        /\ Early \cap Late = {} /\ Detecting \cap Late = {} /\ Early \cap Detecting = {}
        /\ (Early \cup Detecting) \cap Reading = {}
    BY DEF Stage, Early, Detecting, Reading, Late
  <1>6. Exclusive'
    <2> DEFINE nxt == [x \in Stage |-> IF x = "accResult" THEN "runDetector" ELSE "httpDoRead"]
    <2>1. nxt["accResult"] = "runDetector" /\ nxt["sslResult"] = "httpDoRead"
      BY <1>5
    <2>2. Leads("accResult", "runDetector") /\ Leads("sslResult", "httpDoRead")
      BY DEF Leads, Stage, Early, Detecting, Reading, Late
    <2> HIDE DEF nxt
    <2>3. Moves(nxt)
      BY <1>1, <1>5, <2>1, <2>2 DEF Moves
    <2> QED
      BY <1>0, <2>3, MovesKeep
  <1>7. ASSUME NEW e \in Conn, NEW d \in Conn
        PROVE  /\ reg'[e].detect = d => \/ reg[e].detect = d
                                        \/ At("accResult", d) /\ ~At("accResult", d)'
               /\ reg'[e].http = d => \/ reg[e].http = d
                                      \/ At("sslResult", d) /\ ~At("sslResult", d)'
    <2>0. d # 0
      BY ConnFacts
    <2>1. \A f \in Conn : /\ AccWaits(reg[f], d) /\ AccWaits(reg[e], d) => f = e
                          /\ SslWaits(reg[f], d) /\ SslWaits(reg[e], d) => f = e
      BY <1>0 DEF StageInv, Belongs, AccWaits, SslWaits
    <2>2. \A f \in Conn : /\ AccWaits(reg'[f], d) => AccWaits(reg[f], d)
                          /\ SslWaits(reg'[f], d) => SslWaits(reg[f], d)
      BY <1>2, <1>4, <2>0 DEF PassEffect, AccWaits, SslWaits
    <2>3. ASSUME reg'[e].detect = d, reg[e].detect # d
          PROVE  At("accResult", d) /\ ~At("accResult", d)'
      <3>1. reg'[e] # Absent /\ AccWaits(reg[e], d) /\ "UnusedAcceptResult" \in reg'[e].tags
        BY <1>2, <1>4, <2>0, <2>3 DEF PassEffect, AccWaits
      <3>2. \A f \in Conn : ~AccWaits(reg'[f], d)
        BY <2>1, <2>2, <3>1 DEF AccWaits
      <3> QED
        BY <3>1, <3>2 DEF At, PlainOp, Carrier
    <2>4. ASSUME reg'[e].http = d, reg[e].http # d
          PROVE  At("sslResult", d) /\ ~At("sslResult", d)'
      <3>1. reg'[e] # Absent /\ SslWaits(reg[e], d) /\ "UnusedSSLDetectResult" \in reg'[e].tags
        BY <1>2, <1>4, <2>0, <2>4 DEF PassEffect, SslWaits
      <3>2. \A f \in Conn : ~SslWaits(reg'[f], d)
        BY <2>1, <2>2, <3>1 DEF SslWaits
      <3> QED
        BY <3>1, <3>2 DEF At, PlainOp, Carrier
    <2> QED
      BY <2>3, <2>4
  <1>8. Fresh'
    <2> SUFFICES ASSUME NEW d \in Conn, NEW e \in Conn, NEW s \in Stage, At(s, d)'
                 PROVE  /\ s \in Early => reg'[e].detect # d
                        /\ s \in Early \cup Detecting => reg'[e].http # d
      BY DEF Fresh
    <2>1. \A a, b \in Stage : At(a, d) /\ At(b, d) => a = b \/ {a, b} \subseteq Late
      BY <1>0 DEF StageInv, Exclusive
    <2>2. \A a \in Stage : At(a, d) => /\ a \in Early => reg[e].detect # d
                                       /\ a \in Early \cup Detecting => reg[e].http # d
      BY <1>0 DEF StageInv, Fresh
    <2>3. ASSUME s \in Early PROVE reg'[e].detect # d
      <3>1. At(s, d)
        BY <1>1, <1>5, <2>3
      <3> QED
        BY <1>5, <1>7, <2>1, <2>2, <2>3, <3>1
    <2>4. ASSUME s \in Early \cup Detecting PROVE reg'[e].http # d
      <3>1. PICK a \in Stage : a \in Early \cup Detecting /\ At(a, d) /\ (a = s \/ a = "accResult")
        BY <1>1, <1>5, <2>4
      <3> QED
        BY <1>5, <1>7, <2>1, <2>2, <2>4, <3>1
    <2> QED
      BY <2>3, <2>4
  <1>9. Belongs'
    <2> SUFFICES ASSUME NEW e \in Conn, NEW d \in Conn,
                        d \in {reg'[e].acc.c, reg'[e].ssl.c, reg'[e].detect, reg'[e].http, reg'[e].ws}
                 PROVE  ent[d] = e
      BY <1>3 DEF Belongs
    <2>1. d # 0
      BY ConnFacts
    <2>2. d \in {reg[e].acc.c, reg[e].ssl.c, reg[e].detect, reg[e].http, reg[e].ws}
      BY <1>2, <1>4, <2>1 DEF PassEffect
    <2> QED
      BY <1>0, <2>2 DEF StageInv, Belongs
  <1>10. Known'
    <2>1. \A d \in Conn, s \in Stage : At(s, d)' => ent[d] # 0
      BY <1>0, <1>1, <1>5 DEF StageInv, Known
    <2>2. \A e \in Conn : /\ reg'[e].valid => ent[e] # 0
                          /\ ~reg'[e].valid => reg'[e] = Absent
                          /\ "NeedToDestroy" \notin reg'[e].tags
      BY <1>0, <1>2, <1>4 DEF StageInv, Known, PassEffect
    <2> QED
      BY <1>0, <1>3, <2>1, <2>2 DEF StageInv, Known
  <1>11. WsKnown'
    <2> SUFFICES ASSUME NEW d \in Conn, NEW o \in WsOp, Op(o, d) \in ops', reg'[ent[d]].valid
                 PROVE  reg'[ent[d]].ws # 0
      BY <1>3 DEF WsKnown
    <2>1. Op(o, d) \in ops /\ ent[d] # 0
      BY <1>0, <1>3 DEF StageInv, Known, At, Stage, Late
    <2>2. ent[d] \in Conn
      BY <1>0, <2>1, BoundAssumption DEF TypeOK, Conn
    <2> QED
      BY <1>0, <1>2, <1>4, <2>1, <2>2 DEF StageInv, WsKnown, PassEffect
  <1>12. AllHeld'
    <2>1. Keeps
      BY <1>1, <1>3 DEF Keeps
    <2>2. \A e \in Conn : reg'[e].valid => reg[e].valid /\ (Released(e) => Released(e)')
      BY <1>2, <1>3, <1>4 DEF PassEffect, Released
    <2> QED
      BY <1>0, <1>3, <2>1, <2>2, MovesHold
  <1>13. OneTask'
    BY <1>0, <1>3 DEF StageInv, OneTask
  <1> QED
    BY <1>6, <1>8, <1>9, <1>10, <1>11, <1>12, <1>13 DEF StageInv

-----------------------------------------------------------------------------
(***************************************************************************)
(* The results.                                                            *)
(***************************************************************************)
\* In the beginning there is no connection.
LEMMA InitStages == Init => StageInv
  <1> SUFFICES ASSUME Init PROVE StageInv
    OBVIOUS
  <1>1. /\ DOMAIN astrand = {1} /\ astrand[1] = Op("doAccept", 0) /\ DOMAIN rq = {} /\ ops = {}
        /\ \A c \in Conn : ent[c] = 0 /\ reg[c] = Absent
    BY DEF Init
  <1>2. /\ Absent.acc.c = 0 /\ Absent.ssl.c = 0 /\ Absent.detect = 0 /\ Absent.http = 0
        /\ Absent.ws = 0 /\ Absent.valid = FALSE /\ Absent.tags = {}
    BY DEF Absent, None
  <1>3. \A c \in Conn, s \in Stage : ~At(s, c)
    <2> SUFFICES ASSUME NEW c \in Conn, NEW s \in Stage, At(s, c) PROVE FALSE
      OBVIOUS
    <2>1. \A op : ~InQueue(rq, op, c)
      BY <1>1 DEF InQueue
    <2>2. ~InQueue(astrand, "asyncAccept", c)
      BY <1>1, ItemFields DEF InQueue
    <2>3. \A e \in Conn : ~AccWaits(reg[e], c) /\ ~SslWaits(reg[e], c) /\ reg[e].ws # c
      BY <1>1, <1>2, ConnFacts DEF AccWaits, SslWaits
    <2> QED
      BY <1>1, <2>1, <2>2, <2>3 DEF At
  <1>4. Exclusive /\ Fresh /\ WsKnown /\ OneTask
    BY <1>1, <1>3 DEF Exclusive, Fresh, WsKnown, OneTask, Once
  <1>5. Known
    BY <1>1, <1>2, <1>3 DEF Known
  <1>6. Belongs
    BY <1>1, <1>2, ConnFacts DEF Belongs
  <1>7. AllHeld
    BY <1>1, <1>2 DEF AllHeld, Entities
  <1> QED
    BY <1>4, <1>5, <1>6, <1>7 DEF StageInv

\* Every step keeps the invariant.
LEMMA StreamStep ==
    ASSUME StreamInv, [Next]_vars
    PROVE  StageInv'
  <1>1. CASE AsyncAccept
    BY <1>1, AsyncAcceptKeeps
  <1>2. CASE AllocateTcpResourceAndAccept
    BY <1>2, AllocKeeps
  <1>3. CASE \/ SetAcceptConnectionResult \/ SetSSLDetectResult \/ MarkUnused
             \/ HandleWebsocketUpgrade
    BY <1>3, TasksKeep
  <1>4. CASE \/ DoAccept \/ StopAcceptor \/ AllocateRecievedDataComponent \/ CloseNetworkResources
             \/ CheckRegistryEmpty \/ Unload \/ ValidateAndFreeNetworkResources \/ StopIOContext
             \/ UNCHANGED vars
    <2>1. /\ SameStages /\ SameTasks /\ NoNewWs /\ UNCHANGED <<ent, dropped>>
          /\ \A c \in Conn : Op("wsDoEof", c) \in ops' => ent[c] # 0
          /\ \A e \in Conn : \E k : reg'[e] = [reg[e] EXCEPT !.kids = k]
          /\ \A e \in Conn : ~reg[e].valid => reg'[e] = reg[e]
      BY <1>4, QuietSteps
    <2>2. TypeOK /\ StageInv
      BY DEF StreamInv, Inv
    <2>3. OneTask'
      BY <2>1, <2>2 DEF SameTasks, StageInv, OneTask
    <2> QED
      BY <2>1, <2>2, <2>3, SameKeeps
  <1>5. ASSUME NEW c \in Conn,
               \/ OnAccept(c) \/ RunDetector(c) \/ OnDetected(c)
               \/ HttpDoRead(c) \/ HttpOnRead(c) \/ HttpOnWrite(c)
        PROVE  StageInv'
    <2>1. CASE OnAccept(c) /\ ~IocRuns
      BY <2>1, StoppedAcceptKeeps
    <2>2. CASE ~OnAccept(c) \/ IocRuns
      BY <1>5, <2>2, PlainSteps, HandsKeep DEF Follows
    <2> QED
      BY <2>1, <2>2
  <1>6. ASSUME NEW c \in Conn,
               \/ WsStartAccept(c) \/ WsOnAccept(c) \/ WsOnRead(c) \/ WsSendAsync(c)
               \/ WsOnWrite(c) \/ WsOnClose(c) \/ WsPostedDoEof(c)
        PROVE  StageInv'
    BY <1>6, WsKeeps
  <1>7. CASE Update
    BY <1>7, UpdateKeeps
  <1> QED
    BY <1>1, <1>2, <1>3, <1>4, <1>5, <1>6, <1>7 DEF Next, AcceptorStep, RegistryStep, StrandStep

\* Whatever the clients do, every connection is at one stage at a time, never
\* goes back to an earlier one, and an entity of the registry is released or has
\* a connection that is at some stage.
THEOREM StreamInductive == Spec => []StreamInv
  <1>1. Init => StageInv
    BY InitStages
  <1>2. TypeOK /\ OneAcceptAtATime /\ StageInv /\ [Next]_vars => StageInv'
    BY StreamStep DEF StreamInv, Inv
  <1>3. TypeOK /\ OneAcceptAtATime /\ StageInv => StreamInv
    BY DEF StreamInv, Inv
  <1> QED
    BY <1>1, <1>2, <1>3, TypeCorrect, OneAcceptCorrect, PTL DEF Spec

\* The stream of a connection has one owner (listener, DetectChannel,
\* HttpChannel, WsChannel), and nothing is pending on it while setAccept-
\* ConnectionResult, setSSLDetectResult or handleWebsocketUpgrade carries it.
THEOREM StreamHasOneOwnerCorrect == Spec => []StreamHasOneOwner
  <1>1. StreamInv => StreamHasOneOwner
    <2> SUFFICES ASSUME StreamInv, NEW o \in ops, o.op # "wsDoEof"
                 PROVE  /\ \A p \in ops : p.c = o.c /\ p.op # "wsDoEof" => Owner(p.op) = Owner(o.op)
                        /\ \A i \in DOMAIN rq :
                             rq[i].c = o.c => rq[i].op \notin {"setAccept", "setSSLDetect", "upgrade"}
      BY DEF StreamHasOneOwner
    <2> DEFINE StageOf(op) == IF op \in WsOp THEN "ws" ELSE op
    <2>1. ASSUME NEW p \in ops, p.op # "wsDoEof"
          PROVE  p.c \in Conn /\ StageOf(p.op) \in Stage /\ At(StageOf(p.op), p.c)
                 /\ p.op \in PlainOp \cup WsOp
      <3>1. p \in StrandItem
        BY DEF StreamInv, Inv, TypeOK
      <3>2. p.c \in Conn /\ p.op \in PlainOp \cup WsOp /\ p = Op(p.op, p.c)
        BY <2>1, <3>1 DEF StrandItem, StrandOp, PlainOp, WsOp, Op
      <3>3. StageOf(p.op) \in Stage
        BY <3>2 DEF Stage, Early, Detecting, Reading, Late, PlainOp
      <3>4. At(StageOf(p.op), p.c)
        BY <3>2 DEF At, PlainOp, WsOp
      <3> QED
        BY <3>2, <3>3, <3>4
    <2>2. \A c \in Conn, s, t \in Stage : At(s, c) /\ At(t, c) => s = t \/ {s, t} \subseteq Late
      BY DEF StreamInv, StageInv, Exclusive
    <2>3. ASSUME NEW p \in ops, p.c = o.c, p.op # "wsDoEof" PROVE Owner(p.op) = Owner(o.op)
      <3>1. StageOf(p.op) = StageOf(o.op)
        BY <2>1, <2>2, <2>3 DEF PlainOp, WsOp, Late
      <3> QED
        BY <2>1, <2>3, <3>1 DEF PlainOp, WsOp, Owner
    <2>4. ASSUME NEW i \in DOMAIN rq, rq[i].c = o.c, rq[i].op \in Carrier PROVE FALSE
      <3>1. At(rq[i].op, o.c) /\ rq[i].op \in Stage
        BY <2>4 DEF At, InQueue, Carrier, Stage, Early, Detecting, Reading
      <3>2. StageOf(o.op) # rq[i].op /\ ~({StageOf(o.op), rq[i].op} \subseteq Late)
        BY <2>1, <2>4 DEF PlainOp, WsOp, Carrier, Late
      <3> QED
        BY <2>1, <2>2, <3>1, <3>2
    <2> QED
      BY <2>3, <2>4 DEF Carrier
  <1> QED
    BY <1>1, StreamInductive, PTL

-----------------------------------------------------------------------------
(***************************************************************************)
(* The shutdown.                                                           *)
(***************************************************************************)
\* Operations in a queue: one is there, at most one is there, and no allocation
\* is behind a check of the registry.
HasOp(q, op) == \E i \in DOMAIN q : q[i].op = op

OneOp(q, op) == \A i, j \in DOMAIN q : q[i].op = op /\ q[j].op = op => i = j

AllocFirst(q) == \A i, j \in DOMAIN q : q[i].op = "check" /\ q[j].op = "alloc" => j < i

\* The shutdown: the acceptor is stopped once, the registry is checked only after
\* that, and behind a closed acceptor nothing is allocated after a check.
Stops ==
    /\ OneOp(astrand, "stop")
    /\ HasOp(astrand, "stop") => phase \in {"stopping", "aborted"}
    /\ phase \in {"run", "stopping"} => acceptorOpen /\ ~HasOp(rq, "check")
    /\ ~acceptorOpen => AllocFirst(rq)
    /\ phase \in {"freed", "stopped"} /\ ~acceptorOpen => Entities = {} /\ ~HasOp(rq, "alloc")

\* The operations in a queue after an item was taken from it or put on it.
LEMMA QueueOps ==
    ASSUME NEW S, NEW q \in Seq(S)
    PROVE  /\ \A x \in S : \A op :
                /\ HasOp(Append(q, x), op) <=> HasOp(q, op) \/ x.op = op
                /\ OneOp(q, op) /\ ~(HasOp(q, op) /\ x.op = op) => OneOp(Append(q, x), op)
           /\ \A x \in S : AllocFirst(q) /\ x.op # "alloc" => AllocFirst(Append(q, x))
           /\ q # <<>> =>
                /\ \A op : /\ HasOp(Tail(q), op) => HasOp(q, op)
                           /\ OneOp(q, op) => /\ OneOp(Tail(q), op)
                                              /\ Head(q).op = op => ~HasOp(Tail(q), op)
                /\ HasOp(q, Head(q).op)
                /\ AllocFirst(q) => /\ AllocFirst(Tail(q))
                                    /\ Head(q).op = "check" => ~HasOp(Tail(q), "alloc")
           /\ ~HasOp(q, "check") => AllocFirst(q)
  <1>0. DOMAIN q = 1..Len(q) /\ Len(q) \in Nat
    BY LenProperties
  <1>1. ASSUME NEW x \in S
        PROVE  /\ \A op :
                    /\ HasOp(Append(q, x), op) <=> HasOp(q, op) \/ x.op = op
                    /\ OneOp(q, op) /\ ~(HasOp(q, op) /\ x.op = op) => OneOp(Append(q, x), op)
               /\ AllocFirst(q) /\ x.op # "alloc" => AllocFirst(Append(q, x))
    <2> DEFINE a == Append(q, x)
    <2>1. /\ DOMAIN a = 1..(Len(q) + 1)
          /\ \A i \in 1..Len(q) : a[i] = q[i]
          /\ a[Len(q) + 1] = x
      BY <1>0, AppendProperties, LenProperties
    <2>2. /\ \A i \in DOMAIN a : i \in DOMAIN q \/ i = Len(q) + 1
          /\ DOMAIN q \subseteq DOMAIN a /\ Len(q) + 1 \in DOMAIN a
          /\ \A i \in DOMAIN q : a[i] = q[i] /\ i < Len(q) + 1
      BY <1>0, <2>1
    <2> HIDE DEF a
    <2>3. ASSUME NEW op
          PROVE  /\ HasOp(a, op) <=> HasOp(q, op) \/ x.op = op
                 /\ OneOp(q, op) /\ ~(HasOp(q, op) /\ x.op = op) => OneOp(a, op)
      BY <2>1, <2>2 DEF HasOp, OneOp
    <2>4. AllocFirst(q) /\ x.op # "alloc" => AllocFirst(a)
      BY <2>1, <2>2 DEF AllocFirst
    <2> QED
      BY <2>3, <2>4 DEF a
  <1>2. ASSUME q # <<>>
        PROVE  /\ \A op : /\ HasOp(Tail(q), op) => HasOp(q, op)
                          /\ OneOp(q, op) => /\ OneOp(Tail(q), op)
                                             /\ Head(q).op = op => ~HasOp(Tail(q), op)
               /\ HasOp(q, Head(q).op)
               /\ AllocFirst(q) => /\ AllocFirst(Tail(q))
                                   /\ Head(q).op = "check" => ~HasOp(Tail(q), "alloc")
    <2> DEFINE t == Tail(q)
               h == Head(q)
    <2>1. /\ DOMAIN t = 1..(Len(q) - 1) /\ Len(q) > 0 /\ h = q[1]
          /\ \A i \in 1..(Len(q) - 1) : t[i] = q[i + 1]
      BY <1>0, <1>2, EmptySeq, HeadTailProperties, LenProperties
    <2>2. /\ 1 \in DOMAIN q /\ h = q[1]
          /\ \A i \in DOMAIN t : /\ i + 1 \in DOMAIN q /\ i + 1 # 1 /\ t[i] = q[i + 1]
                                 /\ i \in Int /\ ~(i + 1 < 1)
          /\ \A i, j \in DOMAIN t : /\ i + 1 = j + 1 => i = j
                                    /\ j + 1 < i + 1 => j < i
      BY <1>0, <2>1
    <2> HIDE DEF t, h
    <2>3. ASSUME NEW op
          PROVE  /\ HasOp(t, op) => HasOp(q, op)
                 /\ OneOp(q, op) => OneOp(t, op) /\ (h.op = op => ~HasOp(t, op))
      BY <2>2 DEF HasOp, OneOp
    <2>4. HasOp(q, h.op)
      BY <2>2 DEF HasOp
    <2>5. AllocFirst(q) => AllocFirst(t)
      BY <2>2 DEF AllocFirst
    <2>6. AllocFirst(q) /\ h.op = "check" => ~HasOp(t, "alloc")
      BY <2>2 DEF AllocFirst, HasOp
    <2> QED
      BY <2>3, <2>4, <2>5, <2>6 DEF t, h
  <1>3. ~HasOp(q, "check") => AllocFirst(q)
    BY DEF HasOp, AllocFirst
  <1> QED
    BY <1>1, <1>2, <1>3

\* A step that neither stops the acceptor nor checks the registry.
LEMMA StopsKept ==
    ASSUME TypeOK, Stops, UNCHANGED <<phase, acceptorOpen>>,
           \/ astrand' = astrand
           \/ astrand # <<>> /\ astrand' = Tail(astrand)
           \/ \E x \in AcceptorItem : x.op # "stop" /\ astrand' = Append(astrand, x),
           \/ rq' = rq
           \/ rq # <<>> /\ rq' = Tail(rq)
           \/ \E t \in RegistryItem : /\ t.op # "check" /\ (t.op = "alloc" => acceptorOpen)
                                      /\ rq' = Append(rq, t),
           phase \in {"freed", "stopped"} /\ ~acceptorOpen => Entities' \subseteq Entities
    PROVE  Stops'
  <1>0. astrand \in Seq(AcceptorItem) /\ rq \in Seq(RegistryItem)
    BY DEF TypeOK
  <1>1. OneOp(astrand', "stop") /\ (HasOp(astrand', "stop") => HasOp(astrand, "stop"))
    <2>1. OneOp(astrand, "stop")
      BY DEF Stops
    <2>2. CASE astrand # <<>> /\ astrand' = Tail(astrand)
      BY <1>0, <2>1, <2>2, QueueOps
    <2>3. ASSUME NEW x \in AcceptorItem, x.op # "stop", astrand' = Append(astrand, x)
          PROVE  OneOp(astrand', "stop") /\ (HasOp(astrand', "stop") => HasOp(astrand, "stop"))
      BY <1>0, <2>1, <2>3, QueueOps
    <2> QED
      BY <2>1, <2>2, <2>3
  <1>2. /\ HasOp(rq', "check") => HasOp(rq, "check")
        /\ ~acceptorOpen /\ HasOp(rq', "alloc") => HasOp(rq, "alloc")
    <2>1. CASE rq # <<>> /\ rq' = Tail(rq)
      BY <1>0, <2>1, QueueOps
    <2>2. ASSUME NEW t \in RegistryItem, t.op # "check", t.op = "alloc" => acceptorOpen,
                 rq' = Append(rq, t)
          PROVE  /\ HasOp(rq', "check") => HasOp(rq, "check")
                 /\ ~acceptorOpen /\ HasOp(rq', "alloc") => HasOp(rq, "alloc")
      BY <1>0, <2>2, QueueOps
    <2> QED
      BY <2>1, <2>2
  <1>3. ~acceptorOpen => AllocFirst(rq')
    <2> SUFFICES ASSUME ~acceptorOpen PROVE AllocFirst(rq')
      OBVIOUS
    <2>1. AllocFirst(rq)
      BY DEF Stops
    <2>2. ASSUME NEW t \in RegistryItem, t.op # "alloc", rq' = Append(rq, t)
          PROVE  AllocFirst(rq')
      BY <1>0, <2>1, <2>2, QueueOps
    <2>3. CASE rq # <<>> /\ rq' = Tail(rq)
      BY <1>0, <2>1, <2>3, QueueOps
    <2> QED
      BY <2>1, <2>2, <2>3
  <1>4. phase \in {"freed", "stopped"} /\ ~acceptorOpen => Entities' = {} /\ ~HasOp(rq', "alloc")
    BY <1>2 DEF Stops
  <1> QED
    BY <1>1, <1>2, <1>3, <1>4 DEF Stops

\* The steps of unload, and those of the sequences that they post to.
LEMMA MainStops ==
    ASSUME TypeOK, Stops,
           \/ DoAccept \/ StopAcceptor \/ CloseNetworkResources \/ CheckRegistryEmpty
           \/ Unload \/ ValidateAndFreeNetworkResources \/ StopIOContext \/ UNCHANGED vars
    PROVE  Stops'
  <1>0. /\ TypeOK /\ Stops
        /\ astrand \in Seq(AcceptorItem) /\ rq \in Seq(RegistryItem)
    BY DEF TypeOK
  <1>1. CASE DoAccept
    <2>1. /\ astrand # <<>> /\ astrand' = Tail(astrand)
          /\ UNCHANGED <<phase, acceptorOpen, reg>>
      BY <1>1 DEF DoAccept, OnAcceptorStrand
    <2>2. rq' = rq \/ (acceptorOpen /\ rq' = Append(rq, Do("alloc", 0)))
      BY <1>1, Zenon DEF DoAccept, PostReg
    <2>3. Do("alloc", 0) \in RegistryItem /\ Do("alloc", 0).op = "alloc"
      BY ItemTypes, ItemFields
    <2>4. Entities' = Entities
      BY <2>1 DEF Entities
    <2> QED
      BY <1>0, <2>1, <2>2, <2>3, <2>4, StopsKept
  <1>2. CASE StopAcceptor
    <2>1. /\ astrand # <<>> /\ Head(astrand).op = "stop" /\ astrand' = Tail(astrand)
          /\ phase' = "freeing" /\ phase # "aborted" /\ UNCHANGED <<rq, reg>>
      BY <1>2 DEF StopAcceptor, OnAcceptorStrand, IocRuns
    <2>2. HasOp(astrand, "stop") /\ OneOp(astrand, "stop")
      BY <1>0, <2>1, QueueOps DEF Stops
    <2>3. ~HasOp(astrand', "stop") /\ OneOp(astrand', "stop")
      BY <1>0, <2>1, <2>2, QueueOps
    <2>4. AllocFirst(rq')
      BY <1>0, <2>1, <2>2, QueueOps DEF Stops
    <2> QED
      BY <2>1, <2>3, <2>4 DEF Stops
  <1>3. CASE CloseNetworkResources
    <2>1. /\ rq # <<>> /\ rq' = Tail(rq) /\ UNCHANGED <<phase, acceptorOpen, astrand, reg>>
      BY <1>3 DEF CloseNetworkResources, OnRegistry
    <2>2. Entities' = Entities
      BY <2>1 DEF Entities
    <2> QED
      BY <1>0, <2>1, <2>2, StopsKept
  <1>4. CASE CheckRegistryEmpty
    <2>1. /\ rq # <<>> /\ Head(rq).op = "check" /\ rq' = Tail(rq) /\ phase # "aborted"
          /\ UNCHANGED <<acceptorOpen, astrand, reg>>
          /\ phase' = phase \/ (phase' = "freed" /\ Entities = {})
      BY <1>4 DEF CheckRegistryEmpty, OnRegistry
    <2>2. Entities' = Entities
      BY <2>1 DEF Entities
    <2>3. CASE phase' = phase
      BY <1>0, <2>1, <2>2, <2>3, StopsKept
    <2>4. CASE phase' = "freed" /\ Entities = {}
      <3>1. HasOp(rq, "check") /\ phase \notin {"run", "stopping"}
        BY <1>0, <2>1, QueueOps DEF Stops
      <3>2. ~HasOp(astrand, "stop") /\ OneOp(astrand, "stop")
        BY <1>0, <2>1, <3>1 DEF Stops
      <3>3. ~acceptorOpen => AllocFirst(rq') /\ ~HasOp(rq', "alloc")
        BY <1>0, <2>1, QueueOps DEF Stops
      <3> QED
        BY <2>1, <2>2, <2>4, <3>2, <3>3 DEF Stops
    <2> QED
      BY <2>1, <2>3, <2>4
  <1>5. CASE Unload
    <2>1. /\ phase = "run" /\ phase' = "stopping" /\ astrand' = Append(astrand, Op("stop", 0))
          /\ UNCHANGED <<acceptorOpen, rq, reg>>
      BY <1>5 DEF Unload
    <2>2. Op("stop", 0) \in AcceptorItem /\ ~HasOp(astrand, "stop") /\ OneOp(astrand, "stop")
      BY <1>0, <2>1, ItemTypes DEF Stops
    <2>3. OneOp(astrand', "stop")
      BY <1>0, <2>1, <2>2, QueueOps
    <2> QED
      BY <1>0, <2>1, <2>3 DEF Stops
  <1>6. CASE ValidateAndFreeNetworkResources
    <2> DEFINE t == Do("closeAll", 0)
               u == Do("check", 0)
               q == Append(rq, t)
    <2>1. /\ phase = "freeing" /\ rq' = rq \o <<t, u>>
          /\ UNCHANGED <<phase, acceptorOpen, astrand, reg>>
      BY <1>6 DEF ValidateAndFreeNetworkResources
    <2>2. t \in RegistryItem /\ u \in RegistryItem /\ t.op # "alloc" /\ u.op # "alloc"
      BY ItemTypes, ItemFields
    <2> HIDE DEF t, u
    <2>3. rq' = Append(q, u)
      BY <1>0, <2>1, <2>2
    <2>4. q \in Seq(RegistryItem)
      BY <1>0, <2>2, QueueType
    <2>5. AllocFirst(rq) => AllocFirst(q)
      BY <1>0, <2>2, QueueOps
    <2> HIDE DEF q
    <2>6. AllocFirst(q) => AllocFirst(rq')
      BY <2>2, <2>3, <2>4, QueueOps
    <2> QED
      BY <1>0, <2>1, <2>5, <2>6 DEF Stops
  <1>7. CASE StopIOContext
    <2>1. /\ phase = "freed" /\ phase' = "stopped" /\ UNCHANGED <<acceptorOpen, astrand, rq, reg>>
      BY <1>7 DEF StopIOContext
    <2>2. Entities' = Entities
      BY <2>1 DEF Entities
    <2> QED
      BY <1>0, <2>1, <2>2 DEF Stops
  <1>8. CASE UNCHANGED vars
    <2>1. UNCHANGED <<phase, acceptorOpen, astrand, rq, reg>>
      BY <1>8 DEF vars
    <2>2. Entities' = Entities
      BY <2>1 DEF Entities
    <2> QED
      BY <1>0, <2>1, <2>2, StopsKept
  <1> QED
    BY <1>1, <1>2, <1>3, <1>4, <1>5, <1>6, <1>7, <1>8

\* The strands of the connections post results, requests to mark an entity and
\* messages, never an allocation or a check.
LEMMA StrandStops ==
    ASSUME TypeOK, Stops, NEW c \in Conn,
           OnAccept(c) \/ StrandStep(c) \/ WsOnRead(c) \/ WsSendAsync(c)
    PROVE  Stops'
  <1> USE DEF StrandStep, RunDetector, OnDetected, HttpDoRead, HttpOnRead,
       HttpOnWrite, WsStartAccept, WsOnAccept, WsOnRead, WsSendAsync, WsOnWrite,
       WsOnClose, WsPostedDoEof, WsOnFail, WsDoEof, HttpDoEof, PostReg
  <1> DEFINE Posted == {"setAccept", "setSSLDetect", "markUnused", "upgrade", "recieved"}
  <1>1. UNCHANGED <<phase, acceptorOpen, reg>>
    BY DEF OnAccept
  <1>2. astrand' = astrand \/ astrand' = Append(astrand, Op("doAccept", 0))
    BY OnAcceptCases
  <1>3. \/ rq' = rq
        \/ \E op \in Posted, ec, close \in BOOLEAN : rq' = Append(rq, Task(op, c, ec, close))
    BY OnAcceptCases DEF Do
  <1>4. \A op \in Posted, ec, close \in BOOLEAN :
          Task(op, c, ec, close) \in RegistryItem /\ Task(op, c, ec, close).op = op
    BY DEF Task, RegistryItem
  <1>5. \/ rq' = rq
        \/ \E t \in RegistryItem : /\ t.op # "check" /\ (t.op = "alloc" => acceptorOpen)
                                   /\ rq' = Append(rq, t)
    BY <1>3, <1>4
  <1>6. Op("doAccept", 0) \in AcceptorItem /\ Op("doAccept", 0).op # "stop"
    BY ItemTypes, ItemFields
  <1>7. Entities' = Entities
    BY <1>1 DEF Entities
  <1> QED
    BY <1>1, <1>2, <1>5, <1>6, <1>7, StopsKept

\* The other tasks of the registry sequence, asyncAccept and the pass.
LEMMA RegistryStops ==
    ASSUME StreamInv, Stops,
           \/ AsyncAccept \/ AllocateTcpResourceAndAccept \/ Update
           \/ SetAcceptConnectionResult \/ SetSSLDetectResult \/ MarkUnused
           \/ HandleWebsocketUpgrade \/ AllocateRecievedDataComponent
    PROVE  Stops'
  <1>0. TypeOK /\ StageInv /\ rq \in Seq(RegistryItem)
    BY DEF StreamInv, Inv, TypeOK
  <1>1. CASE AsyncAccept
    <2>1. /\ UNCHANGED <<phase, acceptorOpen, rq, reg>>
          /\ astrand # <<>> /\ astrand' = Tail(astrand)
      BY <1>1 DEF AsyncAccept, OnAcceptorStrand
    <2>2. Entities' = Entities
      BY <2>1 DEF Entities
    <2> QED
      BY <1>0, <2>1, <2>2, StopsKept
  <1>2. CASE AllocateTcpResourceAndAccept
    <2>1. /\ rq # <<>> /\ rq' = Tail(rq) /\ Head(rq).op = "alloc" /\ UNCHANGED acceptorOpen
      BY <1>2 DEF AllocateTcpResourceAndAccept, OnRegistry
    <2>2. HasOp(rq, "alloc")
      BY <1>0, <2>1, QueueOps
    <2>3. ~(phase \in {"freed", "stopped"} /\ ~acceptorOpen)
      BY <2>2 DEF Stops
    <2>4. ASSUME NEW c \in Conn, NEW e \in Conn, AllocEffect(c, e) PROVE Stops'
      <3>1. Op("asyncAccept", c) \in AcceptorItem /\ Op("asyncAccept", c).op # "stop"
        BY ItemTypes, ItemFields
      <3>2. /\ astrand' = astrand \/ astrand' = Append(astrand, Op("asyncAccept", c))
            /\ phase' = phase
        BY <2>4 DEF AllocEffect
      <3> QED
        BY <1>0, <2>1, <2>3, <3>1, <3>2, StopsKept
    <2>5. CASE phase' = "aborted" /\ astrand' = astrand
      <3>1. AllocFirst(rq) => AllocFirst(rq')
        BY <1>0, <2>1, QueueOps
      <3> QED
        BY <2>1, <2>5, <3>1 DEF Stops
    <2> QED
      BY <1>2, <2>4, <2>5, AllocSteps
  <1>3. CASE Update
    <2>1. /\ UNCHANGED <<phase, acceptorOpen, astrand, rq>>
          /\ \A e \in Conn : PassEffect(reg[e], AfterResults(reg[e]), reg'[e])
      BY <1>3, UpdateFacts
    <2>2. Absent.valid = FALSE
      BY DEF Absent
    <2>3. Entities' \subseteq Entities
      BY <2>1, <2>2 DEF PassEffect, Entities
    <2> QED
      BY <1>0, <2>1, <2>3, StopsKept
  <1>4. CASE \/ SetAcceptConnectionResult \/ SetSSLDetectResult \/ MarkUnused
             \/ HandleWebsocketUpgrade
    <2>1. PICK op \in Carrier \cup {"markUnused"}, c \in Conn : TaskStep(op, c)
      BY <1>4, TaskSteps
    <2>2. /\ rq # <<>> /\ rq' = Tail(rq) /\ TaskEffect(ent[c], c, op)
          /\ UNCHANGED <<phase, acceptorOpen, astrand>>
      BY <2>1 DEF TaskStep, OnRegistry
    <2>3. \A f \in Conn : reg'[f].valid = reg[f].valid
      BY <2>2 DEF TaskEffect
    <2>4. Entities' = Entities
      BY <2>3 DEF Entities
    <2> QED
      BY <1>0, <2>2, <2>4, StopsKept
  <1>5. CASE AllocateRecievedDataComponent
    <2>1. /\ rq # <<>> /\ rq' = Tail(rq) /\ UNCHANGED <<phase, acceptorOpen, astrand>>
      BY <1>5 DEF AllocateRecievedDataComponent, OnRegistry
    <2>2. \A e \in Conn : ~reg[e].valid => reg'[e] = reg[e]
      BY <1>5, QuietSteps
    <2>3. Entities' \subseteq Entities
      BY <2>2 DEF Entities
    <2> QED
      BY <1>0, <2>1, <2>3, StopsKept
  <1> QED
    BY <1>1, <1>2, <1>3, <1>4, <1>5

\* Whatever the clients and the system do, the check that unload waits for is
\* behind the last allocation of a closed acceptor, and the registry it found
\* empty stays empty.
THEOREM StopsCorrect == Spec => []Stops
  <1>1. Init => Stops
    <2> SUFFICES ASSUME Init PROVE Stops
      OBVIOUS
    <2>1. /\ DOMAIN astrand = {1} /\ astrand[1] = Op("doAccept", 0) /\ DOMAIN rq = {}
          /\ phase = "run" /\ acceptorOpen = TRUE
      BY DEF Init
    <2>2. ~HasOp(astrand, "stop")
      BY <2>1, ItemFields DEF HasOp
    <2>3. OneOp(astrand, "stop") /\ ~HasOp(rq, "check")
      BY <2>1, <2>2 DEF HasOp, OneOp
    <2> QED
      BY <2>1, <2>2, <2>3 DEF Stops
  <1>2. StreamInv /\ Stops /\ [Next]_vars => Stops'
    <2> SUFFICES ASSUME StreamInv, Stops, [Next]_vars PROVE Stops'
      OBVIOUS
    <2>0. TypeOK
      BY DEF StreamInv, Inv
    <2>1. CASE \/ AsyncAccept \/ AllocateTcpResourceAndAccept \/ Update
               \/ SetAcceptConnectionResult \/ SetSSLDetectResult \/ MarkUnused
               \/ HandleWebsocketUpgrade \/ AllocateRecievedDataComponent
      BY <2>1, RegistryStops
    <2>2. CASE \/ DoAccept \/ StopAcceptor \/ CloseNetworkResources \/ CheckRegistryEmpty
               \/ Unload \/ ValidateAndFreeNetworkResources \/ StopIOContext \/ UNCHANGED vars
      BY <2>0, <2>2, MainStops
    <2>3. ASSUME NEW c \in Conn,
                 OnAccept(c) \/ StrandStep(c) \/ WsOnRead(c) \/ WsSendAsync(c)
          PROVE  Stops'
      BY <2>0, <2>3, StrandStops
    <2> QED
      BY <2>1, <2>2, <2>3 DEF Next, AcceptorStep, RegistryStep
  <1> QED
    BY <1>1, <1>2, StreamInductive, PTL DEF Spec

\* Every error path of the listener, the channels and the systems releases the
\* entity of its connection, but for three early returns of the listener; and
\* the io_context is stopped with an entity left only if cancelling or closing
\* the acceptor failed.
THEOREM OnlyListenerLeaksCorrect == Spec => []OnlyListenerLeaks
  <1>1. StreamInv /\ Stops => OnlyListenerLeaks
    <2> SUFFICES ASSUME StreamInv, Stops, NEW e \in Conn, reg[e].valid
                 PROVE  InUse(e) \/ e \in dropped
      BY DEF OnlyListenerLeaks, Entities, Stops
    <2>1. Held(e)
      BY DEF StreamInv, StageInv, AllHeld, Entities
    <2>2. CASE Released(e)
      BY <2>2 DEF Released, InUse
    <2>3. ASSUME NEW c \in Conn, NEW s \in Stage, ent[c] = e, At(s, c)
          PROVE  InUse(e)
      <3>1. CASE \E i \in DOMAIN astrand : astrand[i].c = c
        BY <2>3, <3>1 DEF InUse
      <3>2. CASE \E i \in DOMAIN rq : rq[i].c = c
        BY <2>3, <3>2 DEF InUse
      <3>3. CASE \E op : Op(op, c) \in ops
        BY <2>3, <3>3, ItemFields DEF InUse
      <3>4. ASSUME NEW f \in Conn, AccWaits(reg[f], c) \/ SslWaits(reg[f], c)
            PROVE  InUse(e)
        <4>1. f = e
          BY <2>3, <3>4 DEF StreamInv, StageInv, Belongs, AccWaits, SslWaits
        <4>2. None.c = 0 /\ c # 0
          BY ConnFacts DEF None
        <4>3. ~ResultsProcessed(reg[e])
          BY <3>4, <4>1, <4>2 DEF ResultsProcessed, AccWaits, SslWaits
        <4> QED
          BY <4>3 DEF InUse
      <3>5. ASSUME NEW f \in Conn, reg[f].ws = c PROVE InUse(e)
        <4>1. f = e /\ c # 0
          BY <2>3, <3>5, ConnFacts DEF StreamInv, StageInv, Belongs
        <4> QED
          BY <3>5, <4>1 DEF InUse
      <3> QED
        BY <2>3, <3>1, <3>2, <3>3, <3>4, <3>5 DEF At, InQueue
    <2> QED
      BY <2>1, <2>2, <2>3 DEF Held
  <1> QED
    BY <1>1, StreamInductive, StopsCorrect, PTL
=============================================================================
