----------------------------- MODULE Http_proofs -----------------------------
(***************************************************************************)
(* A server whose clients do not ask for a websocket.  For every number of *)
(* connections and whatever else the clients and the system do, no handler *)
(* outlives its channel, every result reaches the connection it is for, no *)
(* CHECK of the allocator fails, and the shutdown ends with nothing pending. *)
(***************************************************************************)
EXTENDS Stream_proofs

\* There is no websocket and no message of one.
NoWs ==
    /\ \A c \in Conn : /\ ~At("ws", c) /\ ~At("upgrade", c)
                       /\ ~InQueue(rq, "recieved", c)
                       /\ Op("wsDoEof", c) \notin ops
                       /\ reg[c].kids = {}
    /\ orphans = {}

\* A connection asks at most once to have its entity marked as unused.
MarkedOnce == \A c \in Conn : Once(rq, "markUnused", c)

\* Connections are allocated in the order of their numbers.
InOrder == \A c, d \in Conn : ent[c] # 0 /\ d < c => ent[d] # 0

\* A connection at some stage has the entity to itself, with the channel that
\* works at this stage.
Owns(s, c) ==
    /\ reg[ent[c]].valid /\ "Unused" \notin reg[ent[c]].tags
    /\ Serves(ent[c], c)
    /\ s \in Detecting => reg[ent[c]].detect = c
    /\ s \in Reading => reg[ent[c]].http = c

Lives == \A c \in Conn, s \in Stage : At(s, c) => Owns(s, c)

HttpOnly ==
    /\ NoWs
    /\ MarkedOnce
    /\ InOrder
    /\ Lives
    /\ NeverAborts

HttpInv == StreamInv /\ Stops /\ HttpOnly

-----------------------------------------------------------------------------
(***************************************************************************)
(* What follows from the invariant.                                        *)
(***************************************************************************)
\* An entity has at most one connection at a stage, which is at one stage only.
LEMMA OneLive ==
    ASSUME HttpInv, NEW c \in Conn, NEW s \in Stage, At(s, c)
    PROVE  /\ ent[c] \in Conn /\ Owns(s, c)
           /\ \A d \in Conn, t \in Stage : At(t, d) /\ ent[d] = ent[c] => d = c /\ t = s
  <1>0. StageInv /\ TypeOK /\ Lives /\ NoWs
    BY DEF HttpInv, HttpOnly, StreamInv, Inv
  <1>1. Owns(s, c)
    BY <1>0 DEF Lives
  <1>2. ent[c] \in Conn
    <2>1. ent[c] # 0
      BY <1>0 DEF StageInv, Known
    <2> QED
      BY <1>0, <2>1, BoundAssumption DEF TypeOK, Conn
  <1>3. ASSUME NEW d \in Conn, NEW t \in Stage, At(t, d), ent[d] = ent[c]
        PROVE  d = c /\ t = s
    <2>1. Owns(t, d)
      BY <1>0, <1>3 DEF Lives
    <2>2. d <= c /\ c <= d
      BY <1>1, <1>3, <2>1 DEF Owns, Serves
    <2>3. d = c
      BY <2>2, BoundAssumption DEF Conn
    <2>4. t # "ws" /\ s # "ws"
      BY <1>0, <1>3 DEF NoWs
    <2>5. t = s \/ {t, s} \subseteq Late
      BY <1>0, <1>3, <2>3 DEF StageInv, Exclusive
    <2> QED
      BY <2>3, <2>4, <2>5 DEF Late
  <1> QED
    BY <1>1, <1>2, <1>3

\* No step of a websocket is taken, and closeNetworkResources closes none.
LEMMA NoWsSteps ==
    ASSUME HttpInv
    PROVE  /\ \A c \in Conn : ~(\/ WsStartAccept(c) \/ WsOnAccept(c) \/ WsOnRead(c)
                                \/ WsSendAsync(c) \/ WsOnWrite(c) \/ WsOnClose(c)
                                \/ WsPostedDoEof(c))
           /\ ~HandleWebsocketUpgrade /\ ~AllocateRecievedDataComponent
           /\ CloseNetworkResources => UNCHANGED <<ops, reg>>
  <1>0. StageInv /\ TypeOK /\ NoWs /\ StreamInv
    BY DEF HttpInv, HttpOnly, StreamInv, Inv
  <1>1. ASSUME NEW c \in Conn
        PROVE  ~(\/ WsStartAccept(c) \/ WsOnAccept(c) \/ WsOnRead(c) \/ WsSendAsync(c)
                 \/ WsOnWrite(c) \/ WsOnClose(c) \/ WsPostedDoEof(c))
    <2>1. \A o \in WsOp \cup {"wsDoEof"} : Op(o, c) \notin ops
      BY <1>0 DEF NoWs, At
    <2>2. ~WsSendAsync(c)
      <3> SUFFICES ASSUME WsSendAsync(c) PROVE FALSE
        OBVIOUS
      <3>1. ent[c] # 0 /\ reg[ent[c]].ws = c
        BY DEF WsSendAsync, Alive
      <3>2. ent[c] \in Conn
        BY <1>0, <3>1, BoundAssumption DEF TypeOK, Conn
      <3> QED
        BY <1>0, <3>1, <3>2 DEF NoWs, At
    <2> QED
      BY <2>1, <2>2 DEF WsStartAccept, WsOnAccept, WsOnRead, WsOnWrite, WsOnClose, WsPostedDoEof,
         OnStrand, WsOp
  <1>2. ~HandleWebsocketUpgrade
    <2> SUFFICES ASSUME HandleWebsocketUpgrade PROVE FALSE
      OBVIOUS
    <2>1. Head(rq).c \in Conn /\ At("upgrade", Head(rq).c)
      BY <1>0, TaskTaken DEF HandleWebsocketUpgrade, Carrier
    <2> QED
      BY <1>0, <2>1 DEF NoWs
  <1>3. ~AllocateRecievedDataComponent
    <2> SUFFICES ASSUME AllocateRecievedDataComponent PROVE FALSE
      OBVIOUS
    <2>1. rq \in Seq(RegistryItem) /\ rq # <<>> /\ Head(rq).op = "recieved"
      BY <1>0 DEF TypeOK, AllocateRecievedDataComponent, OnRegistry
    <2>2. Head(rq) \in RegistryItem
      BY <2>1, QueueType
    <2>3. Head(rq).c \in Conn
      BY <2>1, <2>2 DEF RegistryItem
    <2>4. InQueue(rq, "recieved", Head(rq).c)
      BY <2>1, QueueStages
    <2> QED
      BY <1>0, <2>3, <2>4 DEF NoWs
  <1>4. ASSUME CloseNetworkResources PROVE UNCHANGED <<ops, reg>>
    <2>1. \A e \in Entities : reg[e].ws = 0
      <3> SUFFICES ASSUME NEW e \in Conn, reg[e].ws # 0 PROVE FALSE
        BY DEF Entities
      <3>1. reg[e].ws \in Conn
        BY <1>0, BoundAssumption DEF TypeOK, Entity, Conn
      <3> QED
        BY <1>0, <3>1 DEF NoWs, At
    <2> QED
      BY <1>4, <2>1 DEF CloseNetworkResources
  <1> QED
    BY <1>1, <1>2, <1>3, <1>4

\* An entity that can be reused holds no result that waits for the systems.
LEMMA ReusableIsProcessed ==
    ASSUME HttpInv, NEW e \in Reusable
    PROVE  /\ ResultsProcessed(reg[e])
           /\ \A c \in Conn, s \in Stage : At(s, c) => ent[c] # e
  <1>0. StageInv /\ TypeOK /\ Lives
    BY DEF HttpInv, HttpOnly, StreamInv, Inv
  <1>1. e \in Conn /\ "Unused" \in reg[e].tags /\ reg[e] \in Entity
    BY <1>0 DEF Reusable, Entities, TypeOK
  <1>2. \A c \in Conn, s \in Stage : At(s, c) => ent[c] # e
    BY <1>0, <1>1 DEF Lives, Owns
  <1>3. ASSUME reg[e].acc # None, "UnusedAcceptResult" \notin reg[e].tags PROVE FALSE
    <2>1. PICK c \in Conn : c = reg[e].acc.c
      BY <1>1, <1>3 DEF Entity, Result
    <2>2. At("accResult", c) /\ ent[c] = e
      BY <1>0, <1>1, <1>3, <2>1 DEF At, AccWaits, StageInv, Belongs
    <2> QED
      BY <1>2, <2>2 DEF Stage, Early
  <1>4. ASSUME reg[e].ssl # None, "UnusedSSLDetectResult" \notin reg[e].tags PROVE FALSE
    <2>1. PICK c \in Conn : c = reg[e].ssl.c
      BY <1>1, <1>4 DEF Entity, Result
    <2>2. At("sslResult", c) /\ ent[c] = e
      BY <1>0, <1>1, <1>4, <2>1 DEF At, SslWaits, StageInv, Belongs
    <2> QED
      BY <1>2, <2>2 DEF Stage, Detecting
  <1> QED
    BY <1>2, <1>3, <1>4 DEF ResultsProcessed

-----------------------------------------------------------------------------
(***************************************************************************)
(* Steps that leave the entities alone.                                    *)
(***************************************************************************)
\* The detector, the HTTP channel and the completion of an accept.
LEMMA PlainHttp ==
    ASSUME "upgrade" \notin Env, HttpInv, NEW c \in Conn,
           \/ (IocRuns /\ OnAccept(c)) \/ RunDetector(c) \/ OnDetected(c)
           \/ HttpDoRead(c) \/ HttpOnRead(c) \/ HttpOnWrite(c)
    PROVE  HttpOnly'
  <1>0. /\ StreamInv /\ StageInv /\ TypeOK /\ NoWs /\ MarkedOnce /\ InOrder /\ Lives /\ Stops
        /\ NeverAborts /\ rq \in Seq(RegistryItem) /\ astrand \in Seq(AcceptorItem)
    BY DEF HttpInv, HttpOnly, StreamInv, Inv, TypeOK
  <1>1. PICK a \in PlainOp, b \in Stage :
          /\ Op(a, c) \in ops /\ Hands(c, a, b) /\ Follows(a, b)
          /\ b = "upgrade" => "upgrade" \in Env
    BY <1>0, PlainSteps
  <1>2. SameAcceptor /\ UNCHANGED <<phase, acceptorOpen, ent, reg, orphans>>
    BY <1>0, PlainSteps
  <1>3. \A d \in Conn, s \in Stage :
          At(s, d)' <=> (At(s, d) /\ ~(d = c /\ s = a)) \/ (d = c /\ s = b)
    BY <1>0, <1>1, <1>2, HandsStages
  <1>4. a \in Stage /\ At(a, c) /\ b # "upgrade" /\ b # "ws" /\ a \notin Late
    BY <1>1 DEF At, Hands, PlainOp, Carrier, Stage, Early, Detecting, Reading, Late
  <1>5. \/ b \in PlainOp /\ rq' = rq
        \/ \E t \in RegistryItem : /\ t.op = b /\ t.c = c /\ rq' = Append(rq, t)
                                   /\ b \in Carrier \cup {"markUnused"}
    BY <1>1 DEF Hands
  <1>6. NoWs'
    <2>1. \A d \in Conn : ~At("ws", d)' /\ ~At("upgrade", d)'
      BY <1>0, <1>3, <1>4 DEF NoWs, Stage, Late, Reading
    <2>2. \A d \in Conn : ~InQueue(rq', "recieved", d)
      <3>1. \A d \in Conn : ~InQueue(rq, "recieved", d)
        BY <1>0 DEF NoWs
      <3>2. ASSUME NEW t \in RegistryItem, t.op \in Carrier \cup {"markUnused"}, rq' = Append(rq, t)
            PROVE  \A d \in Conn : ~InQueue(rq', "recieved", d)
        <4>1. t.op # "recieved"
          BY <3>2 DEF Carrier
        <4> QED
          BY <1>0, <3>1, <3>2, <4>1, QueueStages
      <3> QED
        BY <1>5, <3>1, <3>2
    <2>3. \A d \in Conn : Op("wsDoEof", d) \notin ops'
      BY <1>0, <1>1, ItemFields DEF NoWs, Hands, PlainOp
    <2> QED
      BY <1>0, <1>2, <2>1, <2>2, <2>3 DEF NoWs
  <1>7. MarkedOnce'
    <2> SUFFICES ASSUME NEW d \in Conn PROVE Once(rq', "markUnused", d)
      BY DEF MarkedOnce
    <2>1. Once(rq, "markUnused", d)
      BY <1>0 DEF MarkedOnce
    <2>2. ~InQueue(rq, "markUnused", c)
      <3>1. ~At("markUnused", c)
        BY <1>0, <1>4 DEF StageInv, Exclusive, Stage, Late
      <3> QED
        BY <3>1 DEF At
    <2>3. ASSUME NEW t \in RegistryItem, t.op = b, t.c = c, rq' = Append(rq, t)
          PROVE  Once(rq', "markUnused", d)
      BY <1>0, <2>1, <2>2, <2>3, QueueStages
    <2> QED
      BY <1>5, <2>1, <2>3
  <1>8. InOrder'
    BY <1>0, <1>2 DEF InOrder
  <1>9. Lives'
    <2>1. \A d \in Conn, s \in Stage : Owns(s, d)' <=> Owns(s, d)
      BY <1>2 DEF Owns, Serves
    <2>2. Owns(b, c)
      BY <1>0, <1>1, <1>4 DEF Lives, Owns, Follows
    <2> QED
      BY <1>0, <1>3, <2>1, <2>2 DEF Lives
  <1> QED
    BY <1>0, <1>2, <1>6, <1>7, <1>8, <1>9 DEF HttpOnly, NeverAborts

\* The completion of an accept that finds the io_context stopped.
LEMMA StoppedAcceptHttp ==
    ASSUME HttpInv, NEW c \in Conn, OnAccept(c), ~IocRuns
    PROVE  HttpOnly'
  <1>0. /\ StreamInv /\ NoWs /\ MarkedOnce /\ InOrder /\ Lives /\ NeverAborts
    BY DEF HttpInv, HttpOnly
  <1>1. /\ \A d \in Conn, s \in Stage : At(s, d)' => At(s, d)
        /\ UNCHANGED <<phase, ent, reg, rq, orphans>>
        /\ ops' \subseteq ops
    BY <1>0, StoppedAcceptStages
  <1>2. NoWs'
    BY <1>0, <1>1 DEF NoWs, Stage, Late, Reading
  <1>3. MarkedOnce' /\ InOrder' /\ NeverAborts'
    BY <1>0, <1>1 DEF MarkedOnce, InOrder, NeverAborts
  <1>4. Lives'
    <2>1. \A d \in Conn, s \in Stage : Owns(s, d)' <=> Owns(s, d)
      BY <1>1 DEF Owns, Serves
    <2> QED
      BY <1>0, <1>1, <2>1 DEF Lives
  <1> QED
    BY <1>2, <1>3, <1>4 DEF HttpOnly

\* doAccept, stopAcceptor, and what unload does.
LEMMA QuietHttp ==
    ASSUME HttpInv,
           \/ DoAccept \/ StopAcceptor \/ CloseNetworkResources \/ CheckRegistryEmpty
           \/ Unload \/ ValidateAndFreeNetworkResources \/ StopIOContext \/ UNCHANGED vars
    PROVE  HttpOnly'
  <1>0. /\ StreamInv /\ TypeOK /\ NoWs /\ MarkedOnce /\ InOrder /\ Lives /\ NeverAborts
        /\ rq \in Seq(RegistryItem)
    BY DEF HttpInv, HttpOnly, StreamInv, Inv, TypeOK
  <1>1. SameStages /\ SameTasks
    BY <1>0, QuietSteps
  <1>2. UNCHANGED <<ent, reg, ops, orphans>>
    <2>1. CASE CloseNetworkResources
      BY <2>1, NoWsSteps DEF CloseNetworkResources
    <2>2. CASE ~CloseNetworkResources
      BY <2>2 DEF DoAccept, StopAcceptor, CheckRegistryEmpty, Unload,
         ValidateAndFreeNetworkResources, StopIOContext, vars
    <2> QED
      BY <2>1, <2>2
  <1>3. \A d \in Conn : ~InQueue(rq', "recieved", d)
    <2>1. \A d \in Conn : ~InQueue(rq, "recieved", d)
      BY <1>0 DEF NoWs
    <2>2. CASE DoAccept
      <3>1. rq' = rq \/ rq' = Append(rq, Do("alloc", 0))
        BY <2>2, Zenon DEF DoAccept, PostReg
      <3>2. Do("alloc", 0) \in RegistryItem /\ Do("alloc", 0).op = "alloc"
        BY ItemTypes, ItemFields
      <3>3. \A d \in Conn : ~InQueue(Append(rq, Do("alloc", 0)), "recieved", d)
        BY <1>0, <2>1, <3>2, QueueStages
      <3> QED
        BY <2>1, <3>1, <3>3
    <2>3. CASE CloseNetworkResources \/ CheckRegistryEmpty
      <3>1. rq # <<>> /\ rq' = Tail(rq)
        BY <2>3 DEF CloseNetworkResources, CheckRegistryEmpty, OnRegistry
      <3> QED
        BY <1>0, <2>1, <3>1, QueueStages
    <2>4. CASE ValidateAndFreeNetworkResources
      <3> DEFINE t == Do("closeAll", 0)
                 u == Do("check", 0)
                 q == Append(rq, t)
      <3>1. t \in RegistryItem /\ u \in RegistryItem /\ t.op # "recieved" /\ u.op # "recieved"
        BY ItemTypes, ItemFields
      <3>2. rq' = rq \o <<t, u>>
        BY <2>4 DEF ValidateAndFreeNetworkResources
      <3> HIDE DEF t, u
      <3>3. rq' = Append(q, u)
        BY <1>0, <3>1, <3>2
      <3>4. q \in Seq(RegistryItem)
        BY <1>0, <3>1, QueueType
      <3>5. \A d \in Conn : ~InQueue(q, "recieved", d)
        BY <1>0, <2>1, <3>1, QueueStages
      <3> HIDE DEF q
      <3> QED
        BY <3>1, <3>3, <3>4, <3>5, QueueStages
    <2>5. CASE StopAcceptor \/ Unload \/ StopIOContext \/ UNCHANGED vars
      BY <2>1, <2>5 DEF StopAcceptor, Unload, StopIOContext, vars
    <2> QED
      BY <2>2, <2>3, <2>4, <2>5
  <1>4. NoWs'
    BY <1>0, <1>1, <1>2, <1>3 DEF NoWs, SameStages, Stage, Late, Reading
  <1>5. MarkedOnce' /\ InOrder'
    BY <1>0, <1>1, <1>2 DEF MarkedOnce, InOrder, SameTasks
  <1>6. Lives'
    <2>1. \A d \in Conn, s \in Stage : Owns(s, d)' <=> Owns(s, d)
      BY <1>2 DEF Owns, Serves
    <2> QED
      BY <1>0, <1>1, <2>1 DEF Lives, SameStages
  <1>7. NeverAborts'
    BY <1>0 DEF NeverAborts, DoAccept, StopAcceptor, CloseNetworkResources, CheckRegistryEmpty,
       Unload, ValidateAndFreeNetworkResources, StopIOContext, vars
  <1> QED
    BY <1>4, <1>5, <1>6, <1>7 DEF HttpOnly

\* asyncAccept.
LEMMA AsyncAcceptHttp ==
    ASSUME HttpInv, AsyncAccept
    PROVE  HttpOnly'
  <1>0. /\ StreamInv /\ TypeOK /\ NoWs /\ MarkedOnce /\ InOrder /\ Lives /\ Stops /\ NeverAborts
    BY DEF HttpInv, HttpOnly, StreamInv, Inv
  <1>1. PICK c \in Conn :
          /\ At("asyncAccept", c)
          /\ \A d \in Conn, s \in Stage :
               At(s, d)' => (At(s, d) /\ s # "asyncAccept") \/ (d = c /\ s = "accept")
    BY <1>0, AsyncAcceptStages
  <1>2. /\ UNCHANGED <<ent, reg, rq>>
        /\ \A d \in Conn, o \in WsOp \cup {"wsDoEof"} : Op(o, d) \in ops' <=> Op(o, d) \in ops
    BY <1>0, AsyncAcceptStages
  <1>3. UNCHANGED <<phase, acceptorOpen, orphans>> /\ astrand # <<>> /\ astrand' = Tail(astrand)
    BY DEF AsyncAccept, OnAcceptorStrand
  <1>4. NoWs'
    BY <1>0, <1>1, <1>2, <1>3 DEF NoWs, Stage, Late, Reading
  <1>5. MarkedOnce' /\ InOrder'
    BY <1>0, <1>2 DEF MarkedOnce, InOrder
  <1>6. Lives'
    <2>1. \A d \in Conn, s \in Stage : Owns(s, d)' <=> Owns(s, d)
      BY <1>2 DEF Owns, Serves
    <2>2. Owns("accept", c)
      BY <1>0, <1>1 DEF Lives, Owns, Stage, Early, Detecting, Reading
    <2> QED
      BY <1>0, <1>1, <2>1, <2>2 DEF Lives
  <1> QED
    BY <1>0, <1>3, <1>4, <1>5, <1>6 DEF HttpOnly, NeverAborts

-----------------------------------------------------------------------------
(***************************************************************************)
(* Steps of the registry sequence.                                         *)
(***************************************************************************)
\* The tasks that a strand posts.
LEMMA TaskHttp ==
    ASSUME HttpInv, SetAcceptConnectionResult \/ SetSSLDetectResult \/ MarkUnused
    PROVE  HttpOnly'
  <1>0. /\ StreamInv /\ StageInv /\ TypeOK /\ NoWs /\ MarkedOnce /\ InOrder /\ Lives /\ Stops
        /\ NeverAborts /\ rq \in Seq(RegistryItem)
    BY DEF HttpInv, HttpOnly, StreamInv, Inv, TypeOK
  <1>1. PICK op \in Carrier \cup {"markUnused"}, c \in Conn : TaskStep(op, c)
    BY <1>0, TaskSteps
  <1>2. /\ OnRegistry(op) /\ c = Head(rq).c /\ rq' = Tail(rq) /\ TaskEffect(ent[c], c, op)
        /\ UNCHANGED <<phase, acceptorOpen, astrand, ent, orphans>>
        /\ ops' = ops \/ op = "upgrade"
    BY <1>1 DEF TaskStep
  <1>3. /\ ent[c] \in Conn /\ At(op, c) /\ op \in Stage /\ op # "upgrade"
        /\ op \in Carrier => ~InQueue(rq', op, c)
    <2>1. ent[c] \in Conn /\ At(op, c) /\ (op \in Carrier => ~InQueue(rq', op, c))
      BY <1>0, <1>2, TaskTaken
    <2> QED
      BY <1>0, <2>1 DEF NoWs, Carrier, Stage, Early, Detecting, Reading, Late
  <1>4. rq # <<>> /\ Head(rq).op = op /\ ops' = ops
    BY <1>2, <1>3 DEF OnRegistry
  <1>5. \A d \in Conn : Once(rq', "markUnused", d)
    BY <1>0, <1>2, <1>4, QueueStages DEF MarkedOnce
  <1>6. ~At(op, c)'
    <2>1. op = "markUnused" => ~InQueue(rq', op, c)
      BY <1>0, <1>2, <1>4, QueueStages DEF MarkedOnce
    <2> QED
      BY <1>3, <2>1 DEF At, PlainOp, Carrier
  <1>7. PICK e \in Conn : e = ent[c]
    BY <1>3
  <1>8. /\ Owns(op, c)
        /\ \A d \in Conn, t \in Stage : At(t, d) /\ ent[d] = e => d = c /\ t = op
    BY <1>3, <1>7, OneLive
  <1>9. \A d \in Conn, s \in Stage :
          At(s, d)' /\ ~At(s, d) => d = c /\ s = AfterTask(op) /\ op \in Carrier
    BY <1>0, <1>1, EffectStages
  <1>10. TaskEffect(e, c, op)
    BY <1>2, <1>7
  <1>11. NoWs'
    <2>1. \A d \in Conn : ~At("ws", d)' /\ ~At("upgrade", d)'
      <3>1. op \in Carrier => AfterTask(op) \notin {"ws", "upgrade"}
        BY <1>3 DEF AfterTask, Carrier
      <3>2. "ws" \in Stage /\ "upgrade" \in Stage
        BY DEF Stage, Late, Reading
      <3> QED
        BY <1>0, <1>9, <3>1, <3>2 DEF NoWs
    <2>2. \A d \in Conn : ~InQueue(rq', "recieved", d)
      BY <1>0, <1>2, <1>4, QueueStages DEF NoWs
    <2>3. \A d \in Conn : reg'[d].kids = {}
      BY <1>0, <1>10 DEF NoWs, TaskEffect
    <2> QED
      BY <1>0, <1>2, <1>4, <2>1, <2>2, <2>3 DEF NoWs
  <1>12. Lives'
    <2> SUFFICES ASSUME NEW d \in Conn, NEW s \in Stage, At(s, d)'
                 PROVE  Owns(s, d)'
      BY DEF Lives
    <2>1. CASE ent[d] # e
      <3>1. At(s, d)
        BY <1>7, <1>9, <2>1
      <3>2. Owns(s, d) /\ ent[d] \in Conn
        BY <3>1, OneLive
      <3>3. reg'[ent[d]] = reg[ent[d]]
        BY <1>10, <2>1, <3>2 DEF TaskEffect
      <3> QED
        BY <1>2, <3>2, <3>3 DEF Owns, Serves
    <2>2. CASE ent[d] = e
      <3>1. ~At(s, d)
        BY <1>6, <1>8, <2>2
      <3>2. d = c /\ s = AfterTask(op) /\ op \in Carrier
        BY <1>9, <3>1
      <3>3. /\ s \in {"accResult", "sslResult"} /\ op # "markUnused"
            /\ s \in Detecting => op \in Detecting
            /\ s \notin Reading
        BY <1>3, <3>2 DEF AfterTask, Carrier, Detecting, Reading
      <3>4. reg'[e].valid /\ "Unused" \notin reg'[e].tags /\ reg'[e].detect = reg[e].detect
        BY <1>7, <1>8, <1>10, <3>3 DEF Owns, TaskEffect
      <3>5. Serves(ent[d], d)' /\ ent'[d] = e
        BY <1>2, <1>8, <2>2, <3>2 DEF Owns, Serves
      <3>6. s \in Detecting => reg'[e].detect = d
        BY <1>7, <1>8, <3>2, <3>3, <3>4 DEF Owns
      <3> QED
        BY <3>3, <3>4, <3>5, <3>6 DEF Owns
    <2> QED
      BY <2>1, <2>2
  <1>14. MarkedOnce' /\ InOrder' /\ NeverAborts'
    BY <1>0, <1>2, <1>5 DEF MarkedOnce, InOrder, NeverAborts
  <1> QED
    BY <1>11, <1>12, <1>14 DEF HttpOnly

\* allocateTcpResourceAndAccept: no CHECK fails, and nobody uses the entity that
\* it gives to the new connection.
LEMMA AllocHttp ==
    ASSUME HttpInv, AllocateTcpResourceAndAccept
    PROVE  HttpOnly'
  <1>0. /\ StreamInv /\ StageInv /\ TypeOK /\ NoWs /\ MarkedOnce /\ InOrder /\ Lives /\ Stops
        /\ NeverAborts /\ rq \in Seq(RegistryItem) /\ rq # <<>> /\ rq' = Tail(rq)
        /\ Head(rq).op = "alloc"
    BY DEF HttpInv, HttpOnly, StreamInv, Inv, TypeOK, AllocateTcpResourceAndAccept, OnRegistry
  <1>1. PICK c \in Conn, e \in Conn : AllocEffect(c, e)
    BY <1>0, AllocSteps, ReusableIsProcessed
  <1>2. /\ \A d \in Conn, s \in Stage : At(s, d)' => At(s, d) \/ (d = c /\ s = "asyncAccept")
        /\ SameTasks /\ UNCHANGED <<acceptorOpen, ops, orphans>>
        /\ \A d \in Conn \ {c} : ent'[d] = ent[d]
        /\ ent'[c] = e
        /\ \A d \in Conn : ent[d] # 0 => ent[d] \in Conn /\ ent[d] # c
    BY <1>0, <1>1, AllocStages
  <1>3. /\ c \in NextConn /\ ent[c] = 0 /\ (e = c \/ e \in Reusable) /\ e # 0
        /\ \A f \in Conn \ {e} : reg'[f] = reg[f]
        /\ reg'[e].valid /\ "Unused" \notin reg'[e].tags /\ reg'[e].kids = reg[e].kids
        /\ UNCHANGED phase
    BY <1>1, ConnFacts DEF AllocEffect
  <1>4. NoWs'
    <2>1. \A d \in Conn : ~At("ws", d)' /\ ~At("upgrade", d)'
      BY <1>0, <1>2 DEF NoWs, Stage, Late, Reading
    <2>2. \A d \in Conn : ~InQueue(rq', "recieved", d)
      BY <1>0, QueueStages DEF NoWs
    <2>3. \A d \in Conn : reg'[d].kids = {}
      BY <1>0, <1>3 DEF NoWs
    <2> QED
      BY <1>0, <1>2, <2>1, <2>2, <2>3 DEF NoWs
  <1>5. MarkedOnce'
    BY <1>0, <1>2 DEF MarkedOnce, SameTasks
  <1>6. InOrder'
    <2>1. \A d \in Conn : d < c => ent[d] # 0
      BY <1>3 DEF NextConn, Allocated
    <2>2. \A d \in Conn : ent'[d] # 0 <=> ent[d] # 0 \/ d = c
      BY <1>2, <1>3
    <2> QED
      BY <1>0, <2>1, <2>2 DEF InOrder
  <1>7. Lives'
    <2> SUFFICES ASSUME NEW d \in Conn, NEW s \in Stage, At(s, d)'
                 PROVE  Owns(s, d)'
      BY DEF Lives
    <2>1. CASE At(s, d)
      <3>1. Owns(s, d) /\ ent[d] \in Conn /\ ent[d] # 0
        BY <2>1, OneLive, ConnFacts
      <3>2. d # c /\ ent'[d] = ent[d] /\ ent[d] # c
        BY <1>2, <1>3, <3>1
      <3>3. ent[d] # e
        BY <1>3, <2>1, <3>2, ReusableIsProcessed
      <3>4. reg'[ent[d]] = reg[ent[d]]
        BY <1>3, <3>1, <3>3
      <3>5. Serves(ent[d], d)'
        BY <1>2, <3>1, <3>2, <3>3 DEF Owns, Serves
      <3> QED
        BY <3>1, <3>2, <3>4, <3>5 DEF Owns
    <2>2. CASE d = c /\ s = "asyncAccept"
      <3>1. ASSUME NEW x \in Conn, ent'[x] = e PROVE x <= c
        <4>1. CASE x = c
          BY <4>1, BoundAssumption DEF Conn
        <4>2. CASE x # c
          <5>1. ent[x] # 0
            BY <1>2, <1>3, <3>1, <4>2
          <5>2. ~(c < x)
            BY <1>0, <1>3, <5>1 DEF InOrder
          <5> QED
            BY <5>2, BoundAssumption DEF Conn
        <4> QED
          BY <4>1, <4>2
      <3>2. Serves(ent[d], d)'
        BY <1>2, <2>2, <3>1 DEF Serves
      <3> QED
        BY <1>2, <1>3, <2>2, <3>2 DEF Owns, Detecting, Reading
    <2> QED
      BY <1>2, <2>1, <2>2
  <1> QED
    BY <1>0, <1>3, <1>4, <1>5, <1>6, <1>7 DEF HttpOnly, NeverAborts

-----------------------------------------------------------------------------
(***************************************************************************)
(* A pass of the systems.                                                  *)
(***************************************************************************)
\* Why a pass destroys an entity that was not marked: a bad result, for which no
\* channel is created.  An entity without children leaves none behind.
LEMMA PassCauses ==
    ASSUME NEW r \in Entity, "NeedToDestroy" \notin r.tags
    PROVE  /\ UpdatePass(r) = Absent /\ r.valid /\ "Unused" \notin r.tags =>
                \/ AccWaits(r, r.acc.c) /\ r.acc # None /\ AfterResults(r).detect = r.detect
                \/ SslWaits(r, r.ssl.c) /\ r.ssl # None /\ AfterResults(r).http = r.http
           /\ r.kids = {} => BeforeCleanup(r).kids = {} /\ UpdatePass(r).kids = {}
  <1> DEFINE r1 == UpdateNewConnections(r)
             r2 == UpdateSSLDetection(r1)
             r3 == UpdateUnusedChildList(r2)
             r4 == UpdateDelayedConstructionJustDone(r3)
             r5 == UpdateDelayedConstruction(r4)
             r6 == UpdateUnusedSystem(r5)
  <1>1. /\ r1 \in Entity
        /\ r1.valid = r.valid /\ r1.ssl = r.ssl /\ r1.http = r.http /\ r1.kids = r.kids
        /\ "UnusedSSLDetectResult" \in r.tags => "UnusedSSLDetectResult" \in r1.tags
        /\ "NeedToDestroy" \notin r1.tags
        /\ "Unused" \in r1.tags /\ "Unused" \notin r.tags =>
             /\ "UnusedAcceptResult" \notin r.tags /\ r.acc # None /\ r1.detect = r.detect
    BY ConnFacts DEF Entity, UpdateNewConnections, HandleAcceptResult, NewAccept, Visible,
       AddTag, Result, Tag
  <1> HIDE DEF r1
  <1>2. /\ r2 \in Entity
        /\ r2.valid = r1.valid /\ r2.detect = r1.detect /\ r2.kids = r1.kids
        /\ "NeedToDestroy" \notin r2.tags
        /\ "Unused" \in r2.tags /\ "Unused" \notin r1.tags =>
             /\ "UnusedSSLDetectResult" \notin r1.tags /\ r1.ssl # None /\ r2.http = r1.http
    BY <1>1, ConnFacts DEF Entity, UpdateSSLDetection, HandleSSLDetectResult, NewSSLDetect, Visible,
       AddTag, Result, Tag
  <1> HIDE DEF r2
  <1>3. /\ r3 \in Entity /\ r3.valid = r2.valid /\ r3.tags = r2.tags
        /\ r2.kids = {} => r3.kids = {}
    BY <1>2 DEF Entity, UpdateUnusedChildList
  <1> HIDE DEF r3
  <1>4. /\ r4 \in Entity /\ r4.valid = r3.valid /\ r4.kids = r3.kids
        /\ r4.tags = r3.tags \ {"JustDone"} \/ r4.tags = r3.tags
    BY <1>3 DEF Entity, UpdateDelayedConstructionJustDone
  <1> HIDE DEF r4
  <1>5. /\ r5 \in Entity /\ r5.valid = r4.valid /\ r5.kids = r4.kids
        /\ \/ r5.tags = (r4.tags \ {"DelayedConstruction"}) \cup {"JustDone"}
           \/ r5.tags = r4.tags
    BY <1>4 DEF Entity, UpdateDelayedConstruction, Tag
  <1> HIDE DEF r5
  <1>6. r6.kids = r5.kids /\ ("Unused" \notin r5.tags => r6 = r5)
    BY <1>5 DEF Entity, UpdateUnusedSystem, AddTag
  <1> HIDE DEF r6
  <1>7. /\ AfterResults(r) = r2 /\ BeforeCleanup(r) = r6
        /\ UpdatePass(r) = UpdateCleanupSystem(r6)
    BY DEF AfterResults, BeforeCleanup, UpdatePass, r1, r2, r3, r4, r5, r6
  <1>8. Absent.valid = FALSE /\ Absent.kids = {}
    BY DEF Absent
  <1>9. r.kids = {} => BeforeCleanup(r).kids = {} /\ UpdatePass(r).kids = {}
    BY <1>1, <1>2, <1>3, <1>4, <1>5, <1>6, <1>7, <1>8 DEF UpdateCleanupSystem
  <1>10. "NeedToDestroy" \notin r5.tags /\ ("Unused" \in r5.tags <=> "Unused" \in r2.tags)
    BY <1>2, <1>3, <1>4, <1>5
  <1>11. UpdatePass(r) = Absent /\ r.valid => "Unused" \in r2.tags
    <2> SUFFICES ASSUME "Unused" \notin r2.tags, r.valid PROVE UpdatePass(r) # Absent
      OBVIOUS
    <2>1. UpdatePass(r) = r5
      BY <1>6, <1>7, <1>10 DEF UpdateCleanupSystem
    <2>2. r5.valid = r.valid
      BY <1>1, <1>2, <1>3, <1>4, <1>5
    <2> QED
      BY <1>8, <2>1, <2>2
  <1>12. "Unused" \in r2.tags /\ "Unused" \notin r.tags =>
           \/ AccWaits(r, r.acc.c) /\ r.acc # None /\ r2.detect = r.detect
           \/ SslWaits(r, r.ssl.c) /\ r.ssl # None /\ r2.http = r.http
    BY <1>1, <1>2 DEF AccWaits, SslWaits
  <1> QED
    BY <1>7, <1>9, <1>11, <1>12

\* The closures that a pass posts are for the channels that it creates.
LEMMA PassPosts ==
    ASSUME StreamInv, Update, NEW d \in Conn
    PROVE  /\ Op("runDetector", d) \in ops' /\ Op("runDetector", d) \notin ops =>
                /\ AfterResults(reg[ent[d]]).detect = d
                /\ reg[ent[d]].detect # d
           /\ Op("httpDoRead", d) \in ops' /\ Op("httpDoRead", d) \notin ops =>
                /\ AfterResults(reg[ent[d]]).http = d
                /\ reg[ent[d]].http # d
  <1> DEFINE S(e) == AfterResults(reg[e])
  <1>0. StageInv /\ TypeOK
    BY DEF StreamInv, Inv
  <1>1. ops' = ops \cup UNION {PostedByPass(e) : e \in Entities}
    BY DEF Update
  <1>2. \A e : PostedByPass(e) =
          (IF S(e).detect # reg[e].detect THEN {Op("runDetector", S(e).detect)} ELSE {})
            \cup (IF S(e).http # reg[e].http THEN {Op("httpDoRead", S(e).http)} ELSE {})
    BY DEF PostedByPass
  <1>3. \A e \in Conn : PassEffect(reg[e], S(e), reg'[e])
    BY UpdateFacts
  <1> HIDE DEF S
  <1>4. ASSUME Op("runDetector", d) \in ops', Op("runDetector", d) \notin ops
        PROVE  S(ent[d]).detect = d /\ reg[ent[d]].detect # d
    <2>1. PICK e \in Entities : Op("runDetector", d) \in PostedByPass(e)
      BY <1>1, <1>4
    <2>2. S(e).detect # reg[e].detect /\ d = S(e).detect /\ e \in Conn
      BY <1>2, <2>1, ItemFields DEF Entities
    <2>3. d = reg[e].acc.c
      BY <1>3, <2>2 DEF PassEffect
    <2>4. ent[d] = e
      BY <1>0, <2>2, <2>3 DEF StageInv, Belongs
    <2> QED
      BY <2>2, <2>4
  <1>5. ASSUME Op("httpDoRead", d) \in ops', Op("httpDoRead", d) \notin ops
        PROVE  S(ent[d]).http = d /\ reg[ent[d]].http # d
    <2>1. PICK e \in Entities : Op("httpDoRead", d) \in PostedByPass(e)
      BY <1>1, <1>5
    <2>2. S(e).http # reg[e].http /\ d = S(e).http /\ e \in Conn
      BY <1>2, <2>1, ItemFields DEF Entities
    <2>3. d = reg[e].ssl.c
      BY <1>3, <2>2 DEF PassEffect
    <2>4. ent[d] = e
      BY <1>0, <2>2, <2>3 DEF StageInv, Belongs
    <2> QED
      BY <2>2, <2>4
  <1> QED
    BY <1>4, <1>5 DEF S

\* A connection that is at some stage after a pass still has its entity, and the
\* channel for this stage.
LEMMA UpdateLives ==
    ASSUME HttpInv, Update, StageInv'
    PROVE  Lives'
  <1>0. /\ StreamInv /\ StageInv /\ TypeOK /\ NoWs /\ Lives
    BY DEF HttpInv, HttpOnly, StreamInv, Inv
  <1> SUFFICES ASSUME NEW d \in Conn, NEW s \in Stage, At(s, d)'
               PROVE  Owns(s, d)'
    BY DEF Lives
  <1>1. PICK a \in Stage :
          /\ At(a, d)
          /\ \/ a = s
             \/ a = "accResult" /\ s = "runDetector" /\ ~At("runDetector", d)
             \/ a = "sslResult" /\ s = "httpDoRead" /\ ~At("httpDoRead", d)
    <2>1. "accResult" \in Stage /\ "sslResult" \in Stage
      BY DEF Stage, Early, Detecting
    <2> QED
      BY <1>0, <2>1, UpdateMoves
  <1>2. PICK e \in Conn : e = ent[d]
    BY <1>1, OneLive
  <1>3. /\ Owns(a, d)
        /\ \A x \in Conn, t \in Stage : At(t, x) /\ ent[x] = e => x = d /\ t = a
    BY <1>1, <1>2, OneLive
  <1>4. UNCHANGED <<ent>> /\ PassEffect(reg[e], AfterResults(reg[e]), reg'[e])
    BY <1>0, UpdateFacts
  <1>5. /\ reg[e] \in Entity /\ "NeedToDestroy" \notin reg[e].tags /\ reg[e].valid
        /\ "Unused" \notin reg[e].tags /\ reg'[e] = UpdatePass(reg[e])
    BY <1>0, <1>2, <1>3 DEF TypeOK, StageInv, Known, Owns, Update
  <1>6. /\ AccWaits(reg[e], reg[e].acc.c) /\ reg[e].acc # None => reg[e].acc.c = d /\ a = "accResult"
        /\ SslWaits(reg[e], reg[e].ssl.c) /\ reg[e].ssl # None => reg[e].ssl.c = d /\ a = "sslResult"
    <2>1. ASSUME AccWaits(reg[e], reg[e].acc.c), reg[e].acc # None
          PROVE  reg[e].acc.c = d /\ a = "accResult"
      <3>1. PICK x \in Conn : x = reg[e].acc.c
        BY <1>5, <2>1 DEF Entity, Result
      <3>2. At("accResult", x) /\ ent[x] = e /\ "accResult" \in Stage
        BY <1>0, <2>1, <3>1 DEF At, StageInv, Belongs, Stage, Early
      <3> QED
        BY <1>3, <3>1, <3>2
    <2>2. ASSUME SslWaits(reg[e], reg[e].ssl.c), reg[e].ssl # None
          PROVE  reg[e].ssl.c = d /\ a = "sslResult"
      <3>1. PICK x \in Conn : x = reg[e].ssl.c
        BY <1>5, <2>2 DEF Entity, Result
      <3>2. At("sslResult", x) /\ ent[x] = e /\ "sslResult" \in Stage
        BY <1>0, <2>2, <3>1 DEF At, StageInv, Belongs, Stage, Detecting
      <3> QED
        BY <1>3, <3>1, <3>2
    <2> QED
      BY <2>1, <2>2
  <1>7. s = "runDetector" /\ a = "accResult" =>
          AfterResults(reg[e]).detect = d /\ reg[e].detect # d
    <2> SUFFICES ASSUME s = "runDetector", a = "accResult"
                 PROVE  AfterResults(reg[e]).detect = d /\ reg[e].detect # d
      OBVIOUS
    <2>1. Op("runDetector", d) \in ops' /\ Op("runDetector", d) \notin ops
      BY <1>1 DEF At, PlainOp, Carrier
    <2> QED
      BY <1>0, <1>2, <2>1, PassPosts
  <1>8. s = "httpDoRead" /\ a = "sslResult" =>
          AfterResults(reg[e]).http = d /\ reg[e].http # d
    <2> SUFFICES ASSUME s = "httpDoRead", a = "sslResult"
                 PROVE  AfterResults(reg[e]).http = d /\ reg[e].http # d
      OBVIOUS
    <2>1. Op("httpDoRead", d) \in ops' /\ Op("httpDoRead", d) \notin ops
      BY <1>1 DEF At, PlainOp, Carrier
    <2> QED
      BY <1>0, <1>2, <2>1, PassPosts
  <1>9. reg'[e] # Absent
    <2> SUFFICES ASSUME reg'[e] = Absent PROVE FALSE
      OBVIOUS
    <2>1. Absent.acc.c = 0 /\ Absent.ssl.c = 0 /\ d # 0
      BY ConnFacts DEF Absent, None
    <2>2. ~At("accResult", d)' /\ ~At("sslResult", d)'
      <3>1. \A f \in Conn : AccWaits(reg'[f], d) \/ SslWaits(reg'[f], d) => f = e
        BY <1>2, <1>4 DEF StageInv, Belongs, AccWaits, SslWaits
      <3>2. ~AccWaits(reg'[e], d) /\ ~SslWaits(reg'[e], d)
        BY <2>1 DEF AccWaits, SslWaits
      <3> QED
        BY <3>1, <3>2 DEF At, PlainOp, Carrier
    <2>3. \/ a = "accResult" /\ AfterResults(reg[e]).detect = reg[e].detect
          \/ a = "sslResult" /\ AfterResults(reg[e]).http = reg[e].http
      BY <1>5, <1>6, PassCauses
    <2> QED
      BY <1>1, <1>7, <1>8, <2>2, <2>3
  <1>10. /\ reg'[e].valid /\ "Unused" \notin reg'[e].tags
         /\ reg'[e].detect = AfterResults(reg[e]).detect
         /\ reg'[e].http = AfterResults(reg[e]).http
    BY <1>4, <1>5, <1>9 DEF PassEffect
  <1>11. /\ reg[e].detect = d => reg'[e].detect = d
         /\ reg[e].http = d => reg'[e].http = d
    BY <1>4, <1>6, <1>10 DEF PassEffect
  <1>12. Serves(ent[d], d)' /\ ent'[d] = e
    BY <1>2, <1>3, <1>4 DEF Owns, Serves
  <1>13. s \in Detecting => reg'[e].detect = d
    BY <1>1, <1>2, <1>3, <1>7, <1>10, <1>11 DEF Owns, Detecting
  <1>14. s \in Reading => reg'[e].http = d
    BY <1>1, <1>2, <1>3, <1>8, <1>10, <1>11 DEF Owns, Reading
  <1> QED
    BY <1>10, <1>12, <1>13, <1>14 DEF Owns

\* A pass keeps the invariant.
LEMMA UpdateHttp ==
    ASSUME HttpInv, Update
    PROVE  HttpOnly'
  <1>0. /\ StreamInv /\ StageInv /\ TypeOK /\ NoWs /\ MarkedOnce /\ InOrder /\ Stops
        /\ NeverAborts
    BY DEF HttpInv, HttpOnly, StreamInv, Inv
  <1>1. Lives'
    BY <1>0, UpdateKeeps, UpdateLives
  <1>2. /\ UNCHANGED <<phase, acceptorOpen, astrand, rq, ent>>
        /\ \A d \in Conn : Op("wsDoEof", d) \in ops' <=> Op("wsDoEof", d) \in ops
        /\ \A e \in Conn : PassEffect(reg[e], AfterResults(reg[e]), reg'[e])
    BY <1>0, UpdateFacts DEF StrandOp
  <1>3. \A e \in Conn : BeforeCleanup(reg[e]).kids = {} /\ reg'[e].kids = {}
    <2> SUFFICES ASSUME NEW e \in Conn PROVE BeforeCleanup(reg[e]).kids = {} /\ reg'[e].kids = {}
      OBVIOUS
    <2>1. reg[e] \in Entity /\ "NeedToDestroy" \notin reg[e].tags /\ reg[e].kids = {}
      BY <1>0 DEF TypeOK, StageInv, Known, NoWs
    <2>2. reg'[e] = UpdatePass(reg[e])
      BY DEF Update
    <2> QED
      BY <2>1, <2>2, PassCauses
  <1>4. orphans' = {}
    <2>1. \A e \in Entities : OrphanedByPass(e) = {}
      BY <1>3 DEF OrphanedByPass, Entities
    <2> QED
      BY <1>0, <2>1 DEF Update, NoWs
  <1>5. NoWs'
    <2>1. \A d \in Conn : ~At("ws", d)' /\ ~At("upgrade", d)'
      BY <1>0, UpdateMoves DEF NoWs, Stage, Late, Reading
    <2> QED
      BY <1>0, <1>2, <1>3, <1>4, <2>1 DEF NoWs
  <1>7. MarkedOnce' /\ InOrder' /\ NeverAborts'
    BY <1>0, <1>2 DEF MarkedOnce, InOrder, NeverAborts
  <1> QED
    BY <1>1, <1>5, <1>7 DEF HttpOnly

-----------------------------------------------------------------------------
(***************************************************************************)
(* The results.                                                            *)
(***************************************************************************)
\* In the beginning there is no connection, and doAccept is posted.
LEMMA InitHttp == Init => HttpOnly
  <1> SUFFICES ASSUME Init PROVE HttpOnly
    OBVIOUS
  <1>1. /\ DOMAIN astrand = {1} /\ astrand[1] = Op("doAccept", 0) /\ DOMAIN rq = {} /\ ops = {}
        /\ phase = "run" /\ acceptorOpen = TRUE /\ orphans = {}
        /\ \A c \in Conn : ent[c] = 0 /\ reg[c] = Absent
    BY DEF Init
  <1>2. Absent.kids = {} /\ Absent.valid = FALSE
    BY DEF Absent
  <1>3. \A c \in Conn, s \in Stage : ~At(s, c)
    BY <1>1, InitStages DEF StageInv, Known
  <1>4. \A op, c : ~InQueue(rq, op, c)
    BY <1>1 DEF InQueue
  <1>5. NoWs
    BY <1>1, <1>2, <1>3, <1>4 DEF NoWs, Stage, Late, Reading
  <1>6. MarkedOnce
    BY <1>1 DEF MarkedOnce, Once
  <1>7. InOrder /\ Lives /\ NeverAborts
    BY <1>1, <1>3 DEF InOrder, Lives, NeverAborts
  <1> QED
    BY <1>5, <1>6, <1>7 DEF HttpOnly

\* Every step keeps the invariant, when no client asks for a websocket.
LEMMA HttpStep ==
    ASSUME "upgrade" \notin Env, HttpInv, [Next]_vars
    PROVE  HttpOnly'
  <1>1. CASE AsyncAccept
    BY <1>1, AsyncAcceptHttp
  <1>2. CASE AllocateTcpResourceAndAccept
    BY <1>2, AllocHttp
  <1>3. CASE SetAcceptConnectionResult \/ SetSSLDetectResult \/ MarkUnused
    BY <1>3, TaskHttp
  <1>4. CASE \/ DoAccept \/ StopAcceptor \/ CloseNetworkResources \/ CheckRegistryEmpty
             \/ Unload \/ ValidateAndFreeNetworkResources \/ StopIOContext \/ UNCHANGED vars
    BY <1>4, QuietHttp
  <1>5. ASSUME NEW c \in Conn,
               \/ OnAccept(c) \/ RunDetector(c) \/ OnDetected(c)
               \/ HttpDoRead(c) \/ HttpOnRead(c) \/ HttpOnWrite(c)
        PROVE  HttpOnly'
    BY <1>5, PlainHttp, StoppedAcceptHttp
  <1>6. CASE Update
    BY <1>6, UpdateHttp
  <1>7. /\ \A c \in Conn : ~(\/ WsStartAccept(c) \/ WsOnAccept(c) \/ WsOnRead(c)
                             \/ WsSendAsync(c) \/ WsOnWrite(c) \/ WsOnClose(c)
                             \/ WsPostedDoEof(c))
        /\ ~HandleWebsocketUpgrade /\ ~AllocateRecievedDataComponent
    BY NoWsSteps
  <1> QED
    BY <1>1, <1>2, <1>3, <1>4, <1>5, <1>6, <1>7 DEF Next, AcceptorStep, RegistryStep, StrandStep

\* Without upgrades every connection that the listener, the detector or the HTTP
\* channel works for has an entity of its own, which holds the channel and is not
\* marked as unused before the connection is done with it.
THEOREM HttpInductive ==
    ASSUME "upgrade" \notin Env
    PROVE  Spec => []HttpInv
  <1>1. Init => HttpOnly
    BY InitHttp
  <1>2. StreamInv /\ Stops /\ HttpOnly /\ [Next]_vars => HttpOnly'
    BY HttpStep DEF HttpInv
  <1>3. StreamInv /\ Stops /\ HttpOnly => HttpInv
    BY DEF HttpInv
  <1> QED
    BY <1>1, <1>2, <1>3, StreamInductive, StopsCorrect, PTL DEF Spec

\* What is pending on a strand is an operation of the stage of its connection.
LEMMA PendingStage ==
    ASSUME HttpInv, NEW o \in ops
    PROVE  o.c \in Conn /\ o.op \in PlainOp /\ o.op \in Stage /\ At(o.op, o.c)
  <1>1. o \in StrandItem /\ NoWs
    BY DEF HttpInv, HttpOnly, StreamInv, Inv, TypeOK
  <1>2. o.c \in Conn /\ o.op \in PlainOp \cup WsOp \cup {"wsDoEof"} /\ o = Op(o.op, o.c)
    BY <1>1 DEF StrandItem, StrandOp, PlainOp, WsOp, Op
  <1>3. o.op \notin WsOp \cup {"wsDoEof"}
    BY <1>1, <1>2 DEF NoWs, At
  <1>4. o.op \in PlainOp /\ o.op \in Stage
    BY <1>2, <1>3 DEF Stage, Early, Detecting, Reading, PlainOp
  <1> QED
    BY <1>2, <1>4 DEF At

\* Whatever is pending on a strand finds its DetectChannel or HttpChannel, to
\* which it is bound with base::Unretained: no completion handler runs on a
\* channel that the systems freed or that a reuse of the entity replaced.
THEOREM NoDanglingHandlerCorrect ==
    ASSUME "upgrade" \notin Env
    PROVE  Spec => []NoDanglingHandler
  <1>1. HttpInv => NoDanglingHandler
    <2> SUFFICES ASSUME HttpInv, NEW o \in ops
                 PROVE  Alive(Owner(o.op), o.c)
      BY DEF NoDanglingHandler
    <2>1. o.c \in Conn /\ o.op \in PlainOp /\ o.op \in Stage /\ At(o.op, o.c)
      BY PendingStage
    <2>2. Owns(o.op, o.c)
      BY <2>1 DEF HttpInv, HttpOnly, Lives
    <2> QED
      BY <2>1, <2>2 DEF Owns, Alive, Owner, PlainOp, Detecting, Reading
  <1> QED
    BY <1>1, HttpInductive, PTL

\* setAcceptConnectionResult and setSSLDetectResult find the channel that posted
\* them and an entity that still serves their connection.
THEOREM ResultsReachCorrect ==
    ASSUME "upgrade" \notin Env
    PROVE  Spec => []ResultsReachTheirConnection
  <1>1. HttpInv => ResultsReachTheirConnection
    <2> SUFFICES ASSUME HttpInv, NEW i \in DOMAIN rq,
                        rq[i].op \in {"setAccept", "setSSLDetect", "upgrade", "recieved"}
                 PROVE  Alive(TaskOwner(rq[i].op), rq[i].c) /\ Serves(ent[rq[i].c], rq[i].c)
      BY DEF ResultsReachTheirConnection
    <2>1. rq[i] \in RegistryItem /\ NoWs /\ Lives
      BY DEF HttpInv, HttpOnly, StreamInv, Inv, TypeOK
    <2>2. rq[i].c \in Conn
      BY <2>1 DEF RegistryItem
    <2>3. rq[i].op \in {"setAccept", "setSSLDetect"}
      BY <2>1, <2>2 DEF NoWs, At, InQueue, Carrier
    <2>4. At(rq[i].op, rq[i].c) /\ rq[i].op \in Stage
      BY <2>3 DEF At, InQueue, Carrier, Stage, Early, Detecting
    <2>5. Owns(rq[i].op, rq[i].c)
      BY <2>1, <2>2, <2>4 DEF Lives
    <2> QED
      BY <2>3, <2>5 DEF Owns, Alive, TaskOwner, Detecting
  <1> QED
    BY <1>1, HttpInductive, PTL

\* The two CHECKs of resetOnCacheReuse never fail: allocateTcpResourceAndAccept
\* only takes an entity whose results the systems have handled.
THEOREM NeverAbortsCorrect ==
    ASSUME "upgrade" \notin Env
    PROVE  Spec => []NeverAborts
  <1>1. HttpInv => NeverAborts
    BY DEF HttpInv, HttpOnly
  <1> QED
    BY <1>1, HttpInductive, PTL

\* When unload has seen an empty registry behind a closed acceptor, no strand
\* has anything pending and no task can create or use an entity: stopIOContext
\* cuts nothing off.
THEOREM QuiescentStopCorrect ==
    ASSUME "upgrade" \notin Env
    PROVE  Spec => []QuiescentStop
  <1>1. HttpInv => QuiescentStop
    <2> SUFFICES ASSUME HttpInv, phase \in {"freed", "stopped"}, ~acceptorOpen
                 PROVE  /\ Entities = {} /\ orphans = {} /\ ops = {}
                        /\ \A i \in DOMAIN rq : rq[i].op \in {"markUnused", "closeAll", "check"}
      BY DEF QuiescentStop
    <2>1. Entities = {} /\ ~HasOp(rq, "alloc") /\ orphans = {} /\ NoWs
      BY DEF HttpInv, HttpOnly, Stops, NoWs
    <2>2. \A c \in Conn, s \in Stage : ~At(s, c)
      <3> SUFFICES ASSUME NEW c \in Conn, NEW s \in Stage, At(s, c) PROVE FALSE
        OBVIOUS
      <3>1. ent[c] \in Conn /\ reg[ent[c]].valid
        BY OneLive DEF Owns
      <3> QED
        BY <2>1, <3>1 DEF Entities
    <2>3. ops = {}
      BY <2>2, PendingStage
    <2>4. ASSUME NEW i \in DOMAIN rq PROVE rq[i].op \in {"markUnused", "closeAll", "check"}
      <3>1. rq[i] \in RegistryItem /\ rq[i].op # "alloc"
        BY <2>1 DEF HttpInv, StreamInv, Inv, TypeOK, HasOp
      <3>2. CASE rq[i].op \in Carrier \cup {"recieved"}
        <4>1. rq[i].c \in Conn
          BY <3>1, <3>2 DEF RegistryItem, Carrier
        <4>2. CASE rq[i].op = "recieved"
          BY <2>1, <4>1, <4>2 DEF NoWs, InQueue
        <4>3. CASE rq[i].op \in Carrier
          <5>1. At(rq[i].op, rq[i].c) /\ rq[i].op \in Stage
            BY <4>3 DEF At, InQueue, Carrier, Stage, Early, Detecting, Reading
          <5> QED
            BY <2>2, <4>1, <5>1
        <4> QED
          BY <3>2, <4>2, <4>3
      <3> QED
        BY <3>1, <3>2 DEF RegistryItem, Carrier
    <2> QED
      BY <2>1, <2>3, <2>4
  <1> QED
    BY <1>1, HttpInductive, PTL
=============================================================================
