-------------------------- MODULE Connection_proofs --------------------------
(***************************************************************************)
(* Proofs about the life of a connection, for every number of connections, *)
(* every behaviour of the clients and every admissible library: the types, *)
(* and the listener's recursion, which is never in two places.             *)
(***************************************************************************)
EXTENDS Connection, SequenceTheorems, TLAPS

\* Connections are numbers, and 0 stands for none.
LEMMA ConnFacts == 0 \notin Conn /\ Conn \subseteq 0..MaxConn /\ 0 \in 0..MaxConn
  BY BoundAssumption DEF Conn

\* The systems of the updater keep the type of an entity, and a channel that
\* one of them creates serves the connection of a result.
LEMMA PassTypes ==
    ASSUME NEW r \in Entity
    PROVE  /\ AfterResults(r) \in Entity
           /\ BeforeCleanup(r) \in Entity
           /\ UpdatePass(r) \in Entity
           /\ AfterResults(r).detect # r.detect => AfterResults(r).detect \in Conn
           /\ AfterResults(r).http # r.http => AfterResults(r).http \in Conn
  <1> DEFINE r1 == UpdateNewConnections(r)
             r2 == UpdateSSLDetection(r1)
             r3 == UpdateUnusedChildList(r2)
             r4 == UpdateDelayedConstructionJustDone(r3)
             r5 == UpdateDelayedConstruction(r4)
             r6 == UpdateUnusedSystem(r5)
  <1>1. /\ r1 \in Entity /\ r1.http = r.http
        /\ r1.detect # r.detect => r1.detect \in Conn
    BY ConnFacts DEF Entity, UpdateNewConnections, HandleAcceptResult, NewAccept,
       AddTag, Result, Tag
  <1> HIDE DEF r1
  <1>2. /\ r2 \in Entity /\ r2.detect = r1.detect
        /\ r2.http # r1.http => r2.http \in Conn
    BY <1>1, ConnFacts DEF Entity, UpdateSSLDetection, HandleSSLDetectResult,
       NewSSLDetect, AddTag, Result, Tag
  <1> HIDE DEF r2
  <1>3. r3 \in Entity
    BY <1>2 DEF Entity, UpdateUnusedChildList
  <1> HIDE DEF r3
  <1>4. r4 \in Entity
    BY <1>3 DEF Entity, UpdateDelayedConstructionJustDone
  <1> HIDE DEF r4
  <1>5. r5 \in Entity
    BY <1>4 DEF Entity, UpdateDelayedConstruction, Tag
  <1> HIDE DEF r5
  <1>6. r6 \in Entity
    BY <1>5 DEF Entity, UpdateUnusedSystem, AddTag, Tag
  <1> HIDE DEF r6
  <1>7. Absent \in Entity
    BY ConnFacts DEF Absent, Entity
  <1>8. UpdateCleanupSystem(r6) \in Entity
    BY <1>6, <1>7 DEF UpdateCleanupSystem
  <1>9. AfterResults(r) = r2 /\ BeforeCleanup(r) = r6
    BY DEF AfterResults, BeforeCleanup, r1, r2, r3, r4, r5, r6
  <1> QED
    BY <1>1, <1>2, <1>6, <1>8, <1>9 DEF UpdatePass

-----------------------------------------------------------------------------
(***************************************************************************)
(* The items that the actions put on the queues and strands.               *)
(***************************************************************************)
\* The items that the actions post are well typed.
LEMMA ItemTypes ==
    /\ Op("doAccept", 0) \in AcceptorItem
    /\ Op("stop", 0) \in AcceptorItem
    /\ \A c \in Conn : Op("asyncAccept", c) \in AcceptorItem
    /\ \A op \in {"alloc", "closeAll", "check"} : Do(op, 0) \in RegistryItem
    /\ \A c \in Conn, ec, close \in BOOLEAN :
         /\ Task("setAccept", c, ec, close) \in RegistryItem
         /\ Task("setSSLDetect", c, ec, close) \in RegistryItem
         /\ Do("markUnused", c) \in RegistryItem
         /\ Do("upgrade", c) \in RegistryItem
         /\ Do("recieved", c) \in RegistryItem
    /\ \A op \in StrandOp, c \in Conn : Op(op, c) \in StrandItem
  BY DEF Op, Do, Task, AcceptorItem, RegistryItem, StrandItem

\* Taking an item from a queue and putting one on it keep its type.
LEMMA QueueType ==
    ASSUME NEW S, NEW q \in Seq(S)
    PROVE  /\ q # <<>> => Tail(q) \in Seq(S) /\ Head(q) \in S
           /\ \A x \in S : Append(q, x) \in Seq(S)
  BY AppendProperties, HeadTailProperties

\* The initial state is well typed.
LEMMA InitType == Init => TypeOK
  <1> SUFFICES ASSUME Init PROVE TypeOK
    OBVIOUS
  <1>1. astrand \in Seq(AcceptorItem)
    BY ItemTypes DEF Init
  <1>2. rq \in Seq(RegistryItem)
    BY EmptySeq DEF Init
  <1>3. Absent \in Entity
    BY ConnFacts DEF Absent, Entity
  <1>4. reg \in [Conn -> Entity] /\ ent \in [Conn -> 0..MaxConn]
    BY <1>3, ConnFacts DEF Init
  <1> QED
    BY <1>1, <1>2, <1>4 DEF Init, TypeOK

\* The steps of the listener on the acceptor strand.
LEMMA AcceptorStepType == TypeOK /\ AcceptorStep => TypeOK'
  <1> SUFFICES ASSUME TypeOK, AcceptorStep PROVE TypeOK'
    OBVIOUS
  <1>1. /\ astrand \in Seq(AcceptorItem) /\ astrand # <<>>
        /\ astrand' = Tail(astrand)
    BY DEF TypeOK, AcceptorStep, DoAccept, AsyncAccept, StopAcceptor,
       OnAcceptorStrand
  <1>2. astrand' \in Seq(AcceptorItem) /\ Head(astrand) \in AcceptorItem
    BY <1>1, QueueType
  <1>3. CASE DoAccept
    <2>1. rq' = rq \/ rq' = Append(rq, Do("alloc", 0))
      BY <1>3, Zenon DEF DoAccept, PostReg
    <2>2. rq' \in Seq(RegistryItem)
      BY <2>1, QueueType, ItemTypes DEF TypeOK
    <2> QED
      BY <1>2, <1>3, <2>2 DEF DoAccept, TypeOK
  <1>4. CASE AsyncAccept
    <2>1. Head(astrand).c \in Conn
      BY <1>2, <1>4 DEF AsyncAccept, OnAcceptorStrand, AcceptorItem
    <2>2. Op("accept", Head(astrand).c) \in StrandItem
      BY <2>1, ItemTypes DEF StrandOp
    <2>3. ent[Head(astrand).c] \in 0..MaxConn
      BY <2>1 DEF TypeOK
    <2> QED
      BY <1>2, <1>4, <2>2, <2>3 DEF AsyncAccept, TypeOK
  <1>5. CASE StopAcceptor
    <2>1. acceptorOpen' \in BOOLEAN
      BY <1>5, Zenon DEF StopAcceptor, TypeOK
    <2> QED
      BY <1>2, <1>5, <2>1 DEF StopAcceptor, TypeOK
  <1> QED
    BY <1>3, <1>4, <1>5 DEF AcceptorStep

\* What follows an allocation: asyncAccept, or a dropped entity.
LEMMA AcceptOnEffect ==
    ASSUME NEW c, NEW e, AcceptOn(c, e)
    PROVE  \/ astrand' = Append(astrand, Op("asyncAccept", c)) /\ dropped' = dropped
           \/ astrand' = astrand /\ dropped' = dropped \cup {e}
  BY Zenon DEF AcceptOn

\* The cases of an allocation: a new entity, a reused one, or a failed CHECK.
LEMMA AllocCases ==
    ASSUME AllocateTcpResourceAndAccept
    PROVE  \E c \in NextConn :
             \/ /\ ent' = [ent EXCEPT ![c] = c]
                /\ reg' = [reg EXCEPT ![c] = NewEntity]
                /\ AcceptOn(c, c)
                /\ Reusable = {}
                /\ UNCHANGED phase
             \/ \E e \in Reusable :
                  \/ /\ ent' = [ent EXCEPT ![c] = e]
                     /\ reg' = [reg EXCEPT ![e] = ResetOnCacheReuse(reg[e])]
                     /\ AcceptOn(c, e)
                     /\ ResultsProcessed(reg[e])
                     /\ UNCHANGED phase
                  \/ /\ phase' = "aborted" /\ UNCHANGED <<ent, reg, astrand, dropped>>
                     /\ ~ResultsProcessed(reg[e])
  BY DEF AllocateTcpResourceAndAccept

\* The allocation of an entity for the next connection.
LEMMA AllocType == TypeOK /\ AllocateTcpResourceAndAccept => TypeOK'
  <1> SUFFICES ASSUME TypeOK, AllocateTcpResourceAndAccept PROVE TypeOK'
    OBVIOUS
  <1> DEFINE Good == /\ ent' \in [Conn -> 0..MaxConn] /\ reg' \in [Conn -> Entity]
                     /\ astrand' \in Seq(AcceptorItem) /\ dropped' \subseteq 0..MaxConn
                     /\ (phase' = phase \/ phase' = "aborted")
  <1>1. rq' \in Seq(RegistryItem)
    BY QueueType DEF TypeOK, AllocateTcpResourceAndAccept, OnRegistry
  <1>4. NewEntity \in Entity
    BY ConnFacts DEF NewEntity, Absent, Entity, Tag
  <1>5. ASSUME NEW r \in Entity PROVE ResetOnCacheReuse(r) \in Entity
    BY DEF ResetOnCacheReuse, Entity, Tag
  <1>6. Reusable \subseteq Conn
    BY DEF Reusable, Entities
  <1>7. Good
    <2>0. PICK c \in NextConn :
             \/ /\ ent' = [ent EXCEPT ![c] = c]
                /\ reg' = [reg EXCEPT ![c] = NewEntity]
                /\ AcceptOn(c, c)
                /\ Reusable = {}
                /\ UNCHANGED phase
             \/ \E e \in Reusable :
                  \/ /\ ent' = [ent EXCEPT ![c] = e]
                     /\ reg' = [reg EXCEPT ![e] = ResetOnCacheReuse(reg[e])]
                     /\ AcceptOn(c, e)
                     /\ ResultsProcessed(reg[e])
                     /\ UNCHANGED phase
                  \/ /\ phase' = "aborted" /\ UNCHANGED <<ent, reg, astrand, dropped>>
                     /\ ~ResultsProcessed(reg[e])
      BY AllocCases, Zenon
    <2>1. c \in Conn /\ Append(astrand, Op("asyncAccept", c)) \in Seq(AcceptorItem)
      BY ItemTypes, QueueType DEF NextConn, TypeOK
    <2>2. ASSUME NEW e \in Conn, AcceptOn(c, e)
          PROVE  astrand' \in Seq(AcceptorItem) /\ dropped' \subseteq 0..MaxConn
      <3>1. astrand \in Seq(AcceptorItem) /\ dropped \subseteq 0..MaxConn /\ e \in 0..MaxConn
        BY ConnFacts DEF TypeOK
      <3>2. \/ astrand' = Append(astrand, Op("asyncAccept", c)) /\ dropped' = dropped
            \/ astrand' = astrand /\ dropped' = dropped \cup {e}
        BY <2>2, AcceptOnEffect, Zenon
      <3> QED
        BY <2>1, <3>1, <3>2
    <2>3. CASE /\ ent' = [ent EXCEPT ![c] = c]
               /\ reg' = [reg EXCEPT ![c] = NewEntity]
               /\ AcceptOn(c, c)
               /\ UNCHANGED phase
      <3>1. ent' \in [Conn -> 0..MaxConn] /\ reg' \in [Conn -> Entity]
        BY <2>1, <2>3, <1>4, ConnFacts DEF TypeOK
      <3> QED
        BY <2>1, <2>2, <2>3, <3>1
    <2>4. ASSUME NEW e \in Reusable,
                 ent' = [ent EXCEPT ![c] = e],
                 reg' = [reg EXCEPT ![e] = ResetOnCacheReuse(reg[e])],
                 AcceptOn(c, e),
                 UNCHANGED phase
          PROVE  Good
      <3>1. e \in Conn /\ e \in 0..MaxConn
        BY <1>6, ConnFacts
      <3>2. ResetOnCacheReuse(reg[e]) \in Entity
        BY <3>1, <1>5 DEF TypeOK
      <3>3. ent' \in [Conn -> 0..MaxConn]
        BY <2>4, <3>1 DEF TypeOK
      <3>4. reg' \in [Conn -> Entity]
        BY <2>4, <3>1, <3>2 DEF TypeOK
      <3> QED
        BY <2>2, <2>4, <3>1, <3>3, <3>4
    <2>5. CASE phase' = "aborted" /\ UNCHANGED <<ent, reg, astrand, dropped>>
      BY <2>5 DEF TypeOK
    <2> QED
      BY <2>0, <2>3, <2>4, <2>5
  <1> QED
    BY <1>1, <1>7 DEF TypeOK, AllocateTcpResourceAndAccept

\* Any entity record with well-typed fields replaced stays one.
LEMMA EntityFields ==
    ASSUME NEW r \in Entity
    PROVE  /\ \A t \in SUBSET Tag : [r EXCEPT !.tags = t] \in Entity
           /\ \A t \in SUBSET Tag, x \in Result :
                /\ [r EXCEPT !.tags = t, !.acc = x] \in Entity
                /\ [r EXCEPT !.tags = t, !.ssl = x] \in Entity
           /\ \A c \in Conn : /\ [r EXCEPT !.ws = c] \in Entity
                             /\ [r EXCEPT !.kids = r.kids \cup {c}] \in Entity
           /\ r.tags \in SUBSET Tag /\ r.kids \in SUBSET Conn /\ r.ws \in 0..MaxConn
  BY ConnFacts DEF Entity

\* Replacing what one entity holds keeps the type of the registry.
LEMMA RegUpdate ==
    ASSUME NEW f \in [Conn -> Entity], NEW e, NEW r, e \in Conn => r \in Entity
    PROVE  [f EXCEPT ![e] = r] \in [Conn -> Entity]
  OBVIOUS

\* The tasks of the registry sequence that strands post.
LEMMA ResultStepType ==
    ASSUME TypeOK,
           \/ SetAcceptConnectionResult \/ SetSSLDetectResult \/ MarkUnused
           \/ HandleWebsocketUpgrade \/ AllocateRecievedDataComponent
    PROVE  TypeOK'
  <1> DEFINE t == Head(rq)
             e == ent[t.c]
  <1>1. rq \in Seq(RegistryItem) /\ rq # <<>> /\ rq' = Tail(rq)
    BY DEF TypeOK, SetAcceptConnectionResult, SetSSLDetectResult, MarkUnused,
       HandleWebsocketUpgrade, AllocateRecievedDataComponent, OnRegistry
  <1>2. rq' \in Seq(RegistryItem) /\ t \in RegistryItem
    BY <1>1, QueueType
  <1>3. t.c \in Conn /\ t.ec \in BOOLEAN /\ t.close \in BOOLEAN
    BY <1>2 DEF RegistryItem, SetAcceptConnectionResult, SetSSLDetectResult,
       MarkUnused, HandleWebsocketUpgrade, AllocateRecievedDataComponent, OnRegistry
  <1>4. reg \in [Conn -> Entity]
    BY DEF TypeOK
  <1>5. CASE SetAcceptConnectionResult
    <2> DEFINE x == [c |-> t.c, ec |-> t.ec, close |-> sock[t.c] # "open"]
               tags == reg[e].tags \ {"UnusedAcceptResult"}
    <2>1. x \in Result
      BY <1>3 DEF Result
    <2>2. \/ /\ reg' = [reg EXCEPT ![e] = [reg[e] EXCEPT !.tags = tags, !.acc = x]]
             /\ UNCHANGED sock
          \/ sock' = [sock EXCEPT ![t.c] = "closed"] /\ UNCHANGED reg
      BY <1>5 DEF SetAcceptConnectionResult
    <2>3. e \in Conn => /\ tags \in SUBSET Tag
                        /\ [reg[e] EXCEPT !.tags = tags, !.acc = x] \in Entity
      BY <2>1, <1>4, EntityFields
    <2>4. reg' \in [Conn -> Entity] /\ sock' \in [Conn -> {"none", "open", "closed"}]
      <3>1. reg' \in [Conn -> Entity]
        BY <2>2, <2>3, <1>4, RegUpdate
      <3> QED
        BY <3>1, <2>2, <1>3 DEF TypeOK
    <2> QED
      BY <1>2, <1>5, <2>4 DEF SetAcceptConnectionResult, TypeOK
  <1>6. CASE SetSSLDetectResult
    <2> DEFINE x == [c |-> t.c, ec |-> t.ec, close |-> t.close]
               tags == reg[e].tags \ {"UnusedSSLDetectResult"}
    <2>1. x \in Result
      BY <1>3 DEF Result
    <2>2. \/ /\ reg' = [reg EXCEPT ![e] = [reg[e] EXCEPT !.tags = tags, !.ssl = x]]
             /\ UNCHANGED sock
          \/ sock' = [sock EXCEPT ![t.c] = "closed"] /\ UNCHANGED reg
      BY <1>6 DEF SetSSLDetectResult
    <2>3. e \in Conn => /\ tags \in SUBSET Tag
                        /\ [reg[e] EXCEPT !.tags = tags, !.ssl = x] \in Entity
      BY <2>1, <1>4, EntityFields
    <2>4. reg' \in [Conn -> Entity] /\ sock' \in [Conn -> {"none", "open", "closed"}]
      <3>1. reg' \in [Conn -> Entity]
        BY <2>2, <2>3, <1>4, RegUpdate
      <3> QED
        BY <3>1, <2>2, <1>3 DEF TypeOK
    <2> QED
      BY <1>2, <1>6, <2>4 DEF SetSSLDetectResult, TypeOK
  <1>7. CASE MarkUnused
    <2> DEFINE tags == reg[e].tags \cup {"Unused"}
    <2>1. reg' = [reg EXCEPT ![e] = [reg[e] EXCEPT !.tags = tags]] \/ reg' = reg
      BY <1>7 DEF MarkUnused
    <2>2. e \in Conn => tags \in SUBSET Tag /\ [reg[e] EXCEPT !.tags = tags] \in Entity
      BY <1>4, EntityFields DEF Tag
    <2>3. reg' \in [Conn -> Entity]
      BY <2>1, <2>2, <1>4
    <2> QED
      BY <1>2, <1>7, <2>3 DEF MarkUnused, TypeOK
  <1>8. CASE HandleWebsocketUpgrade
    <2>1. \/ /\ reg' = [reg EXCEPT ![e] = [reg[e] EXCEPT !.ws = t.c]]
             /\ ops' = ops \cup {Op("wsStartAccept", t.c)}
             /\ sock' = [d \in Conn |-> IF d = reg[e].ws THEN "closed" ELSE sock[d]]
          \/ sock' = [sock EXCEPT ![t.c] = "closed"] /\ UNCHANGED <<reg, ops>>
      BY <1>8 DEF HandleWebsocketUpgrade
    <2>2. e \in Conn => [reg[e] EXCEPT !.ws = t.c] \in Entity
      BY <1>3, <1>4, EntityFields
    <2>3. reg' \in [Conn -> Entity] /\ sock' \in [Conn -> {"none", "open", "closed"}]
      <3>1. reg' \in [Conn -> Entity]
        BY <2>1, <2>2, <1>4, RegUpdate
      <3> QED
        BY <3>1, <2>1, <1>3 DEF TypeOK
    <2>4. ops' \subseteq StrandItem
      BY <2>1, <1>3, ItemTypes DEF TypeOK, StrandOp
    <2> QED
      BY <1>2, <1>8, <2>3, <2>4 DEF HandleWebsocketUpgrade, TypeOK
  <1>9. CASE AllocateRecievedDataComponent
    <2>1. \/ /\ reg' = [reg EXCEPT ![e] = [reg[e] EXCEPT !.kids = reg[e].kids \cup {t.c}]]
             /\ UNCHANGED orphans
          \/ orphans' = orphans \cup {t.c} /\ UNCHANGED reg
          \/ UNCHANGED <<reg, orphans>>
      BY <1>9 DEF AllocateRecievedDataComponent
    <2>2. e \in Conn => [reg[e] EXCEPT !.kids = reg[e].kids \cup {t.c}] \in Entity
      BY <1>3, <1>4, EntityFields
    <2>3. reg' \in [Conn -> Entity] /\ orphans' \subseteq Conn
      <3>1. reg' \in [Conn -> Entity]
        BY <2>1, <2>2, <1>4, RegUpdate
      <3> QED
        BY <3>1, <2>1, <1>3 DEF TypeOK
    <2> QED
      BY <1>2, <1>9, <2>3 DEF AllocateRecievedDataComponent, TypeOK
  <1> QED
    BY <1>5, <1>6, <1>7, <1>8, <1>9

\* The tasks of the registry sequence that unload posts.
LEMMA ShutdownTaskType ==
    ASSUME TypeOK, CloseNetworkResources \/ CheckRegistryEmpty
    PROVE  TypeOK'
  <1>1. rq' \in Seq(RegistryItem)
    BY QueueType DEF TypeOK, CloseNetworkResources, CheckRegistryEmpty, OnRegistry
  <1>2. CASE CloseNetworkResources
    <2>1. \A e \in Entities : reg[e].ws # 0 => reg[e].ws \in Conn
      BY BoundAssumption DEF TypeOK, Entities, Entity, Conn
    <2>2. ops' \subseteq StrandItem
      BY <1>2, <2>1, ItemTypes DEF CloseNetworkResources, TypeOK, StrandOp
    <2> QED
      BY <1>1, <1>2, <2>2 DEF CloseNetworkResources, TypeOK
  <1>3. CASE CheckRegistryEmpty
    <2>1. phase' = phase \/ phase' = "freed"
      BY <1>3 DEF CheckRegistryEmpty
    <2> QED
      BY <1>1, <1>3, <2>1 DEF CheckRegistryEmpty, TypeOK
  <1> QED
    BY <1>2, <1>3

\* A pass of the systems over all entities.
LEMMA UpdateType == TypeOK /\ Update => TypeOK'
  <1> SUFFICES ASSUME TypeOK, Update PROVE TypeOK'
    OBVIOUS
  <1>1. \A e \in Conn : reg[e] \in Entity
    BY DEF TypeOK
  <1>2. reg' \in [Conn -> Entity]
    BY <1>1, PassTypes DEF Update
  <1>3. ASSUME NEW e \in Entities
        PROVE  PostedByPass(e) \subseteq StrandItem /\ OrphanedByPass(e) \subseteq Conn
    <2>1. reg[e] \in Entity
      BY <1>1 DEF Entities
    <2>2. PostedByPass(e) \subseteq StrandItem
      BY <2>1, PassTypes, ItemTypes DEF PostedByPass, StrandOp
    <2>3. OrphanedByPass(e) \subseteq Conn
      BY <2>1, PassTypes DEF OrphanedByPass, Entity
    <2> QED
      BY <2>2, <2>3
  <1>4. ops' \subseteq StrandItem /\ orphans' \subseteq Conn
    BY <1>3 DEF Update, TypeOK
  <1>5. sock' \in [Conn -> {"none", "open", "closed"}]
    BY DEF Update, TypeOK
  <1> QED
    BY <1>2, <1>4, <1>5 DEF Update, TypeOK

\* Continue keeps the type of the operations of a strand.
LEMMA ContinueType ==
    ASSUME TypeOK, NEW c \in Conn, NEW op, NEW then \in SUBSET StrandOp,
           Continue(op, c, then)
    PROVE  ops' \subseteq StrandItem
  BY ItemTypes DEF Continue, TypeOK

\* The two cases of the completion of an accept: a result for the registry, or
\* a handler that finds the io_context stopped.
LEMMA OnAcceptCases ==
    ASSUME NEW c \in Conn, OnAccept(c)
    PROVE  \/ /\ IocRuns
              /\ \E ec, open \in BOOLEAN :
                   /\ ~ec => open /\ acceptorOpen
                   /\ ec /\ open => acceptorOpen
                   /\ sock' = [sock EXCEPT ![c] = IF open THEN "open" ELSE "closed"]
                   /\ rq' = Append(rq, Task("setAccept", c, ec, FALSE))
              /\ astrand' = Append(astrand, Op("doAccept", 0))
              /\ dropped' = dropped
           \/ /\ phase = "stopped"
              /\ sock' = [sock EXCEPT ![c] = "closed"]
              /\ dropped' = dropped \cup {ent[c]}
              /\ rq' = rq /\ astrand' = astrand
  BY DEF OnAccept, PostReg, IocRuns

\* The completion of an accept.
LEMMA OnAcceptType ==
    ASSUME TypeOK, NEW c \in Conn, OnAccept(c)
    PROVE  TypeOK'
  <1>1. /\ sock' \in [Conn -> {"none", "open", "closed"}]
        /\ rq' \in Seq(RegistryItem) /\ astrand' \in Seq(AcceptorItem)
        /\ dropped' \subseteq 0..MaxConn
    <2>1. ASSUME NEW ec \in BOOLEAN, NEW open \in BOOLEAN,
                 sock' = [sock EXCEPT ![c] = IF open THEN "open" ELSE "closed"],
                 rq' = Append(rq, Task("setAccept", c, ec, FALSE)),
                 astrand' = Append(astrand, Op("doAccept", 0)), dropped' = dropped
          PROVE  /\ sock' \in [Conn -> {"none", "open", "closed"}]
                 /\ rq' \in Seq(RegistryItem) /\ astrand' \in Seq(AcceptorItem)
                 /\ dropped' \subseteq 0..MaxConn
      <3>1. sock' \in [Conn -> {"none", "open", "closed"}]
        BY <2>1 DEF TypeOK
      <3>2. rq' \in Seq(RegistryItem) /\ astrand' \in Seq(AcceptorItem)
        BY <2>1, QueueType, ItemTypes DEF TypeOK
      <3> QED
        BY <2>1, <3>1, <3>2 DEF TypeOK
    <2>2. CASE /\ sock' = [sock EXCEPT ![c] = "closed"]
               /\ dropped' = dropped \cup {ent[c]}
               /\ rq' = rq /\ astrand' = astrand
      BY <2>2 DEF TypeOK
    <2> QED
      BY <2>1, <2>2, OnAcceptCases
  <1> QED
    BY <1>1 DEF OnAccept, TypeOK

\* The closures and operations of the detector and of the HTTP channel.
LEMMA HttpStepType ==
    ASSUME TypeOK, NEW c \in Conn,
           \/ RunDetector(c) \/ OnDetected(c)
           \/ HttpDoRead(c) \/ HttpOnRead(c) \/ HttpOnWrite(c)
    PROVE  TypeOK'
  <1>1. ops' \subseteq StrandItem
    BY ContinueType DEF RunDetector, OnDetected, HttpDoRead, HttpOnRead,
       HttpOnWrite, StrandOp
  <1>2. CASE RunDetector(c) \/ HttpDoRead(c)
    BY <1>1, <1>2 DEF RunDetector, HttpDoRead, TypeOK
  <1>3. CASE OnDetected(c)
    <2>1. PICK ec \in BOOLEAN, timeout \in BOOLEAN, fail \in BOOLEAN :
            /\ sock' = [sock EXCEPT ![c] = IF timeout THEN "closed" ELSE sock[c]]
            /\ rq' = Append(rq, Task("setSSLDetect", c, ec, fail \/ sock'[c] # "open"))
      BY <1>3 DEF OnDetected, PostReg
    <2>2. sock' \in [Conn -> {"none", "open", "closed"}]
      BY <2>1 DEF TypeOK
    <2>3. (fail \/ sock'[c] # "open") \in BOOLEAN
      OBVIOUS
    <2>4. rq' \in Seq(RegistryItem)
      BY <2>1, <2>3, QueueType, ItemTypes DEF TypeOK
    <2> QED
      BY <1>1, <1>3, <2>2, <2>4 DEF OnDetected, TypeOK
  <1>4. CASE HttpOnRead(c) \/ HttpOnWrite(c)
    <2>1. \/ rq' = rq
          \/ rq' = Append(rq, Do("markUnused", c))
          \/ rq' = Append(rq, Do("upgrade", c))
      BY <1>4 DEF HttpOnRead, HttpOnWrite, HttpDoEof, PostReg
    <2>2. rq' \in Seq(RegistryItem)
      BY <2>1, QueueType, ItemTypes DEF TypeOK
    <2>3. sock' = sock \/ sock' = [sock EXCEPT ![c] = "closed"]
      BY <1>4 DEF HttpOnRead, HttpOnWrite, HttpDoEof
    <2>4. sock' \in [Conn -> {"none", "open", "closed"}]
      BY <2>3 DEF TypeOK
    <2> QED
      BY <1>1, <1>4, <2>2, <2>4 DEF HttpOnRead, HttpOnWrite, TypeOK
  <1> QED
    BY <1>2, <1>3, <1>4

\* WsChannel::doEof keeps types, with or without an open websocket.
LEMMA WsDoEofType ==
    ASSUME TypeOK, NEW c \in Conn, NEW left \in SUBSET StrandItem,
           NEW status \in {"none", "open", "closing", "closed"},
           WsDoEof(c, left, status)
    PROVE  /\ wsStatus' \in [Conn -> {"none", "open", "closing", "closed"}]
           /\ ops' \subseteq StrandItem
           /\ rq' \in Seq(RegistryItem)
  <1>1. wsStatus' \in [Conn -> {"none", "open", "closing", "closed"}]
    BY DEF WsDoEof, TypeOK
  <1>2. ops' \subseteq StrandItem
    BY ItemTypes DEF WsDoEof, StrandOp
  <1>3. rq' \in Seq(RegistryItem)
    BY QueueType, ItemTypes DEF WsDoEof, PostReg, TypeOK
  <1> QED
    BY <1>1, <1>2, <1>3

\* So does WsChannel::onFail.
LEMMA WsOnFailType ==
    ASSUME TypeOK, NEW c \in Conn, NEW op, WsOnFail(c, op)
    PROVE  /\ wsStatus' \in [Conn -> {"none", "open", "closing", "closed"}]
           /\ ops' \subseteq StrandItem
           /\ rq' \in Seq(RegistryItem)
  <1>1. (IF op = "wsAccept" THEN wsStatus[c] ELSE "closed")
          \in {"none", "open", "closing", "closed"}
    BY DEF TypeOK
  <1>2. ops \ {Op(op, c)} \in SUBSET StrandItem
    BY DEF TypeOK
  <1> QED
    BY <1>1, <1>2, WsDoEofType DEF WsOnFail

\* The closures and operations of the websocket channel.
LEMMA WsStepType ==
    ASSUME TypeOK, NEW c \in Conn,
           \/ WsStartAccept(c) \/ WsOnAccept(c) \/ WsOnRead(c) \/ WsSendAsync(c)
           \/ WsOnWrite(c) \/ WsOnClose(c) \/ WsPostedDoEof(c)
    PROVE  TypeOK'
  <1> DEFINE Good == /\ wsStatus' \in [Conn -> {"none", "open", "closing", "closed"}]
                     /\ ops' \subseteq StrandItem
                     /\ rq' \in Seq(RegistryItem)
  <1>1. ASSUME NEW op, WsOnFail(c, op) PROVE Good
    BY <1>1, WsOnFailType
  <1>2. ASSUME NEW op, NEW then \in SUBSET StrandOp, Continue(op, c, then),
               \/ wsStatus' = wsStatus
               \/ wsStatus' = [wsStatus EXCEPT ![c] = "open"]
               \/ wsStatus' = [wsStatus EXCEPT ![c] = "closed"],
               rq' = rq \/ rq' = Append(rq, Do("recieved", c))
        PROVE  Good
    <2>1. ops' \subseteq StrandItem
      BY <1>2, ContinueType
    <2>2. rq' \in Seq(RegistryItem)
      <3>1. Do("recieved", c) \in RegistryItem
        BY ItemTypes
      <3>2. rq \in Seq(RegistryItem)
        BY DEF TypeOK
      <3>3. Append(rq, Do("recieved", c)) \in Seq(RegistryItem)
        BY <3>1, <3>2, QueueType
      <3> QED
        BY <1>2, <3>2, <3>3
    <2>3. wsStatus' \in [Conn -> {"none", "open", "closing", "closed"}]
      BY <1>2 DEF TypeOK
    <2> QED
      BY <2>1, <2>2, <2>3
  <1>3. CASE WsStartAccept(c)
    <2>1. {"wsAccept"} \in SUBSET StrandOp
      BY DEF StrandOp
    <2> QED
      BY <1>2, <1>3, <2>1 DEF WsStartAccept, TypeOK
  <1>4. CASE WsOnAccept(c)
    <2>1. {"wsRead"} \in SUBSET StrandOp
      BY DEF StrandOp
    <2>2. Good
      BY <1>1, <1>2, <1>4, <2>1 DEF WsOnAccept
    <2> QED
      BY <1>4, <2>2 DEF WsOnAccept, TypeOK
  <1>5. CASE WsOnRead(c)
    <2>1. {"wsRead"} \in SUBSET StrandOp /\ {} \in SUBSET StrandOp
      BY DEF StrandOp
    <2>2. Good
      BY <1>1, <1>2, <1>5, <2>1 DEF WsOnRead, PostReg
    <2> QED
      BY <1>5, <2>2 DEF WsOnRead, TypeOK
  <1>6. CASE WsSendAsync(c)
    <2>1. ops' \subseteq StrandItem
      BY <1>6, ItemTypes DEF WsSendAsync, TypeOK, StrandOp
    <2> QED
      BY <1>6, <2>1 DEF WsSendAsync, TypeOK
  <1>7. CASE WsOnWrite(c)
    <2>1. {} \in SUBSET StrandOp
      OBVIOUS
    <2>2. Good
      BY <1>1, <1>2, <1>7, <2>1 DEF WsOnWrite
    <2> QED
      BY <1>7, <2>2 DEF WsOnWrite, TypeOK
  <1>8. CASE WsOnClose(c)
    <2>1. {} \in SUBSET StrandOp
      OBVIOUS
    <2>2. Good
      BY <1>1, <1>2, <1>8, <2>1 DEF WsOnClose
    <2> QED
      BY <1>8, <2>2 DEF WsOnClose, TypeOK
  <1>9. CASE WsPostedDoEof(c)
    <2>1. {} \in SUBSET StrandOp
      OBVIOUS
    <2>2. ASSUME WsDoEof(c, ops \ {Op("wsDoEof", c)}, wsStatus[c]) PROVE Good
      <3>1. /\ ops \ {Op("wsDoEof", c)} \in SUBSET StrandItem
            /\ wsStatus[c] \in {"none", "open", "closing", "closed"}
        BY DEF TypeOK
      <3> QED
        BY <2>2, <3>1, WsDoEofType
    <2>3. ASSUME Continue("wsDoEof", c, {}), UNCHANGED <<rq, wsStatus>> PROVE Good
      BY <1>2, <2>1, <2>3
    <2>4. Good
      BY <1>9, <2>2, <2>3 DEF WsPostedDoEof
    <2> QED
      BY <1>9, <2>4 DEF WsPostedDoEof, TypeOK
  <1> QED
    BY <1>3, <1>4, <1>5, <1>6, <1>7, <1>8, <1>9

\* The steps of unload on the main loop.
LEMMA MainLoopType ==
    ASSUME TypeOK, Unload \/ ValidateAndFreeNetworkResources \/ StopIOContext
    PROVE  TypeOK'
  <1>1. CASE Unload
    <2>1. astrand' \in Seq(AcceptorItem)
      BY <1>1, QueueType, ItemTypes DEF Unload, TypeOK
    <2> QED
      BY <1>1, <2>1 DEF Unload, TypeOK
  <1>2. CASE ValidateAndFreeNetworkResources
    <2>1. Do("closeAll", 0) \in RegistryItem /\ Do("check", 0) \in RegistryItem
      BY ItemTypes
    <2>2. <<Do("closeAll", 0), Do("check", 0)>> \in Seq(RegistryItem)
      BY <2>1
    <2>3. rq' \in Seq(RegistryItem)
      BY <1>2, <2>2, ConcatProperties DEF ValidateAndFreeNetworkResources, TypeOK
    <2> QED
      BY <1>2, <2>3 DEF ValidateAndFreeNetworkResources, TypeOK
  <1>3. CASE StopIOContext
    BY <1>3 DEF StopIOContext, TypeOK
  <1> QED
    BY <1>1, <1>2, <1>3

\* Every variable keeps its type, whatever the clients do: a registry task, a
\* closure or an operation that belongs to a connection always names one.
THEOREM TypeCorrect == Spec => []TypeOK
  <1>1. TypeOK /\ [Next]_vars => TypeOK'
    <2> SUFFICES ASSUME TypeOK, [Next]_vars PROVE TypeOK'
      OBVIOUS
    <2>1. CASE AcceptorStep
      BY <2>1, AcceptorStepType
    <2>2. CASE RegistryStep
      BY <2>2, AllocType, ResultStepType, ShutdownTaskType DEF RegistryStep
    <2>3. CASE Update
      BY <2>3, UpdateType
    <2>4. ASSUME NEW c \in Conn,
                 OnAccept(c) \/ StrandStep(c) \/ WsOnRead(c) \/ WsSendAsync(c)
          PROVE  TypeOK'
      BY <2>4, OnAcceptType, HttpStepType, WsStepType DEF StrandStep
    <2>5. CASE Unload \/ ValidateAndFreeNetworkResources \/ StopIOContext
      BY <2>5, MainLoopType
    <2>6. CASE UNCHANGED vars
      BY <2>6 DEF vars, TypeOK
    <2> QED
      BY <2>1, <2>2, <2>3, <2>4, <2>5, <2>6 DEF Next
  <1> QED
    BY <1>1, InitType, PTL DEF Spec

-----------------------------------------------------------------------------
(***************************************************************************)
(* The recursion of the listener.                                          *)
(***************************************************************************)
Inv == TypeOK /\ OneAcceptAtATime

\* The recursion is not on the acceptor strand (on the registry sequence, in
\* an accept).
NotOnAcceptor == \A i \in DOMAIN astrand : ~OnAcceptor(i)
NotOnAllocation == \A i \in DOMAIN rq : ~OnAllocation(i)
NotAccepting == \A o \in ops : ~Accepting(o)

(***************************************************************************)
(* A step that does not move the recursion: what it leaves on a queue or a *)
(* strand was there before, at a distance that is the same for all.        *)
(***************************************************************************)
KeepsAcceptor ==
    \E k \in Int : \A i \in DOMAIN astrand' :
        OnAcceptor(i)' => i + k \in DOMAIN astrand /\ OnAcceptor(i + k)

KeepsAllocation ==
    \E k \in Int : \A i \in DOMAIN rq' :
        OnAllocation(i)' => i + k \in DOMAIN rq /\ OnAllocation(i + k)

KeepsAccepting == \A o \in ops' : Accepting(o) => o \in ops

\* Where the items of a queue are after one was taken from it or put on it.
LEMMA QueueItems ==
    ASSUME NEW S, NEW q \in Seq(S)
    PROVE  /\ DOMAIN q \subseteq Int
           /\ q # <<>> =>
                /\ 1 \in DOMAIN q /\ q[1] = Head(q)
                /\ \A i \in DOMAIN Tail(q) : /\ i \in Int /\ i + 1 # 1
                                            /\ i + 1 \in DOMAIN q
                                            /\ Tail(q)[i] = q[i + 1]
           /\ \A x \in S : \A i \in DOMAIN Append(q, x) :
                \/ i \in DOMAIN q /\ Append(q, x)[i] = q[i]
                \/ i = Len(q) + 1 /\ Append(q, x)[i] = x
  <1>1. DOMAIN q = 1..Len(q) /\ Len(q) \in Nat
    BY LenProperties
  <1>2. ASSUME q # <<>>
        PROVE  /\ 1 \in DOMAIN q /\ q[1] = Head(q)
               /\ \A i \in DOMAIN Tail(q) : /\ i \in Int /\ i + 1 # 1
                                           /\ i + 1 \in DOMAIN q
                                           /\ Tail(q)[i] = q[i + 1]
    BY <1>1, <1>2, EmptySeq, HeadTailProperties, LenProperties
  <1>3. ASSUME NEW x \in S, NEW i \in DOMAIN Append(q, x)
        PROVE  \/ i \in DOMAIN q /\ Append(q, x)[i] = q[i]
               \/ i = Len(q) + 1 /\ Append(q, x)[i] = x
    BY <1>1, <1>3, AppendProperties, LenProperties
  <1> QED
    BY <1>1, <1>2, <1>3

\* A step that does not move the recursion leaves it in one place.
LEMMA KeepsOne ==
    ASSUME Inv, TypeOK', KeepsAcceptor, KeepsAllocation, KeepsAccepting
    PROVE  OneAcceptAtATime'
  <1>1. PICK k \in Int : \A i \in DOMAIN astrand' :
          OnAcceptor(i)' => i + k \in DOMAIN astrand /\ OnAcceptor(i + k)
    BY DEF KeepsAcceptor
  <1>2. PICK l \in Int : \A i \in DOMAIN rq' :
          OnAllocation(i)' => i + l \in DOMAIN rq /\ OnAllocation(i + l)
    BY DEF KeepsAllocation
  <1>3. DOMAIN astrand' \subseteq Int /\ DOMAIN rq' \subseteq Int
    BY QueueItems DEF TypeOK
  <1>4. \A i, j \in DOMAIN astrand' : OnAcceptor(i)' /\ OnAcceptor(j)' => i = j
    <2> SUFFICES ASSUME NEW i \in DOMAIN astrand', NEW j \in DOMAIN astrand',
                        OnAcceptor(i)', OnAcceptor(j)'
                 PROVE  i = j
      OBVIOUS
    <2>1. i + k = j + k
      BY <1>1 DEF Inv, OneAcceptAtATime
    <2>2. i \in Int /\ j \in Int /\ k \in Int
      BY <1>1, <1>3
    <2> QED
      BY <2>1, <2>2
  <1>5. \A i, j \in DOMAIN rq' : OnAllocation(i)' /\ OnAllocation(j)' => i = j
    <2> SUFFICES ASSUME NEW i \in DOMAIN rq', NEW j \in DOMAIN rq',
                        OnAllocation(i)', OnAllocation(j)'
                 PROVE  i = j
      OBVIOUS
    <2>1. i + l = j + l
      BY <1>2 DEF Inv, OneAcceptAtATime
    <2>2. i \in Int /\ j \in Int /\ l \in Int
      BY <1>2, <1>3
    <2> QED
      BY <2>1, <2>2
  <1>6. /\ \A o, p \in ops' : Accepting(o) /\ Accepting(p) => o = p
        /\ \A i \in DOMAIN astrand', o \in ops' : ~(OnAcceptor(i)' /\ Accepting(o))
        /\ \A i \in DOMAIN rq', o \in ops' : ~(OnAllocation(i)' /\ Accepting(o))
    BY <1>1, <1>2 DEF Inv, OneAcceptAtATime, KeepsAccepting
  <1>7. \A i \in DOMAIN astrand', j \in DOMAIN rq' :
          ~(OnAcceptor(i)' /\ OnAllocation(j)')
    BY <1>1, <1>2 DEF Inv, OneAcceptAtATime
  <1> QED
    BY <1>4, <1>5, <1>6, <1>7 DEF OneAcceptAtATime, Accepting

\* Steps that leave a queue alone or put something else on it keep the recursion.
LEMMA AcceptorKept ==
    ASSUME TypeOK,
           \/ astrand' = astrand
           \/ astrand' = Append(astrand, Op("stop", 0))
           \/ /\ astrand # <<>>
              /\ astrand' = Tail(astrand)
    PROVE  KeepsAcceptor
  <1>0. astrand \in Seq(AcceptorItem) /\ Op("stop", 0) \in AcceptorItem
    BY ItemTypes DEF TypeOK
  <1>1. CASE astrand' = astrand
    <2>1. \A i \in DOMAIN astrand' :
            OnAcceptor(i)' => i + 0 \in DOMAIN astrand /\ OnAcceptor(i + 0)
      BY <1>0, <1>1, QueueItems DEF OnAcceptor
    <2> QED
      BY <2>1 DEF KeepsAcceptor
  <1>2. CASE astrand' = Append(astrand, Op("stop", 0))
    <2>1. \A i \in DOMAIN astrand' :
            OnAcceptor(i)' => i + 0 \in DOMAIN astrand /\ OnAcceptor(i + 0)
      BY <1>0, <1>2, QueueItems DEF OnAcceptor, Op
    <2> QED
      BY <2>1 DEF KeepsAcceptor
  <1>3. CASE astrand # <<>> /\ astrand' = Tail(astrand)
    <2>1. \A i \in DOMAIN astrand' :
            OnAcceptor(i)' => i + 1 \in DOMAIN astrand /\ OnAcceptor(i + 1)
      BY <1>0, <1>3, QueueItems DEF OnAcceptor
    <2> QED
      BY <2>1 DEF KeepsAcceptor
  <1> QED
    BY <1>1, <1>2, <1>3

\* The same for the registry sequence.
LEMMA AllocationKept ==
    ASSUME TypeOK,
           \/ rq' = rq
           \/ \E t \in RegistryItem : t.op # "alloc" /\ rq' = Append(rq, t)
           \/ rq # <<>> /\ rq' = Tail(rq)
           \/ \E t, u \in RegistryItem : /\ t.op # "alloc" /\ u.op # "alloc"
                                         /\ rq' = Append(Append(rq, t), u)
    PROVE  KeepsAllocation
  <1>0. rq \in Seq(RegistryItem)
    BY DEF TypeOK
  <1>1. CASE rq' = rq
    <2>1. \A i \in DOMAIN rq' :
            OnAllocation(i)' => i + 0 \in DOMAIN rq /\ OnAllocation(i + 0)
      BY <1>0, <1>1, QueueItems DEF OnAllocation
    <2> QED
      BY <2>1 DEF KeepsAllocation
  <1>2. ASSUME NEW t \in RegistryItem, t.op # "alloc", rq' = Append(rq, t)
        PROVE  KeepsAllocation
    <2>1. \A i \in DOMAIN rq' :
            OnAllocation(i)' => i + 0 \in DOMAIN rq /\ OnAllocation(i + 0)
      BY <1>0, <1>2, QueueItems DEF OnAllocation
    <2> QED
      BY <2>1 DEF KeepsAllocation
  <1>3. CASE rq # <<>> /\ rq' = Tail(rq)
    <2>1. \A i \in DOMAIN rq' :
            OnAllocation(i)' => i + 1 \in DOMAIN rq /\ OnAllocation(i + 1)
      BY <1>0, <1>3, QueueItems DEF OnAllocation
    <2> QED
      BY <2>1 DEF KeepsAllocation
  <1>4. ASSUME NEW t \in RegistryItem, NEW u \in RegistryItem,
               t.op # "alloc", u.op # "alloc", rq' = Append(Append(rq, t), u)
        PROVE  KeepsAllocation
    <2> DEFINE q == Append(rq, t)
    <2>1. q \in Seq(RegistryItem)
      BY <1>0, QueueType
    <2>2. \A i \in DOMAIN q : q[i].op = "alloc" => i \in DOMAIN rq /\ q[i] = rq[i]
      BY <1>0, <1>4, QueueItems
    <2> HIDE DEF q
    <2>3. \A i \in DOMAIN Append(q, u) :
            Append(q, u)[i].op = "alloc" => i \in DOMAIN q /\ Append(q, u)[i] = q[i]
      BY <2>1, <1>4, QueueItems
    <2>4. \A i \in DOMAIN rq' :
            OnAllocation(i)' => i + 0 \in DOMAIN rq /\ OnAllocation(i + 0)
      BY <1>0, <1>4, <2>2, <2>3, QueueItems DEF OnAllocation, q
    <2> QED
      BY <2>4 DEF KeepsAllocation
  <1> QED
    BY <1>1, <1>2, <1>3, <1>4

-----------------------------------------------------------------------------
(***************************************************************************)
(* The steps that move the recursion.                                      *)
(***************************************************************************)
\* doAccept leaves the acceptor strand for the registry sequence, or ends.
LEMMA DoAcceptMoves == Inv /\ DoAccept => OneAcceptAtATime'
  <1> SUFFICES ASSUME Inv, DoAccept PROVE OneAcceptAtATime'
    OBVIOUS
  <1>1. /\ astrand \in Seq(AcceptorItem) /\ astrand # <<>>
        /\ rq \in Seq(RegistryItem) /\ Do("alloc", 0) \in RegistryItem
    BY ItemTypes DEF Inv, TypeOK, DoAccept, OnAcceptorStrand
  <1>2. 1 \in DOMAIN astrand /\ OnAcceptor(1)
    BY <1>1, QueueItems DEF DoAccept, OnAcceptorStrand, OnAcceptor
  <1>3. NotOnAllocation /\ NotAccepting
    BY <1>2 DEF Inv, OneAcceptAtATime, NotOnAllocation, NotAccepting
  <1>4. NotOnAcceptor'
    <2>1. \A i \in DOMAIN astrand : OnAcceptor(i) => i = 1
      BY <1>2 DEF Inv, OneAcceptAtATime
    <2> QED
      BY <1>1, <2>1, QueueItems DEF NotOnAcceptor, OnAcceptor, DoAccept
  <1>5. rq' = rq \/ rq' = Append(rq, Do("alloc", 0))
    BY Zenon DEF DoAccept, PostReg
  <1>6. \A i, j \in DOMAIN rq' : OnAllocation(i)' /\ OnAllocation(j)' => i = j
    <2>1. \A i \in DOMAIN rq : rq[i].op # "alloc"
      BY <1>3 DEF NotOnAllocation, OnAllocation
    <2>2. CASE rq' = rq
      BY <2>1, <2>2 DEF OnAllocation
    <2>3. CASE rq' = Append(rq, Do("alloc", 0))
      <3>1. \A i \in DOMAIN rq' : (i \in DOMAIN rq /\ rq'[i] = rq[i]) \/ i = Len(rq) + 1
        BY <1>1, <2>3, QueueItems
      <3>2. \A i \in DOMAIN rq' : rq'[i].op = "alloc" => i = Len(rq) + 1
        BY <2>1, <3>1
      <3> QED
        BY <3>2 DEF OnAllocation
    <2> QED
      BY <1>5, <2>2, <2>3
  <1>7. NotAccepting'
    BY <1>3 DEF NotAccepting, DoAccept
  <1> QED
    BY <1>4, <1>6, <1>7 DEF OneAcceptAtATime, NotOnAcceptor, NotAccepting

\* The allocation posts asyncAccept, or aborts the process.
LEMMA AllocMoves == Inv /\ AllocateTcpResourceAndAccept => OneAcceptAtATime'
  <1> SUFFICES ASSUME Inv, AllocateTcpResourceAndAccept PROVE OneAcceptAtATime'
    OBVIOUS
  <1>1. /\ rq \in Seq(RegistryItem) /\ rq # <<>> /\ astrand \in Seq(AcceptorItem)
    BY DEF Inv, TypeOK, AllocateTcpResourceAndAccept, OnRegistry
  <1>2. 1 \in DOMAIN rq /\ OnAllocation(1)
    BY <1>1, QueueItems DEF AllocateTcpResourceAndAccept, OnRegistry, OnAllocation
  <1>3. NotOnAcceptor /\ NotAccepting
    BY <1>2 DEF Inv, OneAcceptAtATime, NotOnAcceptor, NotAccepting
  <1>4. NotOnAllocation'
    <2>1. \A i \in DOMAIN rq : OnAllocation(i) => i = 1
      BY <1>2 DEF Inv, OneAcceptAtATime
    <2> QED
      BY <1>1, <2>1, QueueItems
         DEF NotOnAllocation, OnAllocation, AllocateTcpResourceAndAccept
  <1>5. \/ astrand' = astrand
        \/ \E c \in Conn : astrand' = Append(astrand, Op("asyncAccept", c))
    BY AllocCases, AcceptOnEffect, Zenon DEF NextConn
  <1>6. \A i, j \in DOMAIN astrand' : OnAcceptor(i)' /\ OnAcceptor(j)' => i = j
    <2>1. \A i \in DOMAIN astrand : astrand[i].op \notin {"doAccept", "asyncAccept"}
      BY <1>3 DEF NotOnAcceptor, OnAcceptor
    <2>2. CASE astrand' = astrand
      BY <2>1, <2>2 DEF OnAcceptor
    <2>3. ASSUME NEW c \in Conn, astrand' = Append(astrand, Op("asyncAccept", c))
          PROVE  \A i, j \in DOMAIN astrand' : OnAcceptor(i)' /\ OnAcceptor(j)' => i = j
      <3>1. Op("asyncAccept", c) \in AcceptorItem
        BY ItemTypes
      <3>2. \A i \in DOMAIN astrand' :
              (i \in DOMAIN astrand /\ astrand'[i] = astrand[i]) \/ i = Len(astrand) + 1
        BY <1>1, <2>3, <3>1, QueueItems
      <3>3. \A i \in DOMAIN astrand' :
              astrand'[i].op \in {"doAccept", "asyncAccept"} => i = Len(astrand) + 1
        BY <2>1, <3>2
      <3> QED
        BY <3>3 DEF OnAcceptor
    <2> QED
      BY <1>5, <2>2, <2>3
  <1>7. NotAccepting'
    BY <1>3 DEF NotAccepting, AllocateTcpResourceAndAccept
  <1> QED
    BY <1>4, <1>6, <1>7 DEF OneAcceptAtATime, NotOnAllocation, NotAccepting

\* asyncAccept leaves the acceptor strand for a pending accept, or ends.
LEMMA AsyncAcceptMoves == Inv /\ AsyncAccept => OneAcceptAtATime'
  <1> SUFFICES ASSUME Inv, AsyncAccept PROVE OneAcceptAtATime'
    OBVIOUS
  <1>1. astrand \in Seq(AcceptorItem) /\ astrand # <<>>
    BY DEF Inv, TypeOK, AsyncAccept, OnAcceptorStrand
  <1>2. 1 \in DOMAIN astrand /\ OnAcceptor(1)
    BY <1>1, QueueItems DEF AsyncAccept, OnAcceptorStrand, OnAcceptor
  <1>3. NotOnAllocation /\ NotAccepting
    BY <1>2 DEF Inv, OneAcceptAtATime, NotOnAllocation, NotAccepting
  <1>4. NotOnAcceptor'
    <2>1. \A i \in DOMAIN astrand : OnAcceptor(i) => i = 1
      BY <1>2 DEF Inv, OneAcceptAtATime
    <2> QED
      BY <1>1, <2>1, QueueItems DEF NotOnAcceptor, OnAcceptor, AsyncAccept
  <1>5. ops' = ops \/ ops' = ops \cup {Op("accept", Head(astrand).c)}
    BY DEF AsyncAccept
  <1>6. \A o, p \in ops' : Accepting(o) /\ Accepting(p) => o = p
    BY <1>3, <1>5 DEF NotAccepting
  <1>7. NotOnAllocation'
    BY <1>3 DEF NotOnAllocation, OnAllocation, AsyncAccept
  <1> QED
    BY <1>4, <1>6, <1>7
       DEF OneAcceptAtATime, NotOnAcceptor, NotOnAllocation, Accepting

\* The completion of the accept posts doAccept.
LEMMA OnAcceptMoves ==
    ASSUME Inv, NEW c \in Conn, OnAccept(c)
    PROVE  OneAcceptAtATime'
  <1>1. /\ astrand \in Seq(AcceptorItem) /\ Op("doAccept", 0) \in AcceptorItem
        /\ rq \in Seq(RegistryItem)
    BY ItemTypes DEF Inv, TypeOK
  <1>2. Op("accept", c) \in ops /\ Accepting(Op("accept", c))
    BY DEF OnAccept, Accepting, Op
  <1>3. NotOnAcceptor /\ NotOnAllocation
    BY <1>2 DEF Inv, OneAcceptAtATime, NotOnAcceptor, NotOnAllocation
  <1>4. NotAccepting'
    BY <1>2 DEF Inv, OneAcceptAtATime, NotAccepting, Accepting, OnAccept
  <1>0. CASE rq' = rq /\ astrand' = astrand
    BY <1>0, <1>3, <1>4
       DEF OneAcceptAtATime, NotOnAllocation, NotAccepting, NotOnAcceptor,
           OnAcceptor, OnAllocation
  <1> SUFFICES ASSUME \E ec \in BOOLEAN : rq' = Append(rq, Task("setAccept", c, ec, FALSE)),
                      astrand' = Append(astrand, Op("doAccept", 0))
               PROVE  OneAcceptAtATime'
    BY <1>0, OnAcceptCases
  <1>5. \A i, j \in DOMAIN astrand' : OnAcceptor(i)' /\ OnAcceptor(j)' => i = j
    BY <1>1, <1>3, QueueItems DEF NotOnAcceptor, OnAcceptor
  <1>6. NotOnAllocation'
    <2>1. PICK ec \in BOOLEAN : rq' = Append(rq, Task("setAccept", c, ec, FALSE))
      OBVIOUS
    <2>2. /\ Task("setAccept", c, ec, FALSE) \in RegistryItem
          /\ Task("setAccept", c, ec, FALSE).op # "alloc"
      BY ItemTypes DEF Task
    <2>3. \A i \in DOMAIN rq : rq[i].op # "alloc"
      BY <1>3 DEF NotOnAllocation, OnAllocation
    <2>4. \A i \in DOMAIN rq' : \/ i \in DOMAIN rq /\ rq'[i] = rq[i]
                              \/ rq'[i] = Task("setAccept", c, ec, FALSE)
      BY <1>1, <2>1, <2>2, QueueItems
    <2>5. \A i \in DOMAIN rq' : rq'[i].op # "alloc"
      BY <2>2, <2>3, <2>4
    <2> QED
      BY <2>5 DEF NotOnAllocation, OnAllocation
  <1> QED
    BY <1>4, <1>5, <1>6 DEF OneAcceptAtATime, NotOnAllocation, NotAccepting

-----------------------------------------------------------------------------
(***************************************************************************)
(* The steps that do not.                                                  *)
(***************************************************************************)
\* No step of a connection's strand but onAccept touches the recursion.
LEMMA StrandKeeps ==
    ASSUME Inv, TypeOK', NEW c \in Conn,
           StrandStep(c) \/ WsOnRead(c) \/ WsSendAsync(c)
    PROVE  OneAcceptAtATime'
  <1> USE DEF StrandStep, RunDetector, OnDetected, HttpDoRead, HttpOnRead,
       HttpOnWrite, WsStartAccept, WsOnAccept, WsOnRead, WsSendAsync, WsOnWrite,
       WsOnClose, WsPostedDoEof, WsOnFail, WsDoEof, HttpDoEof, PostReg
  <1>1. astrand' = astrand
    OBVIOUS
  <1>2. \/ rq' = rq
        \/ rq' = Append(rq, Do("markUnused", c))
        \/ rq' = Append(rq, Do("upgrade", c))
        \/ rq' = Append(rq, Do("recieved", c))
        \/ \E ec, close \in BOOLEAN : rq' = Append(rq, Task("setSSLDetect", c, ec, close))
    OBVIOUS
  <1>3. ops' \subseteq ops \cup {Op(o, c) : o \in StrandOp \ {"accept"}}
    BY DEF Continue, StrandOp
  <1>4. KeepsAcceptor
    BY <1>1, AcceptorKept DEF Inv
  <1>5. KeepsAllocation
    <2>1. \A ec, close \in BOOLEAN :
            /\ Do("markUnused", c) \in RegistryItem /\ Do("upgrade", c) \in RegistryItem
            /\ Do("recieved", c) \in RegistryItem
            /\ Task("setSSLDetect", c, ec, close) \in RegistryItem
      BY ItemTypes
    <2>2. /\ Do("markUnused", c).op # "alloc" /\ Do("upgrade", c).op # "alloc"
          /\ Do("recieved", c).op # "alloc"
          /\ \A ec, close \in BOOLEAN : Task("setSSLDetect", c, ec, close).op # "alloc"
      BY DEF Do, Task
    <2>3. rq' = rq \/ \E t \in RegistryItem : t.op # "alloc" /\ rq' = Append(rq, t)
      BY <1>2, <2>1, <2>2
    <2> QED
      BY <2>3, AllocationKept DEF Inv
  <1>6. KeepsAccepting
    BY <1>3 DEF KeepsAccepting, Accepting, Op
  <1> QED
    BY <1>4, <1>5, <1>6, KeepsOne

\* Nor do the other tasks of the registry sequence.
LEMMA TaskKeeps ==
    ASSUME Inv, TypeOK',
           \/ SetAcceptConnectionResult \/ SetSSLDetectResult \/ MarkUnused
           \/ HandleWebsocketUpgrade \/ AllocateRecievedDataComponent
           \/ CloseNetworkResources \/ CheckRegistryEmpty
    PROVE  OneAcceptAtATime'
  <1>1. KeepsAcceptor
    BY AcceptorKept DEF Inv, SetAcceptConnectionResult, SetSSLDetectResult,
       MarkUnused, HandleWebsocketUpgrade, AllocateRecievedDataComponent,
       CloseNetworkResources, CheckRegistryEmpty
  <1>2. rq # <<>> /\ rq' = Tail(rq)
    BY DEF OnRegistry, SetAcceptConnectionResult, SetSSLDetectResult,
       MarkUnused, HandleWebsocketUpgrade, AllocateRecievedDataComponent,
       CloseNetworkResources, CheckRegistryEmpty
  <1>3. KeepsAllocation
    BY <1>2, AllocationKept DEF Inv
  <1>4. \A o \in ops' : o \in ops \/ o.op = "wsStartAccept" \/ o.op = "wsDoEof"
    <2>1. CASE CloseNetworkResources
      BY <2>1 DEF CloseNetworkResources, Op
    <2>2. CASE HandleWebsocketUpgrade
      BY <2>2 DEF HandleWebsocketUpgrade, Op
    <2>3. CASE ops' = ops
      BY <2>3
    <2> QED
      BY <2>1, <2>2, <2>3 DEF SetAcceptConnectionResult, SetSSLDetectResult,
         MarkUnused, AllocateRecievedDataComponent, CheckRegistryEmpty
  <1>5. KeepsAccepting
    BY <1>4 DEF KeepsAccepting, Accepting
  <1> QED
    BY <1>1, <1>3, <1>5, KeepsOne

\* Nor does a pass of the systems, nor what unload and stopAcceptor do.
LEMMA OthersKeep ==
    ASSUME Inv, TypeOK',
           \/ Update \/ StopAcceptor \/ Unload
           \/ ValidateAndFreeNetworkResources \/ StopIOContext \/ UNCHANGED vars
    PROVE  OneAcceptAtATime'
  <1>1. KeepsAcceptor
    <2>1. \/ astrand' = astrand
          \/ astrand' = Append(astrand, Op("stop", 0))
          \/ astrand # <<>> /\ astrand' = Tail(astrand)
      BY DEF Update, StopAcceptor, Unload, ValidateAndFreeNetworkResources,
         StopIOContext, vars, OnAcceptorStrand
    <2> QED
      BY <2>1, AcceptorKept DEF Inv
  <1>2. KeepsAllocation
    <2> DEFINE t == Do("closeAll", 0)
               u == Do("check", 0)
    <2>1. rq' = rq \/ rq' = rq \o <<t, u>>
      BY DEF Update, StopAcceptor, Unload, ValidateAndFreeNetworkResources,
         StopIOContext, vars
    <2>2. /\ t \in RegistryItem /\ u \in RegistryItem
          /\ t.op # "alloc" /\ u.op # "alloc"
      BY ItemTypes DEF Do, Task
    <2> HIDE DEF t, u
    <2>3. rq \o <<t, u>> = Append(Append(rq, t), u)
      BY <2>2 DEF Inv, TypeOK
    <2> QED
      BY <2>1, <2>2, <2>3, AllocationKept DEF Inv
  <1>3. KeepsAccepting
    BY DEF Update, StopAcceptor, Unload, ValidateAndFreeNetworkResources,
       StopIOContext, vars, KeepsAccepting, Accepting, PostedByPass, Op
  <1> QED
    BY <1>1, <1>2, <1>3, KeepsOne

\* The recursion of the listener starts on the acceptor strand.
LEMMA InitOne == Init => OneAcceptAtATime
  <1> SUFFICES ASSUME Init PROVE OneAcceptAtATime
    OBVIOUS
  <1>1. DOMAIN astrand = {1} /\ DOMAIN rq = {} /\ ops = {}
    BY DEF Init
  <1> QED
    BY <1>1 DEF OneAcceptAtATime

\* The listener never has two accepts pending, two allocations, or one of each:
\* the recursion doAccept, allocateTcpResourceAndAccept, asyncAccept, onAccept
\* is in at most one place.
THEOREM OneAcceptCorrect == Spec => []OneAcceptAtATime
  <1>1. Init => Inv
    BY InitType, InitOne DEF Inv
  <1>2. Inv /\ TypeOK' /\ [Next]_vars => Inv'
    <2> SUFFICES ASSUME Inv, TypeOK', [Next]_vars PROVE OneAcceptAtATime'
      BY DEF Inv
    <2>1. CASE AcceptorStep
      BY <2>1, DoAcceptMoves, AsyncAcceptMoves, OthersKeep DEF AcceptorStep
    <2>2. CASE RegistryStep
      BY <2>2, AllocMoves, TaskKeeps DEF RegistryStep
    <2>3. ASSUME NEW c \in Conn,
                 OnAccept(c) \/ StrandStep(c) \/ WsOnRead(c) \/ WsSendAsync(c)
          PROVE  OneAcceptAtATime'
      BY <2>3, OnAcceptMoves, StrandKeeps
    <2>4. CASE \/ Update \/ Unload \/ ValidateAndFreeNetworkResources
               \/ StopIOContext \/ UNCHANGED vars
      BY <2>4, OthersKeep
    <2> QED
      BY <2>1, <2>2, <2>3, <2>4 DEF Next
  <1>3. Inv => OneAcceptAtATime
    BY DEF Inv
  <1> QED
    BY <1>1, <1>2, <1>3, TypeCorrect, PTL DEF Spec
=============================================================================
