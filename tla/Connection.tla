----------------------------- MODULE Connection -----------------------------
(***************************************************************************)
(* The life of a TCP connection in the server, from the entity that the    *)
(* listener allocates before anybody connects to the shutdown that waits   *)
(* for an empty ECS registry.                                              *)
(*                                                                         *)
(* Three kinds of sequence interleave:                                     *)
(*   - the acceptor strand (astrand, a FIFO of posted closures), on which  *)
(*     ws::Listener runs doAccept, asyncAccept and stopAcceptor;           *)
(*   - the registry sequence (rq, a FIFO of posted tasks), the only one    *)
(*     that touches entities, tags and components;                         *)
(*   - one strand per connection (ops, the closures posted on it and the   *)
(*     asynchronous operations whose completion handler will run on it).   *)
(*                                                                         *)
(* Connections are numbered in the order of their allocation.  A created   *)
(* entity carries the number of its first connection, because entt never   *)
(* gives out an identifier (index and version) twice; a reused entity      *)
(* serves several connections, one after the other.                        *)
(*                                                                         *)
(* DCHECKs are compiled out, as in a release build: what they state are    *)
(* properties to check, not guards.                                        *)
(***************************************************************************)
EXTENDS Integers, Sequences

CONSTANTS
    MaxConn,         \* bound: how many connections are ever allocated
    MaxServed,       \* bound: how many of them are accepted, the first ones
    Env,             \* what clients and the system do, a subset of EnvChoice
    NotConstructed,  \* tags that exclude_not_constructed hides (basis library)
    ReuseClears      \* tags that populateDelayedConstructionComponents removes

Conn == 1..MaxConn

(***************************************************************************)
(* "upgrade": clients ask for a websocket; "keepalive": clients keep an    *)
(* HTTP connection for further requests; "messages": websocket clients     *)
(* send messages that are not empty; "send": the application calls         *)
(* sendAsync on open websockets; "failpoint": the fail points onAborted_   *)
(* and onDetect_ may fire; "stopFails": cancelling or closing the acceptor *)
(* may return an error and leave it open; "plugpoint": a plugin may take   *)
(* received messages.                                                      *)
(***************************************************************************)
EnvChoice == {"upgrade", "keepalive", "messages", "send", "failpoint",
              "stopFails", "plugpoint"}

Tag == {"Unused", "NeedToDestroy", "DelayedConstruction", "JustDone",
        "UnusedAcceptResult", "UnusedSSLDetectResult"}

ASSUME BoundAssumption == MaxConn \in Nat \ {0} /\ MaxServed \in 0..MaxConn
ASSUME EnvAssumption == Env \subseteq EnvChoice
ASSUME LibraryAssumption ==
    /\ {"NeedToDestroy", "DelayedConstruction"} \subseteq NotConstructed
    /\ NotConstructed \subseteq
          {"NeedToDestroy", "DelayedConstruction", "Unused"}
    /\ "Unused" \in ReuseClears
    /\ ReuseClears \subseteq {"Unused", "JustDone"}

VARIABLES
    phase,         \* progress of MainPluginLogic::unload of TcpServer
    acceptorOpen,  \* acceptor_.is_open()
    astrand,       \* closures posted on acceptorStrand_
    rq,            \* tasks posted on registry_.taskRunner()
    ent,           \* entity of each connection, 0 before its allocation
    reg,           \* the registry: what each entity holds
    sock,          \* the connection's socket handle
    wsStatus,      \* status of the websocket stream of the connection
    ops,           \* posted closures and pending operations of its strand
    orphans,       \* message entities whose parent is gone
    dropped        \* entities that an early return of Listener leaves behind

vars == <<phase, acceptorOpen, astrand, rq, ent, reg, sock, wsStatus, ops,
          orphans, dropped>>

\* A result component: the connection whose stream it carries, the error
\* code, and whether the connection has to be closed.  None: no component.
Result == [c : Conn, ec : BOOLEAN, close : BOOLEAN]

None == [c |-> 0, ec |-> FALSE, close |-> FALSE]

(***************************************************************************)
(* What an entity holds: its tags; the two result components; the channel  *)
(* objects in the context of its TcpConnection component, named by the     *)
(* connection that each of them serves (0: absent); and the connections    *)
(* whose received messages are its children.                               *)
(***************************************************************************)
Absent == [valid |-> FALSE, tags |-> {}, acc |-> None, ssl |-> None,
           detect |-> 0, http |-> 0, ws |-> 0, kids |-> {}]

Entities == {e \in Conn : reg[e].valid}

Allocated == {c \in Conn : ent[c] # 0}

\* The number of the next connection, if the bound leaves one.
NextConn == {c \in Conn \ Allocated : \A d \in Conn : d < c => d \in Allocated}

Task(op, c, ec, close) == [op |-> op, c |-> c, ec |-> ec, close |-> close]

Do(op, c) == Task(op, c, FALSE, FALSE)

Op(op, c) == [op |-> op, c |-> c]

\* The kind of object whose member function an operation of a strand calls.
Owner(op) == CASE op \in {"runDetector", "detect"} -> "detect"
               [] op \in {"httpDoRead", "httpRead", "httpWrite"} -> "http"
               [] op \in {"wsStartAccept", "wsAccept", "wsRead", "wsWrite",
                          "wsClose", "wsDoEof"} -> "ws"
               [] op = "accept" -> "listener"

\* The channel object of the given kind that serves connection c still exists.
Alive(kind, c) ==
    LET r == reg[ent[c]]
    IN  r.valid /\ CASE kind = "detect" -> r.detect = c
                     [] kind = "http" -> r.http = c
                     [] kind = "ws" -> r.ws = c
                     [] kind = "listener" -> TRUE

Init ==
    /\ phase = "run"
    /\ acceptorOpen = TRUE
    /\ astrand = <<Op("doAccept", 0)>>
    /\ rq = <<>>
    /\ ent = [c \in Conn |-> 0]
    /\ reg = [e \in Conn |-> Absent]
    /\ sock = [c \in Conn |-> "none"]
    /\ wsStatus = [c \in Conn |-> "none"]
    /\ ops = {}
    /\ orphans = {}
    /\ dropped = {}

\* io_context handlers run until stopIOContext; a failed CHECK ends the process.
IocRuns == phase \notin {"stopped", "aborted"}

PostReg(task) == rq' = Append(rq, task)

-----------------------------------------------------------------------------
(***************************************************************************)
(* The acceptor strand: ws::Listener.                                      *)
(***************************************************************************)
OnAcceptorStrand(op) ==
    /\ IocRuns
    /\ astrand # <<>>
    /\ Head(astrand).op = op

\* Listener::doAccept: the recursion ends when the acceptor is closed.  The
\* bound: it also ends when all connections are allocated.
DoAccept ==
    /\ OnAcceptorStrand("doAccept")
    /\ astrand' = Tail(astrand)
    /\ IF acceptorOpen /\ Allocated # Conn
       THEN PostReg(Do("alloc", 0))
       ELSE UNCHANGED rq
    /\ UNCHANGED <<phase, acceptorOpen, ent, reg, sock, wsStatus, ops,
                   orphans, dropped>>

\* Mutant of AsyncAccept: goes on accepting without waiting for onAccept.
AsyncAcceptEager ==
    /\ OnAcceptorStrand("asyncAccept")
    /\ astrand' = Append(Tail(astrand), Op("doAccept", 0))
    /\ ops' = ops \cup {Op("accept", Head(astrand).c)}
    /\ UNCHANGED <<phase, acceptorOpen, rq, ent, reg, sock, wsStatus, orphans,
                   dropped>>

\* Listener::asyncAccept: with a closed acceptor it only logs and returns.
AsyncAccept ==
    /\ OnAcceptorStrand("asyncAccept")
    /\ astrand' = Tail(astrand)
    /\ LET c == Head(astrand).c
       IN  IF acceptorOpen
           THEN ops' = ops \cup {Op("accept", c)} /\ UNCHANGED dropped
           ELSE dropped' = dropped \cup {ent[c]} /\ UNCHANGED ops
    /\ UNCHANGED <<phase, acceptorOpen, rq, ent, reg, sock, wsStatus, orphans>>

\* Listener::stopAcceptor; the promise it resolves starts the wait for an
\* empty registry, whether or not the acceptor was closed.
StopAcceptor ==
    /\ OnAcceptorStrand("stop")
    /\ astrand' = Tail(astrand)
    /\ \/ acceptorOpen' = FALSE
       \/ "stopFails" \in Env /\ UNCHANGED acceptorOpen
    /\ phase' = "freeing"
    /\ UNCHANGED <<rq, ent, reg, sock, wsStatus, ops, orphans, dropped>>

\* Listener::onAccept, on the strand of the new connection.  An open acceptor
\* completes the operation with a connection or with an error, a closed one
\* with operation_aborted; the fail point turns a success into an error that
\* keeps its open socket.  A handler that already runs when the io_context is
\* stopped returns early, and its socket is closed with it.  The bound: behind an
\* open acceptor only the first MaxServed operations complete.
OnAccept(c) ==
    /\ phase # "aborted"
    /\ Op("accept", c) \in ops
    /\ ops' = ops \ {Op("accept", c)}
    /\ IF IocRuns
       THEN /\ acceptorOpen => c <= MaxServed
            /\ \E ec, open \in BOOLEAN :
                 /\ ~ec => open /\ acceptorOpen
                 /\ ec /\ open => acceptorOpen /\ "failpoint" \in Env
                 /\ sock' = [sock EXCEPT ![c] = IF open THEN "open" ELSE "closed"]
                 /\ PostReg(Task("setAccept", c, ec, FALSE))
            /\ astrand' = Append(astrand, Op("doAccept", 0))
            /\ UNCHANGED dropped
       ELSE /\ sock' = [sock EXCEPT ![c] = "closed"]
            /\ dropped' = dropped \cup {ent[c]}
            /\ UNCHANGED <<rq, astrand>>
    /\ UNCHANGED <<phase, acceptorOpen, ent, reg, wsStatus, orphans>>

-----------------------------------------------------------------------------
(***************************************************************************)
(* The registry sequence: allocation of TCP entities.                      *)
(***************************************************************************)
OnRegistry(op) ==
    /\ phase # "aborted"
    /\ rq # <<>>
    /\ Head(rq).op = op

\* Mutant of Reusable: the search forgets ECS::UnusedTag.
ReusableAnyEntity == {e \in Entities : "NeedToDestroy" \notin reg[e].tags}

Reusable == {e \in Entities : /\ "Unused" \in reg[e].tags
                              /\ "NeedToDestroy" \notin reg[e].tags}

\* The two CHECKs of resetOnCacheReuse: no result waits to be processed.
ResultsProcessed(r) ==
    /\ r.acc # None => "UnusedAcceptResult" \in r.tags
    /\ r.ssl # None => "UnusedSSLDetectResult" \in r.tags

\* populateAssociatedComponents of a created entity.
NewEntity == [Absent EXCEPT !.valid = TRUE, !.tags = {"DelayedConstruction"}]

\* resetOnCacheReuse: the channels of the context and the children stay.
ResetOnCacheReuse(r) ==
    [r EXCEPT !.tags = (@ \ ReuseClears) \cup {"DelayedConstruction"}]

\* What follows an allocation: asyncAccept is posted.  With a stopped io_context
\* it is not, and nobody releases the entity.
AcceptOn(c, e) ==
    IF IocRuns
    THEN astrand' = Append(astrand, Op("asyncAccept", c)) /\ UNCHANGED dropped
    ELSE dropped' = dropped \cup {e} /\ UNCHANGED astrand

\* Listener::allocateTcpResourceAndAccept with TcpEntityAllocator.
AllocateTcpResourceAndAccept ==
    /\ OnRegistry("alloc")
    /\ rq' = Tail(rq)
    /\ \E c \in NextConn :
         \/ /\ Reusable = {}
            /\ ent' = [ent EXCEPT ![c] = c]
            /\ reg' = [reg EXCEPT ![c] = NewEntity]
            /\ AcceptOn(c, c)
            /\ UNCHANGED phase
         \/ \E e \in Reusable :
              IF ResultsProcessed(reg[e])
              THEN /\ ent' = [ent EXCEPT ![c] = e]
                   /\ reg' = [reg EXCEPT ![e] = ResetOnCacheReuse(@)]
                   /\ AcceptOn(c, e)
                   /\ UNCHANGED phase
              ELSE phase' = "aborted" /\ UNCHANGED <<ent, reg, astrand, dropped>>
    /\ UNCHANGED <<acceptorOpen, sock, wsStatus, ops, orphans>>

-----------------------------------------------------------------------------
(***************************************************************************)
(* The registry sequence: results and messages posted by the strands.  A   *)
(* task whose entity is no longer valid touches freed memory; here it has  *)
(* no effect but to lose the stream it carries.                            *)
(***************************************************************************)
\* Listener::setAcceptConnectionResult.
SetAcceptConnectionResult ==
    /\ OnRegistry("setAccept")
    /\ rq' = Tail(rq)
    /\ LET t == Head(rq)
           e == ent[t.c]
       IN  IF reg[e].valid
           THEN /\ reg' = [reg EXCEPT
                     ![e].tags = @ \ {"UnusedAcceptResult"},
                     ![e].acc = [c |-> t.c, ec |-> t.ec,
                                 close |-> sock[t.c] # "open"]]
                /\ UNCHANGED sock
           ELSE sock' = [sock EXCEPT ![t.c] = "closed"] /\ UNCHANGED reg
    /\ UNCHANGED <<phase, acceptorOpen, astrand, ent, wsStatus, ops, orphans,
                   dropped>>

\* DetectChannel::setSSLDetectResult.
SetSSLDetectResult ==
    /\ OnRegistry("setSSLDetect")
    /\ rq' = Tail(rq)
    /\ LET t == Head(rq)
           e == ent[t.c]
       IN  IF reg[e].valid
           THEN /\ reg' = [reg EXCEPT
                     ![e].tags = @ \ {"UnusedSSLDetectResult"},
                     ![e].ssl = [c |-> t.c, ec |-> t.ec, close |-> t.close]]
                /\ UNCHANGED sock
           ELSE sock' = [sock EXCEPT ![t.c] = "closed"] /\ UNCHANGED reg
    /\ UNCHANGED <<phase, acceptorOpen, astrand, ent, wsStatus, ops, orphans,
                   dropped>>

\* HttpChannel::markUnused and WsChannel::markUnused.
MarkUnused ==
    /\ OnRegistry("markUnused")
    /\ rq' = Tail(rq)
    /\ LET e == ent[Head(rq).c]
       IN  reg' = IF reg[e].valid
                  THEN [reg EXCEPT ![e].tags = @ \cup {"Unused"}]
                  ELSE reg
    /\ UNCHANGED <<phase, acceptorOpen, astrand, ent, sock, wsStatus, ops,
                   orphans, dropped>>

\* HttpChannel::handleWebsocketUpgrade: the websocket channel replaces the
\* one the context may still hold, which dies with its stream.
HandleWebsocketUpgrade ==
    /\ OnRegistry("upgrade")
    /\ rq' = Tail(rq)
    /\ LET c == Head(rq).c
           e == ent[c]
           old == reg[e].ws
       IN  IF reg[e].valid
           THEN /\ reg' = [reg EXCEPT ![e].ws = c]
                /\ ops' = ops \cup {Op("wsStartAccept", c)}
                /\ sock' = [d \in Conn |-> IF d = old THEN "closed" ELSE sock[d]]
           ELSE /\ sock' = [sock EXCEPT ![c] = "closed"]
                /\ UNCHANGED <<reg, ops>>
    /\ UNCHANGED <<phase, acceptorOpen, astrand, ent, wsStatus, orphans,
                   dropped>>

\* WsChannel::allocateRecievedDataComponent: a child entity per message, unless
\* a plugin takes the message at the plug point.
AllocateRecievedDataComponent ==
    /\ OnRegistry("recieved")
    /\ rq' = Tail(rq)
    /\ LET c == Head(rq).c
           e == ent[c]
       IN  \/ "plugpoint" \in Env /\ UNCHANGED <<reg, orphans>>
           \/ IF reg[e].valid
              THEN reg' = [reg EXCEPT ![e].kids = @ \cup {c}] /\ UNCHANGED orphans
              ELSE orphans' = orphans \cup {c} /\ UNCHANGED reg
    /\ UNCHANGED <<phase, acceptorOpen, astrand, ent, sock, wsStatus, ops,
                   dropped>>

-----------------------------------------------------------------------------
(***************************************************************************)
(* The registry sequence: NetworkEntityUpdater runs its systems one after  *)
(* the other in a single task.  Each system treats entities separately, so *)
(* a system is an operator on what one entity holds.                       *)
(***************************************************************************)
Visible(r, tags) == r.valid /\ r.tags \cap (NotConstructed \cup tags) = {}

AddTag(r, tag) == [r EXCEPT !.tags = @ \cup {tag}]

NewAccept(r) == r.acc # None /\ Visible(r, {"UnusedAcceptResult"})

BadAccept(r) == r.acc.ec \/ r.acc.close

\* Mutant of HandleAcceptResult: a bad result is closed and not released.
HandleAcceptResultNoRelease(r) ==
    IF BadAccept(r) THEN r ELSE [r EXCEPT !.detect = r.acc.c]

\* handleAcceptResult: close and release, or hand the socket to a detector.
HandleAcceptResult(r) ==
    IF BadAccept(r) THEN AddTag(r, "Unused") ELSE [r EXCEPT !.detect = r.acc.c]

\* Mutant of UpdateNewConnections: the result is not marked as handled.
UpdateNewConnectionsUnmarked(r) == IF NewAccept(r) THEN HandleAcceptResult(r) ELSE r

\* updateNewConnections: handles each accept result once.
UpdateNewConnections(r) ==
    IF NewAccept(r)
    THEN AddTag(HandleAcceptResult(r), "UnusedAcceptResult")
    ELSE r

NewSSLDetect(r) == r.ssl # None /\ Visible(r, {"UnusedSSLDetectResult"})

BadSSLDetect(r) == r.ssl.close \/ r.ssl.ec

\* handleSSLDetectResult: close and release, or start an HTTP channel.
HandleSSLDetectResult(r) ==
    IF BadSSLDetect(r) THEN AddTag(r, "Unused") ELSE [r EXCEPT !.http = r.ssl.c]

\* updateSSLDetection: handles each SSL detection result once.
UpdateSSLDetection(r) ==
    IF NewSSLDetect(r)
    THEN AddTag(HandleSSLDetectResult(r), "UnusedSSLDetectResult")
    ELSE r

\* updateUnusedChildList: the children of an unused entity are marked for
\* destruction, which the cleanup at the end of the same pass carries out.
UpdateUnusedChildList(r) ==
    IF "Unused" \in r.tags
         /\ {"NeedToDestroy", "DelayedConstruction"} \cap r.tags = {}
    THEN [r EXCEPT !.kids = {}]
    ELSE r

\* Two passes turn a new entity into one that the systems see.
UpdateDelayedConstructionJustDone(r) ==
    IF "NeedToDestroy" \notin r.tags THEN [r EXCEPT !.tags = @ \ {"JustDone"}] ELSE r

UpdateDelayedConstruction(r) ==
    IF "DelayedConstruction" \in r.tags /\ "NeedToDestroy" \notin r.tags
    THEN [r EXCEPT !.tags = (@ \ {"DelayedConstruction"}) \cup {"JustDone"}]
    ELSE r

\* An unused entity is marked, and the marked ones are destroyed.
UpdateUnusedSystem(r) ==
    IF "Unused" \in r.tags THEN AddTag(r, "NeedToDestroy") ELSE r

UpdateCleanupSystem(r) == IF "NeedToDestroy" \in r.tags THEN Absent ELSE r

\* The systems that create channels, and all systems before the cleanup.
AfterResults(r) == UpdateSSLDetection(UpdateNewConnections(r))

BeforeCleanup(r) ==
    UpdateUnusedSystem(
      UpdateDelayedConstruction(
        UpdateDelayedConstructionJustDone(
          UpdateUnusedChildList(AfterResults(r)))))

UpdatePass(r) == UpdateCleanupSystem(BeforeCleanup(r))

\* The task in the queue that owns the stream of connection c, if there is one.
InTask(c) ==
    \E i \in DOMAIN rq : rq[i].c = c /\ rq[i].op \in {"setSSLDetect", "upgrade"}

\* Connections whose socket a pass over entity e closes: a bad result is
\* closed by its handler, the rest by the destructors of a destroyed entity.
ClosedByPass(e) ==
    LET r == reg[e]
        s == UpdateNewConnections(r)
    IN  (IF NewAccept(r) /\ BadAccept(r) THEN {r.acc.c} ELSE {})
          \cup (IF NewSSLDetect(s) /\ BadSSLDetect(s) THEN {s.ssl.c} ELSE {})
          \cup (IF UpdatePass(r).valid THEN {}
                ELSE {c \in Conn : ent[c] = e /\ ~InTask(c)})

\* The closures that the handlers of one pass over entity e post.
PostedByPass(e) ==
    LET r == reg[e]
        s == AfterResults(r)
    IN  (IF s.detect # r.detect THEN {Op("runDetector", s.detect)} ELSE {})
          \cup (IF s.http # r.http THEN {Op("httpDoRead", s.http)} ELSE {})

\* The children that a destroyed entity leaves behind.
OrphanedByPass(e) ==
    LET r == BeforeCleanup(reg[e])
    IN  IF UpdateCleanupSystem(r).valid THEN {} ELSE r.kids

\* NetworkEntityUpdater::update and updateOnRegistryThread.  The periodic
\* timer posts the pass at any time, so it may run between any two tasks.
Update ==
    /\ IocRuns
    /\ Entities # {}
    /\ reg' = [e \in Conn |-> UpdatePass(reg[e])]
    /\ ops' = ops \cup UNION {PostedByPass(e) : e \in Entities}
    /\ LET closed == UNION {ClosedByPass(e) : e \in Entities}
       IN  sock' = [c \in Conn |-> IF c \in closed THEN "closed" ELSE sock[c]]
    /\ orphans' = orphans \cup UNION {OrphanedByPass(e) : e \in Entities}
    /\ UNCHANGED <<phase, acceptorOpen, astrand, rq, ent, wsStatus, dropped>>

-----------------------------------------------------------------------------
(***************************************************************************)
(* The strand of a connection: http::DetectChannel and http::HttpChannel.  *)
(***************************************************************************)
OnStrand(op, c) == IocRuns /\ Op(op, c) \in ops

\* ops without the operation that runs, and with the one it starts.
Continue(op, c, then) == ops' = (ops \ {Op(op, c)}) \cup {Op(o, c) : o \in then}

\* DetectChannel::runDetector starts async_detect_ssl with a timeout.
RunDetector(c) ==
    /\ OnStrand("runDetector", c)
    /\ Continue("runDetector", c, {"detect"})
    /\ UNCHANGED <<phase, acceptorOpen, astrand, rq, ent, reg, sock, wsStatus,
                   orphans, dropped>>

\* DetectChannel::onDetected: the timeout of the stream closes its socket.
OnDetected(c) ==
    /\ OnStrand("detect", c)
    /\ Continue("detect", c, {})
    /\ \E ec, timeout, fail \in BOOLEAN :
         /\ timeout => ec
         /\ fail => "failpoint" \in Env
         /\ sock[c] # "open" => ec
         /\ sock' = [sock EXCEPT ![c] = IF timeout THEN "closed" ELSE @]
         /\ PostReg(Task("setSSLDetect", c, ec, fail \/ sock'[c] # "open"))
    /\ UNCHANGED <<phase, acceptorOpen, astrand, ent, reg, wsStatus, orphans,
                   dropped>>

\* HttpChannel::doEof: close the socket and let the registry mark the entity.
HttpDoEof(c) ==
    /\ sock' = [sock EXCEPT ![c] = "closed"]
    /\ PostReg(Do("markUnused", c))

\* HttpChannel::doRead, posted by startReadAsync.
HttpDoRead(c) ==
    /\ OnStrand("httpDoRead", c)
    /\ Continue("httpDoRead", c, {"httpRead"})
    /\ UNCHANGED <<phase, acceptorOpen, astrand, rq, ent, reg, sock, wsStatus,
                   orphans, dropped>>

\* Mutant of HttpOnRead: no return after the upgrade, the request is answered.
HttpOnReadNoReturn(c) ==
    /\ OnStrand("httpRead", c)
    /\ sock[c] = "open"
    /\ Continue("httpRead", c, {"httpWrite"})
    /\ PostReg(Do("upgrade", c))
    /\ UNCHANGED <<phase, acceptorOpen, astrand, ent, reg, sock, wsStatus,
                   orphans, dropped>>

\* HttpChannel::onRead: end of stream or an error (a timeout among them), a
\* websocket upgrade, or a request that is answered with async_write.
HttpOnRead(c) ==
    /\ OnStrand("httpRead", c)
    /\ \/ Continue("httpRead", c, {}) /\ HttpDoEof(c)
       \/ /\ sock[c] = "open" /\ "upgrade" \in Env
          /\ Continue("httpRead", c, {})
          /\ PostReg(Do("upgrade", c))
          /\ UNCHANGED sock
       \/ /\ sock[c] = "open"
          /\ Continue("httpRead", c, {"httpWrite"})
          /\ UNCHANGED <<rq, sock>>
    /\ UNCHANGED <<phase, acceptorOpen, astrand, ent, reg, wsStatus, orphans,
                   dropped>>

\* Mutant of HttpOnWrite: no return after doEof, the next request is read.
HttpOnWriteNoReturn(c) ==
    /\ OnStrand("httpWrite", c)
    /\ Continue("httpWrite", c, {"httpRead"})
    /\ HttpDoEof(c)
    /\ UNCHANGED <<phase, acceptorOpen, astrand, ent, reg, wsStatus, orphans,
                   dropped>>

\* HttpChannel::onWrite: an error or a response that closes the connection
\* end it, otherwise the next request is read.
HttpOnWrite(c) ==
    /\ OnStrand("httpWrite", c)
    /\ \/ Continue("httpWrite", c, {}) /\ HttpDoEof(c)
       \/ /\ sock[c] = "open" /\ "keepalive" \in Env
          /\ Continue("httpWrite", c, {"httpRead"})
          /\ UNCHANGED <<rq, sock>>
    /\ UNCHANGED <<phase, acceptorOpen, astrand, ent, reg, wsStatus, orphans,
                   dropped>>

-----------------------------------------------------------------------------
(***************************************************************************)
(* The strand of a connection: ws::WsChannel.                              *)
(***************************************************************************)
\* WsChannel::doEof, given the operations left on the strand: an open
\* websocket starts the closing handshake, and without waiting for its end
\* the registry is asked to mark the entity.
WsDoEof(c, left, status) ==
    /\ wsStatus' = [wsStatus EXCEPT ![c] = IF status = "open" THEN "closing" ELSE status]
    /\ ops' = IF status = "open" THEN left \cup {Op("wsClose", c)} ELSE left
    /\ PostReg(Do("markUnused", c))

\* WsChannel::onFail: every failed operation leaves the websocket not open.
WsOnFail(c, op) ==
    WsDoEof(c, ops \ {Op(op, c)}, IF op = "wsAccept" THEN wsStatus[c] ELSE "closed")

\* WsChannel::startAccept.
WsStartAccept(c) ==
    /\ OnStrand("wsStartAccept", c)
    /\ Continue("wsStartAccept", c, {"wsAccept"})
    /\ UNCHANGED <<phase, acceptorOpen, astrand, rq, ent, reg, sock, wsStatus,
                   orphans, dropped>>

\* WsChannel::onAccept.
WsOnAccept(c) ==
    /\ OnStrand("wsAccept", c)
    /\ \/ WsOnFail(c, "wsAccept")
       \/ /\ sock[c] = "open"
          /\ wsStatus' = [wsStatus EXCEPT ![c] = "open"]
          /\ Continue("wsAccept", c, {"wsRead"})
          /\ UNCHANGED rq
    /\ UNCHANGED <<phase, acceptorOpen, astrand, ent, reg, sock, orphans, dropped>>

\* WsChannel::onRead: an error; an empty or too big message, after which
\* nothing is read any more; or a message for the registry.  The bound: one
\* message per connection waits in the queue.
WsOnRead(c) ==
    /\ OnStrand("wsRead", c)
    /\ \/ WsOnFail(c, "wsRead")
       \/ /\ sock[c] = "open" /\ wsStatus[c] \in {"open", "closing"}
          /\ Continue("wsRead", c, {})
          /\ UNCHANGED <<rq, wsStatus>>
       \/ /\ sock[c] = "open" /\ wsStatus[c] \in {"open", "closing"}
          /\ "messages" \in Env
          /\ \A i \in DOMAIN rq : rq[i] # Do("recieved", c)
          /\ PostReg(Do("recieved", c))
          /\ Continue("wsRead", c, {"wsRead"})
          /\ UNCHANGED wsStatus
    /\ UNCHANGED <<phase, acceptorOpen, astrand, ent, reg, sock, orphans, dropped>>

\* WsChannel::sendAsync and send, called by the application on a websocket
\* that is open; the queue behind the write is module WsSend.
WsSendAsync(c) ==
    /\ IocRuns
    /\ "send" \in Env
    /\ ent[c] # 0 /\ Alive("ws", c) /\ wsStatus[c] = "open"
    /\ Op("wsWrite", c) \notin ops
    /\ ops' = ops \cup {Op("wsWrite", c)}
    /\ UNCHANGED <<phase, acceptorOpen, astrand, rq, ent, reg, sock, wsStatus,
                   orphans, dropped>>

\* WsChannel::onWrite.
WsOnWrite(c) ==
    /\ OnStrand("wsWrite", c)
    /\ \/ WsOnFail(c, "wsWrite")
       \/ /\ sock[c] = "open" /\ wsStatus[c] = "open"
          /\ Continue("wsWrite", c, {})
          /\ UNCHANGED <<rq, wsStatus>>
    /\ UNCHANGED <<phase, acceptorOpen, astrand, ent, reg, sock, orphans, dropped>>

\* WsChannel::onClose.
WsOnClose(c) ==
    /\ OnStrand("wsClose", c)
    /\ \/ WsOnFail(c, "wsClose")
       \/ /\ sock[c] = "open"
          /\ wsStatus' = [wsStatus EXCEPT ![c] = "closed"]
          /\ Continue("wsClose", c, {})
          /\ UNCHANGED rq
    /\ UNCHANGED <<phase, acceptorOpen, astrand, ent, reg, sock, orphans, dropped>>

\* WsChannel::doEof as posted by closeNetworkResources, behind startAccept on
\* the same strand and bound to a weak pointer.
WsPostedDoEof(c) ==
    /\ OnStrand("wsDoEof", c)
    /\ Op("wsStartAccept", c) \notin ops
    /\ IF Alive("ws", c)
       THEN WsDoEof(c, ops \ {Op("wsDoEof", c)}, wsStatus[c])
       ELSE Continue("wsDoEof", c, {}) /\ UNCHANGED <<rq, wsStatus>>
    /\ UNCHANGED <<phase, acceptorOpen, astrand, ent, reg, sock, orphans, dropped>>

-----------------------------------------------------------------------------
(***************************************************************************)
(* The main loop: MainPluginLogic::unload of plugin TcpServer.             *)
(***************************************************************************)
\* stopAcceptorAsync posts stopAcceptor on the acceptor strand.
Unload ==
    /\ phase = "run"
    /\ phase' = "stopping"
    /\ astrand' = Append(astrand, Op("stop", 0))
    /\ UNCHANGED <<acceptorOpen, rq, ent, reg, sock, wsStatus, ops, orphans,
                   dropped>>

\* validateAndFreeNetworkResources, run periodically until it resolves.  The
\* bound: the next run waits until the tasks of the last one are done.
ValidateAndFreeNetworkResources ==
    /\ phase = "freeing"
    /\ \A i \in DOMAIN rq : rq[i].op \notin {"closeAll", "check"}
    /\ rq' = rq \o <<Do("closeAll", 0), Do("check", 0)>>
    /\ UNCHANGED <<phase, acceptorOpen, astrand, ent, reg, sock, wsStatus, ops,
                   orphans, dropped>>

\* Mutant of CloseNetworkResources: no check that there is a websocket channel.
CloseNetworkResourcesUnchecked ==
    /\ OnRegistry("closeAll")
    /\ rq' = Tail(rq)
    /\ ops' = ops \cup {Op("wsDoEof", reg[e].ws) :
                          e \in {e \in Entities : Visible(reg[e], {})}}
    /\ UNCHANGED <<phase, acceptorOpen, astrand, ent, reg, sock, wsStatus,
                   orphans, dropped>>

\* Mutant of CloseNetworkResources: no websocket is closed at shutdown.
CloseNetworkResourcesNone ==
    /\ OnRegistry("closeAll")
    /\ rq' = Tail(rq)
    /\ UNCHANGED <<phase, acceptorOpen, astrand, ent, reg, sock, wsStatus, ops,
                   orphans, dropped>>

\* closeNetworkResources: only connections that have a websocket channel.
CloseNetworkResources ==
    /\ OnRegistry("closeAll")
    /\ rq' = Tail(rq)
    /\ ops' = ops \cup {Op("wsDoEof", reg[e].ws) :
                          e \in {e \in Entities : Visible(reg[e], {}) /\ reg[e].ws # 0}}
    /\ UNCHANGED <<phase, acceptorOpen, astrand, ent, reg, sock, wsStatus,
                   orphans, dropped>>

\* Mutant of CheckRegistryEmpty: entities not fully constructed do not count.
CheckRegistryEmptyVisible ==
    /\ OnRegistry("check")
    /\ rq' = Tail(rq)
    /\ phase' = IF {e \in Entities : Visible(reg[e], {})} = {} THEN "freed" ELSE phase
    /\ UNCHANGED <<acceptorOpen, astrand, ent, reg, sock, wsStatus, ops,
                   orphans, dropped>>

\* The check that resolves promiseNetworkResourcesFreed.
CheckRegistryEmpty ==
    /\ OnRegistry("check")
    /\ rq' = Tail(rq)
    /\ phase' = IF Entities = {} /\ orphans = {} THEN "freed" ELSE phase
    /\ UNCHANGED <<acceptorOpen, astrand, ent, reg, sock, wsStatus, ops,
                   orphans, dropped>>

\* stopIOContext.
StopIOContext ==
    /\ phase = "freed"
    /\ phase' = "stopped"
    /\ UNCHANGED <<acceptorOpen, astrand, rq, ent, reg, sock, wsStatus, ops,
                   orphans, dropped>>

-----------------------------------------------------------------------------
AcceptorStep == DoAccept \/ AsyncAccept \/ StopAcceptor

RegistryStep ==
    \/ AllocateTcpResourceAndAccept
    \/ SetAcceptConnectionResult
    \/ SetSSLDetectResult
    \/ MarkUnused
    \/ HandleWebsocketUpgrade
    \/ AllocateRecievedDataComponent
    \/ CloseNetworkResources
    \/ CheckRegistryEmpty

\* Closures and operations that run or complete by themselves: they are
\* posted, or a timeout bounds them.
StrandStep(c) ==
    \/ RunDetector(c) \/ OnDetected(c)
    \/ HttpDoRead(c) \/ HttpOnRead(c) \/ HttpOnWrite(c)
    \/ WsStartAccept(c) \/ WsOnAccept(c) \/ WsOnWrite(c) \/ WsOnClose(c)
    \/ WsPostedDoEof(c)

Next ==
    \/ AcceptorStep
    \/ RegistryStep
    \/ Update
    \/ \E c \in Conn : OnAccept(c) \/ StrandStep(c) \/ WsOnRead(c) \/ WsSendAsync(c)
    \/ Unload
    \/ ValidateAndFreeNetworkResources
    \/ StopIOContext

Spec == Init /\ [][Next]_vars

(***************************************************************************)
(* Fairness: the strands and the registry sequence run what is posted on   *)
(* them, the two periodic timers fire, and every operation completes that  *)
(* a timeout bounds (SSL detection 3 s, HTTP 20 s, websocket handshake and *)
(* close 30 s).  A pending accept completes once the acceptor is closed.   *)
(* doEof of closeNetworkResources gets its turn on its strand however much *)
(* is written meanwhile.                                                   *)
(* Nobody has to connect, to send a message or to stop the server.         *)
(***************************************************************************)
Fairness ==
    /\ WF_vars(AcceptorStep)
    /\ WF_vars(RegistryStep)
    /\ WF_vars(Update)
    /\ WF_vars(ValidateAndFreeNetworkResources)
    /\ WF_vars(StopIOContext)
    /\ \A c \in Conn : /\ WF_vars(StrandStep(c))
                       /\ WF_vars(WsPostedDoEof(c))
                       /\ WF_vars(~acceptorOpen /\ OnAccept(c))

FairSpec == Spec /\ Fairness

-----------------------------------------------------------------------------
(***************************************************************************)
(* Types.                                                                  *)
(***************************************************************************)
\* What is posted on the acceptor strand, on the registry sequence and on the
\* strands of the connections.
AcceptorItem ==
    [op : {"doAccept", "stop"}, c : {0}] \cup [op : {"asyncAccept"}, c : Conn]

RegistryItem ==
    [op : {"alloc", "closeAll", "check"}, c : {0}, ec : BOOLEAN, close : BOOLEAN]
      \cup [op : {"setAccept", "setSSLDetect", "markUnused", "upgrade", "recieved"},
            c : Conn, ec : BOOLEAN, close : BOOLEAN]

StrandOp == {"accept", "runDetector", "detect", "httpDoRead", "httpRead",
             "httpWrite", "wsStartAccept", "wsAccept", "wsRead", "wsWrite",
             "wsClose", "wsDoEof"}

StrandItem == [op : StrandOp, c : Conn]

Entity == [valid : BOOLEAN, tags : SUBSET Tag,
           acc : Result \cup {None}, ssl : Result \cup {None},
           detect : 0..MaxConn, http : 0..MaxConn, ws : 0..MaxConn,
           kids : SUBSET Conn]

\* Every variable keeps its type; in particular an operation of a strand
\* always belongs to a connection, so closeNetworkResources never posts doEof
\* for a websocket channel that an entity does not have.
TypeOK ==
    /\ phase \in {"run", "stopping", "freeing", "freed", "stopped", "aborted"}
    /\ acceptorOpen \in BOOLEAN
    /\ astrand \in Seq(AcceptorItem)
    /\ rq \in Seq(RegistryItem)
    /\ ent \in [Conn -> 0..MaxConn]
    /\ reg \in [Conn -> Entity]
    /\ sock \in [Conn -> {"none", "open", "closed"}]
    /\ wsStatus \in [Conn -> {"none", "open", "closing", "closed"}]
    /\ ops \subseteq StrandItem
    /\ orphans \subseteq Conn
    /\ dropped \subseteq 0..MaxConn

(***************************************************************************)
(* Safety.                                                                 *)
(***************************************************************************)
\* The connection that an entity serves: the last one it was allocated for.
Serves(e, c) == ent[c] = e /\ \A d \in Conn : ent[d] = e => d <= c

\* No use after free by a completion handler: whatever is pending on a strand
\* is bound to base::Unretained(this), so its DetectChannel, HttpChannel or
\* WsChannel has to exist until it ran.  (The doEof that closeNetworkResources
\* posts is bound to a weak pointer.)
NoDanglingHandler ==
    \A o \in ops : o.op # "wsDoEof" => Alive(Owner(o.op), o.c)

\* Where the listener's recursion is: a closure on the acceptor strand, a task
\* of the registry sequence, or a pending accept.
OnAcceptor(i) == astrand[i].op \in {"doAccept", "asyncAccept"}

OnAllocation(i) == rq[i].op = "alloc"

Accepting(o) == o.op = "accept"

\* The recursion doAccept, allocateTcpResourceAndAccept, asyncAccept, onAccept
\* is never in two places: there are never two accepts, nor two entities that
\* wait for one, and no completion lets the recursion run twice.
OneAcceptAtATime ==
    /\ \A i, j \in DOMAIN astrand : OnAcceptor(i) /\ OnAcceptor(j) => i = j
    /\ \A i, j \in DOMAIN rq : OnAllocation(i) /\ OnAllocation(j) => i = j
    /\ \A o, p \in ops : Accepting(o) /\ Accepting(p) => o = p
    /\ \A i \in DOMAIN astrand, j \in DOMAIN rq : ~(OnAcceptor(i) /\ OnAllocation(j))
    /\ \A i \in DOMAIN astrand, o \in ops : ~(OnAcceptor(i) /\ Accepting(o))
    /\ \A i \in DOMAIN rq, o \in ops : ~(OnAllocation(i) /\ Accepting(o))

\* The stream of a connection is moved from the detector to the HTTP channel
\* and from there to the websocket channel: nothing is pending on it while a
\* task carries it, and what is pending belongs to the channel that holds it.
StreamHasOneOwner ==
    \A o \in ops : o.op # "wsDoEof" =>
      /\ \A p \in ops : p.c = o.c /\ p.op # "wsDoEof" => Owner(p.op) = Owner(o.op)
      /\ \A i \in DOMAIN rq :
           rq[i].c = o.c => rq[i].op \notin {"setAccept", "setSSLDetect", "upgrade"}

\* The object whose member function a registry task calls, or whose entity it
\* uses without a check.
TaskOwner(op) == CASE op = "setAccept" -> "listener"
                   [] op = "setSSLDetect" -> "detect"
                   [] op = "upgrade" -> "http"
                   [] op = "recieved" -> "ws"

\* A result or message that a strand posts to the registry finds the channel
\* that posted it, and an entity that was not given to a later connection
\* while the task waited in the queue.
ResultsReachTheirConnection ==
    \A i \in DOMAIN rq :
      rq[i].op \in {"setAccept", "setSSLDetect", "upgrade", "recieved"} =>
        Alive(TaskOwner(rq[i].op), rq[i].c) /\ Serves(ent[rq[i].c], rq[i].c)

\* Something is still going to release entity e: it is marked, a websocket
\* channel is there for closeNetworkResources, a result waits for the next
\* pass, or a task, closure or operation of one of its connections is pending.
InUse(e) ==
    LET r == reg[e]
    IN  \/ "Unused" \in r.tags
        \/ r.ws # 0
        \/ ~ResultsProcessed(r)
        \/ \E c \in Conn :
             /\ ent[c] = e
             /\ \/ \E o \in ops : o.c = c
                \/ \E i \in DOMAIN rq : rq[i].c = c
                \/ \E i \in DOMAIN astrand : astrand[i].c = c

\* Every error path of the listener, of the channels and of the systems
\* releases the entity of its connection, but for three early returns of the
\* listener: asyncAccept with a closed acceptor (listener.hpp says of an accept
\* that stopAcceptor cancels: onAccept will be called anyway), and the two that
\* find the io_context stopped.  Stopping it leaves an entity behind only if the
\* acceptor failed to stop.
OnlyListenerLeaks ==
    /\ \A e \in Entities : InUse(e) \/ e \in dropped
    /\ phase = "stopped" /\ Entities # {} => acceptorOpen

\* A reused entity starts clean: its children are messages of the connection
\* it serves, none of an earlier one.
MessagesBelong == \A e \in Entities : \A c \in reg[e].kids : Serves(e, c)

\* The CHECKs of resetOnCacheReuse never fail: an entity that is reused holds
\* no result that the systems have not handled yet.
NeverAborts == phase # "aborted"

\* When the wait for an empty registry has ended behind a closed acceptor,
\* no entity is left, and nothing that could create one or use one is pending:
\* the io_context can be stopped.
QuiescentStop ==
    phase \in {"freed", "stopped"} /\ ~acceptorOpen =>
        /\ Entities = {} /\ orphans = {} /\ ops = {}
        /\ \A i \in DOMAIN rq : rq[i].op \in {"markUnused", "closeAll", "check"}

(***************************************************************************)
(* Liveness.                                                               *)
(***************************************************************************)
\* HTTP connections end when their client lets them.
HttpStage(e) ==
    \E c \in Conn : ent[c] = e /\ \E o \in ops : o.c = c /\ Owner(o.op) = "http"

\* After the acceptor was closed, the periodic closeNetworkResources and the
\* systems free every entity, but for those that asyncAccept dropped and those
\* whose HTTP client keeps its connection busy.
ShutdownFreesEntities ==
    (phase = "freeing" /\ ~acceptorOpen) ~>
        (phase = "aborted" \/ \A e \in Entities : e \in dropped \/ HttpStage(e))

=============================================================================
