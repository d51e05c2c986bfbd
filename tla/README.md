# flexnet: a TLA+ model of the server

flexnet is a C++ library for HTTP and websocket servers on Boost.Asio/Beast, with an
ECS registry (entt) that owns connections as entities. `examples/server` builds a
server from it out of plugins. This directory models how connections live and die
in it, what an HTTP client is answered, how a websocket sends, how the plugins are
configured, start and stop, and how the process around them, with its threads, timers
and signals, comes to its end.

Line references are to the commit this directory belongs to; `PROJECT.json` maps
every definition to its lines.

## 1. The system

| Part | State | Operations | Runs on |
|---|---|---|---|
| `ws::Listener` | acceptor, its strand, entity allocator | doAccept, allocateTcpResourceAndAccept, asyncAccept, onAccept, setAcceptConnectionResult, stopAcceptor | acceptor strand, registry sequence, connection strand |
| `TcpEntityAllocator` | none (uses the registry) | allocateTcpEntity: reuse an unused entity or create one | registry sequence |
| ECS systems of plugin NetworkEntity | tags and components of entities | updateNewConnections, updateSSLDetection, updateUnusedChildList, updateDelayedConstruction(JustDone), updateUnused, updateCleanup | registry sequence, by a periodic timer |
| `http::DetectChannel` | TCP stream | runDetector, onDetected, setSSLDetectResult | connection strand, registry sequence |
| `http::HttpChannel` | stream, parser | doRead, onRead, handleRequest, handleWebsocketUpgrade, onWrite, doEof, markUnused | connection strand, registry sequence |
| `ws::WsChannel` | websocket stream, read buffer, circular send buffer, `isSendBusy_` | startAccept, onAccept, onRead, sendAsync, send, writeQueued, onWrite, doEof, onClose, markUnused | connection strand, registry sequence |
| plugin TcpServer | listener, allocator | load: start accepting; unload: stop accepting, close connections until the registry is empty, stop the io_context | main loop, registry sequence |
| plugin manager | metadata of the configured plugins, promises of load and unload per plugin | parsePluginsConfig, loadPluginsMetadata, startup, shutdown | main loop |
| `AppState`, SignalHandler, BasicTerminalCommands | application state, the wait for a signal, count of signals | handleSignal, handleSigQuit, handleConsoleInput, handleTerminationEvent | io_context, main loop |
| AsioContextThreads | threads, io_context | startThreads, runIoc, unload, stopThreads | main loop, asio threads |
| NetworkEntity, ConsoleTerminal | periodic executors | set, start and unset the executor; update, updateConsoleInput | a sequence each |
| NetworkRegistry, BasicCmdArgs, ActionRecorder, ExtraLogging | registry, options, tracing, logging | load, unload | main loop |

How they interact. Nothing locks: each piece of state belongs to one sequence, and
sequences talk by posting closures. The accept recursion goes acceptor strand →
registry sequence (allocate an entity) → acceptor strand (`async_accept`) →
connection strand (`onAccept`) → registry sequence (result component), and there
the periodic systems pick the result up. A stream is moved from the result to a
DetectChannel, back into a result, to an HttpChannel and, after an upgrade, to a
WsChannel. These channels are stored in the context of the entity's TcpConnection
component, so they die with the entity, while the completion handlers of their
operations are bound with `base::Unretained(this)`. Whoever finds out that a
connection has ended posts `markUnused`; from then on the entity is either reused
by the allocator or destroyed by the next update pass, whichever comes first.

What is hard: an entity outlives connections and a posted task outlives entities;
handlers on one sequence use objects that another one destroys; shutdown has to
see an empty registry, so every error path has to release its entity; the send
queue overlaps writes when the busy flag is wrong; plugins use each other's objects
and come and go asynchronously, and the termination event may come at any time.

What makes each part correct:

* listener: one accept at a time; every allocated entity is accepted on or released;
* channels: no handler runs on a destroyed channel; one owner of a stream at a time;
* results and messages: they reach the connection they belong to, once;
* allocator: a reused entity is clean, its results were handled;
* shutdown: when it ends nothing is left that could run, and what can keep it from ending
  is known;
* HTTP: requests are answered one by one, in order, each with an answer it admits, and
  a client never takes one answer for another; a client that is silent or does not read
  is dropped (one that keeps asking may go on as long as it likes);
* configuration: startup ends the process exactly when something is missing and loads
  exactly what can be loaded;
* send queue: nothing is forgotten, everything is written once and in order;
* plugins: no plugin outlives what it depends on;
* process: the io_context is stopped when nothing needs it any more and not later, the
  timers run as long as somebody waits for them, and all threads are joined.

## 2. Modules

### Connection

Composition of listener, allocator, registry, systems, channels and the unload of
TcpServer: they share the entities and cannot be told apart by an interface.

* `astrand`, `rq`: the FIFO queues of the acceptor strand and of the registry
  sequence. `ops`: posted closures and pending operations of the connection strands
  (a strand runs one at a time; in which order operations complete is free).
* Connections are numbered by allocation. `ent[c]` is the entity of connection c,
  `reg[e]` what entity e holds: tags, the accept and the SSL detection result, the
  channels in its context (named by the connection they serve) and the messages
  that are its children. `sock` and `wsStatus` are the stream of each connection.
* One action per handler or task. An update pass is ONE action, as all systems run
  in one task; each system is an operator on what one entity holds (`UpdatePass`).
* `phase` follows TcpServer's unload: stop the acceptor, repeat closeNetworkResources
  and the check for an empty registry, stop the io_context. A failed CHECK of the
  allocator is `phase = "aborted"`. DCHECKs are compiled out.
* The listener has three early returns that forget an entity: asyncAccept with a closed
  acceptor, and allocateTcpResourceAndAccept and onAccept with a stopped io_context, which
  only an acceptor that failed to stop leads to. `dropped` has these entities. A message
  whose entity is created after its parent was destroyed is in `orphans`: nobody destroys
  it, and the check for an empty registry sees it.
* A task or handler that finds its entity destroyed is undefined behaviour in the
  code. The model gives it no effect other than losing the stream, so that it can
  say what comes afterwards; `NoDanglingHandler` and `ResultsReachTheirConnection`
  say whether it happens.

`Env` chooses what clients and the system do (upgrade, keep-alive, messages, sends,
fail points, an acceptor that fails to stop, a plugin that takes received messages). `NotConstructed` and `ReuseClears` are
the two facts about the basis library that its use does not determine completely:
which tags `exclude_not_constructed` hides and which tags
`populateDelayedConstructionComponents` removes. The theorems hold for every
choice that `LibraryAssumption` allows.

### HttpMessages, HttpExchange, HttpSession

`HttpMessages` has handleRequest, pathConcat, the refusals and MimeType as operators:
a target or path is a sequence of tokens ("/", "..", a suffix, a name), a body is empty
or not. `HttpSession` is one HttpChannel and its client: `op` is what the strand waits
for (the posted doRead, async_read, async_write, nothing), `expires` the deadline of the
stream, `out` the parts of the answer that async_write still has to send, `sent`,
`peer`, `wire` and `client` the client, which may pipeline, close, reset or stop reading
and decodes what it receives as HTTP prescribes. The deadline is set by doRead alone, as
in the code, and so covers the write of the answer too. A file that becomes shorter while
it is sent makes async_write fail.

`HttpExchange` is the abstract specification: requests asked, answers given in that
order, each admitted by its request (`Admits`), over at any time and at the latest with
an answer that does not keep the connection. HttpSession implements it
(`ImplementsExchange`) with asked <- sent, answered <- done, over <- (op = "none"):
parts of answers, deadlines and the client's state are hidden. `Admits` is written from
what HTTP asks, not with the operators of HttpMessages.

### WsSend

The send queue of one WsChannel: `sendAsync` → strand → `send` → circular buffer →
`writeQueued` (newest message first) → `onWrite`. `isSendBusy_` is a variable of the
model as it is of the class, and no action sets it, because no statement does.
`paced` is what the application does: hand over a message only when nothing is
pending, or at any time. Writes complete in the order in which they began, the most
benign assumption for overlapping ones. `popBack` on an empty buffer is undefined
and stops the channel (`undefined`).

### PluginManager

main's `runServerAndPromiseQuit`, `PluginManager::startup` and `shutdown`, and
load and unload of a plugin, which are the same in all ten plugin interfaces. Each
is a step that begins and a step that resolves its promise; the promise chains of
startup and shutdown are guards. `manager = "aborted"` is `mainPluginLogic_.value()`
without a value. The dependencies are constants: the runs use those of
`plugins.conf`, the theorems any.

### PluginConfig

The first part of `PluginManager::startup`, which is one call on the main loop; its
blocks are steps: parsePluginsConfig with loadPluginsMetadata, plugins of the command
line, the loop that makes promises, the loop that builds the chains, and the chains that
load. The inputs (the groups of plugins.conf, the command line, what Corrade cannot load)
are chosen in the initial state. `step = "aborted"` is a failed CHECK.

### StateMachine

The transition table and processStateChange, which AppState and Listener have in the
same form. PluginManager sends START and TERMINATE to AppState, Server START and
TERMINATE to the listener (whose state machine exists in builds with DCHECKs only).

### Server

The process: PluginManager composed with what the plugins do between the begin and
the end of load and unload, on the threads they do it on. It EXTENDS PluginManager
and conjoins its actions (`PluginLoadBegins(p)` is `LoadBegins(p)` with the
constructors of the plugin, `PluginUnloadEnds(p)` waits for what unload waits for), so
PluginManager is the abstract specification that Server implements
(`ServerIsPluginManager`, with the identity as refinement mapping).

* `ioc`, `threads`, `joining`: AsioContextThreads. A thread is posted, runs the
  io_context, handles a signal, or has returned; `joining` is the main loop blocked in
  stopThreads (`MainFree`).
* `executor`, `checked`, `updates`: the periodic executors. `update` checks the
  io_context and posts the update pass in two steps, as another thread may stop the
  io_context in between.
* `registry`, `accept`, `late`: what Server needs of Connection. The registry is the set of
  the kinds of entities it holds: "http", "ws", "unused" (marked), "dropped" (by an early
  return of the listener), "message" (late for its parent). `accept` is the place of the
  accept recursion, and so tells whether an entity waits for the next connection; `late`
  is a received message in the queue of the registry sequence. How one connection gets
  from one kind to the next is the subject of Connection; that several may be of one kind
  is `Becomes`, which leaves others behind or not. closeNetworkResources marks websockets
  only. `Net` chooses what clients do and whether the acceptor may fail to stop.
* `acceptor`, `listener`, `tcp`: the acceptor, the listener's state machine and unload of
  TcpServer. stopAcceptor leaves the acceptor "closed" or, if cancel or close returns an
  error, "stuck": open as before, while unload goes on as if it were closed. A failed
  acceptor may have been opened and not bound; it accepts nothing but is stopped too.
* `wait`, `signals`, `received`, `typed`, `mainq`: the sources of TERMINATE and the
  tasks by which they reach AppState on the main loop.

* `executor["ConsoleTerminal"] = "reading"` is std::getline waiting for the end of a line,
  with every other task of that sequence behind it.

`MCConnection`, `MCHttpSession`, `MCWsSend`, `MCPluginConfig` and `MCServer` give the
constants their values. `WsSend_proofs`, `PluginManager_proofs`, `PluginConfig_proofs`,
`Server_proofs` and `HttpSession_proofs` hold the theorems about these modules; those about
Connection are in `Connection_proofs`, `Stream_proofs`, which extends it, and
`Http_proofs`, which extends that one.

## 3. Runs

| Run | Instance | Checks |
|---|---|---|
| connection_http | 3 connections, all served, HTTP clients, fail points, stop may fail (≈526,000 states) | TypeOK, NoDanglingHandler, ResultsReachTheirConnection, OnlyListenerLeaks, NeverAborts, QuiescentStop |
| connection_ws | 2 connections, one served, upgrades, keep-alive, messages, plug point, sends (≈262,000) | OnlyListenerLeaks, OneAcceptAtATime, StreamHasOneOwner |
| connection_shutdown | 2 connections, one served, upgrades, keep-alive, sends, fairness (≈50,000) | ShutdownFreesEntities |
| ws_send | capacity 2, 4 messages, fairness (≈800) | TypeOK, NoStall, PacedDelivery, PacedWrites, Drains |
| http_session | 3 requests of 8 kinds, deadline of 2 ticks, fairness (≈206,000) | TypeOK, ImplementsExchange, OnlyRefusedHeadConfuses, CutAnswerIsLast, SessionEnds |
| plugin_config | up to 3 groups of 2 plugins and a path, fairness (≈375,000) | TypeOK, AbortsIffWanting, MetadataIsConsistent, StuckAreNotLoaded, OthersAreLoaded |
| server | 6 plugins with the dependencies of plugins.conf, 1 asio thread, a signal or a command, clients, websockets, messages, stop may fail, fairness (≈349,000) | ServerTypeOK, ServerIsPluginManager, DependenciesAlive, UnloadAfterLoad, AbortsOnlyEarly, RegistryEmptyWhenStopped, UpdatesRunWhileDraining, CancelledWaitIsDropped, ListenerEndsClean, QuitIsClean, ServerShutdownCompletes |

With HTTP clients the design works: an entity is marked by the only operation that
is pending, so nothing dangles, results reach their connection, and behind a closed
acceptor the io_context is stopped when nothing is left. A process whose plugins all load
can be stopped at any time, during startup too. What becomes of it is one of the
following (`ServerShutdownCompletes`), and each of them does happen in the model:

* it quits with all threads joined;
* a CHECK ends it, because a plugin still waits for its dependencies and is unloaded
  without ever having been loaded (`AbortsOnlyEarly`; `DCHECK(mainPluginLogic_)` in every
  unload says that this does not happen);
* it waits for the end of a line on the console;
* TcpServer waits for ever for an empty registry (`ClientsHoldShutdown`): an HTTP client
  goes on, since only websockets are closed; asyncAccept dropped an entity; a message came
  too late for its parent; or cancel or close of the acceptor failed and it still accepts.

The early return of asyncAccept leaves its entity in the registry for ever, while
`listener.hpp:284` says that onAccept will be called anyway. `OnlyListenerLeaks` says that
no other entity of a connection is left behind, but for the two returns that find the
io_context stopped, and that stopping the io_context leaves one behind only if the
acceptor failed to stop. It is about entities of connections: late messages are left
too. With a stuck acceptor an entity may be allocated between the check that found
the registry empty and the stop of the io_context, and the listener may be destroyed with
an allocation queued, so RegistryEmptyWhenStopped and the second half of ListenerEndsClean
say nothing about that case. An HTTP client loses track of the
answers in one case only: handleRequest sends a text with the refusal of a HEAD
(`OnlyRefusedHeadConfuses`). A cycle of dependencies, a plugin that cannot be loaded
and an empty `depends=` stop, silently, exactly the plugins that depend on them
(`StuckAreNotLoaded`, `OthersAreLoaded`).

Websockets have several operations pending
(read, write, close), and there the following does not hold. Each of these runs
expects a violation of what a comment or assertion of the code says:

| Run | Property | What happens |
|---|---|---|
| ws_freed_handler | NoDanglingHandler | doEof starts async_close and posts markUnused; the update pass destroys the channel before onClose ran |
| ws_stale_unused | NeverAborts | two failed operations post two markUnused; the second marks the entity of the next connection, which is then reused with a result pending: CHECK |
| reused_messages | MessagesBelong | a reused entity keeps the messages of the earlier connection |
| ws_send_overlap | OneWriteAtATime | two sends in a row, two writes at once |
| many_signals | ManySignalsExit | a plugin that cannot be loaded is never unloaded, and shutdown waits for it; the wait for signals is not started again, so further signals do not end the process |

(With websockets ResultsReachTheirConnection and QuiescentStop fail for the same
reasons as NoDanglingHandler, which is why connection_ws does not list them.)

Other comments that the code does not follow, found while modelling: MimeType is asked
with the whole path of a file, so every file is application/octet-stream, while
`mime_type.hpp:17` says "based on file suffix" (`EmptyResponse` has it as the code does);
`parser_->body_limit` in doRead has no effect, as async_read is given `parser_->get()`
and makes a parser of its own (`http_channel.cpp:442`: "Apply a reasonable limit");
without a `[plugins]` section startup loads nothing, while the comment at
`plugin_manager.hpp:71` says that all plugins are loaded; the tables of AppState and
Listener have no START in PAUSED, which the diagrams beside them draw; promiseExitOnce,
which nobody calls, adds an entry action.

Bounds. `MaxConn` is the number of allocations and `MaxServed` how many of them get an
answer from an open acceptor, the first ones; the others wait until it is closed. In
connection_http all three are served, so an entity is reused, and reused again, while
another connection is alive at any stage. connection_ws and connection_shutdown serve one
websocket client, while the entity of another connection is allocated (its own, once it
was marked, or a second one), waits for a client, is dropped or closed: they ask what
becomes of one connection.
Two websockets that are both served are too many for them (a run of the three invariants of
connection_ws with two served connections that only upgrade has ≈750,000 states, with
messages or sends more than 4 million); StreamHasOneOwner and OnlyListenerLeaks are proved for
any number, and the runs that expect a violation serve two or three.
One received message per connection waits in the queue, one write per connection is
pending in Connection (several in WsSend), and validateAndFreeNetworkResources is
not posted again before its last tasks ran. In ws_send there are twice as many
messages as the buffer holds, so it overflows while writes are pending. In http_session
`MaxRequests` = 3 lets a client pipeline, be confused by one answer and receive another,
and `Expire` = 2 lets the deadline pass in a read, in a write, or partly in each. In
plugin_config three groups are enough for two that depend on each other and one that
repeats a title; the path of a file may be a dependency, a title, on the command line or
all of them. In Server
`MaxEvents` bounds the signals sent and the commands typed, together, and `MaxUpdates` the
update passes queued. Sets of kinds need no bound on the number of connections.
The run server stops the process by one signal, at any time, with a line of the console
perhaps begun and never ended, or by one command. A signal and a command in one
behaviour, and several threads, are left to the theorems, which hold for any number.
Plugins whose load and unload do nothing are left out of `MCPlugins`. many_signals sends
four signals, one more than
`handleQuitSignal` tolerates. Deadlock is
not checked: the server really ends, and a bounded instance runs out of connections.

In plugin_config the chains end, in http_session the conversation does.

Fairness. Weak fairness of what is posted (Asio and base::TaskRunner run it), of the
periodic timers, and of operations that a timeout of the code bounds: SSL detection,
HTTP reads and writes, websocket handshake, close and writes. A read on a websocket,
a new client, a call of the application and the termination event are never forced;
doEof, once closeNetworkResources has posted it, gets its turn beside any number of writes;
an accept is, once the acceptor is closed. In Server the same holds of the asio threads,
the main loop, the timers and the registry sequence, of the accept recursion and of
CloseNetworkResources, while signals, typing, the end of a line and the end of a client are
never forced; in HttpSession of the strand's handlers and of time, but not
of the client, which need not even read; in PluginConfig of startup and of each load. That
closeNetworkResources, repeated, ends every websocket is what connection_shutdown checks.
SessionEnds holds because `MaxRequests` bounds what a client asks: its content is that a
client which stops asking, or reading, is dropped.

## 4. Proofs

TLAPS proves, for every value of the constants:

* `WsSend_proofs`: TypeCorrect, NeverStalls, PacedWritesCorrect, PacedDeliveryCorrect.
  None of the properties is inductive. `IInv` adds that the busy flag stays false,
  and, for a paced application, what is on its way: at most one of posted, pending
  and queued, with the queue holding exactly the pending message; and that what was
  accepted is what was written followed by what is on its way. After a failed write
  the queue may hold an old message, so the invariant distinguishes a working channel.
* `Connection_proofs!TypeCorrect`: by cases over all actions, from lemmas on what each
  system, task and operation returns. Its substance: every strand operation belongs
  to an allocated number, which rests on the guard in closeNetworkResources.
* `Connection_proofs!OneAcceptCorrect`: OneAcceptAtATime with TypeOK is inductive. Each of
  the four steps of the recursion removes the one place it is in and adds at most one
  other; all other steps keep the three places as they are (or make them fewer).
* `Stream_proofs`: StreamHasOneOwnerCorrect and OnlyListenerLeaksCorrect, for every
  number of connections and every `Env`, websockets and an acceptor that fails to stop
  included. The idea is the stage of a
  connection, `At(s, c)`: the closure, operation, task or component in which it is at the
  moment. `StageInv` says that a connection is at one stage (`Exclusive`; only a websocket
  and its markUnused tasks coexist), that a task which carries a stream is posted once
  (`OneTask`), that whatever names a connection is in the entity of that connection
  (`Known`, `Belongs`), that a channel is not made before its stage (`Fresh`, `WsKnown`),
  and that an entity is released or has a connection at a stage (`AllHeld`). Each handler
  moves its connection from one stage to the next or releases its entity; an update pass
  does it for all entities at once, so its lemmas are about what each system makes of one
  entity (`PassFacts`, `UpdateMoves`). OnlyListenerLeaksCorrect needs in addition the order of
  the shutdown (`Stops`, StopsCorrect): the registry is checked only after the acceptor
  was stopped, behind a closed acceptor no allocation is queued after a check, and a
  registry that was found empty there stays empty.
* `Http_proofs`: NoDanglingHandlerCorrect, ResultsReachCorrect, NeverAbortsCorrect and
  QuiescentStopCorrect, for every number of connections and every `Env` without
  "upgrade". The hypothesis is needed: with upgrades TLC finds counterexamples
  (ws_freed_handler, ws_stale_unused). `HttpOnly` adds to `StreamInv` that there is no
  websocket (`NoWs`); that a connection asks once to have its entity marked as unused
  (`MarkedOnce`); that a connection at a stage is the last one its entity was given to,
  that the entity is valid, not marked, and holds the channel that works at this stage
  (`Lives`); and that numbers are given in order (`InOrder`), which makes the last one well
  defined. QuiescentStopCorrect uses `Stops` as well. `Lives` with `Exclusive` is the reason why the design works for HTTP: only the
  one thing pending marks the entity, so nobody can use it afterwards.
* `PluginManager_proofs`: DependenciesAliveCorrect, UnloadAfterLoadCorrect,
  AbortsOnlyEarlyCorrect, for any dependencies (cyclic ones too) and any failures.
  `IInv` adds: a plugin's logic exists exactly from the call of load to the end of
  unload; whatever was begun to load has its dependencies loaded; whatever was begun
  to unload has its dependents unloaded; a plugin only waits to be unloaded if somebody
  requires it. The last one makes the second CHECK unreachable: a plugin whose turn has
  come has a dependent that was loaded, so it was loaded itself.

* `PluginConfig_proofs`: TypeCorrect, AbortsCorrect, MetadataCorrect, StuckCorrect, for any
  configuration, command line and plugins that cannot be loaded. `Progress` says what
  `filtered` is at each step, written without the loops: the last group of a title gives
  its dependencies (that a set of positions has a last one is `LastPosition`, from
  well-foundedness), a path of the command line replaces a group. Entries of
  the same name, at which the promise loop fails, come only from what is missing
  (`NamesAreNotPaths`). StuckAreNotLoaded is part of
  the invariant itself: the first plugin of a stuck set to be loaded would have a
  dependency in the set that is not loaded.
* `HttpSession_proofs`: TypeCorrect, ExchangeCorrect, CutAnswerCorrect and
  RefusedHeadCorrect, for any requests and any number of them. ExchangeCorrect is the refinement of HttpExchange, with over <- (op = "none").
  `IInv` adds `OneAtATime`: while a request is awaited all those read are answered, and
  what is being written is an answer of handleRequest to the last one read. Send is Ask, a
  completed write is Answer, each step that ends the strand's operations is End, the rest
  is invisible. That an answer is admitted is a lemma about handleRequest. For the other
  two, `Framing` relates the wire, what is left to write and what the client waits for:
  none, the header or all of the current answer is on the wire, and the client waits for
  what comes next unless some HEAD was refused.
* `Server_proofs`: ServerImplementsPluginManager, with which the theorems about the
  plugin manager hold of the process (ServerDependenciesAlive), ServerTypeCorrect,
  RegistryEmptyCorrect, ListenerEndsCleanCorrect, UpdatesRunCorrect,
  CancelledWaitCorrect, QuitIsCleanCorrect. The invariant is that of
  PluginManager with `SInv`, which adds: the io_context is stopped exactly when unload of
  TcpServer has stopped it (`StopOrder`); what unload has achieved by then (`Drained`): the
  listener is terminated and its acceptor closed or stuck, and once the registry was found
  empty behind a closed acceptor no entity of a connection is there or on its way, as an
  allocation posted before the close runs before the check; the timer of NetworkEntity runs from the end of load
  to unload (`TimerRuns`); the wait
  for a signal is taken at most once, so at most one thread handles one (`SignalOnce`).
  The argument is the order of unloading: AsioContextThreads, SignalHandler and
  NetworkEntity are required by TcpServer, so their unload finds that of TcpServer ended
  (`AroundTcpServer`). That the type of `received` and the refinement hold rests on
  SignalOnce: HandleQuitSignal ends the process with the fourth signal, which is not a
  step of the plugin manager, and never sees a second one. QuitIsClean needs `EndInv` too:
  threads that were joined have returned and never run again, an unloaded timer is unset,
  and quitting means that every plugin with chains was unloaded. Its theorem has the
  hypotheses that ConsoleTerminal is configured and that AsioContextThreads,
  NetworkEntity, ConsoleTerminal and TcpServer can be loaded, as with plugins.conf: the
  manager does not unload what it never loaded.

Assumptions: `BoundAssumption`, `EnvAssumption`, `LibraryAssumption` (Connection),
`SendAssumption` (WsSend), `HttpSessionAssumption` (HttpSession),
`PluginConfigAssumption` and `NamesAreNotPaths` (PluginConfig: the names that Corrade lists
have no suffix, the paths of plugin files have one), `PluginsAssumption` (PluginManager), `ServerAssumption`,
`TcpServerAssumption` (Server: TcpServer depends on the three plugins above, as
plugins.conf says); TLC evaluates them.

Only model-checked: the liveness properties (Drains, ShutdownFreesEntities, SessionEnds,
OthersAreLoaded, ServerShutdownCompletes, ManySignalsExit), which need fairness and
ENABLED. Every invariant of a passing run is stated by a theorem.

## 5. Not modelled

* Boost.Asio, Beast, entt, Corrade and the basis library, but for how they are used;
  exceptions; allocation failure.
* The text of HTTP answers, all but three entries of the table of MIME types, logging,
  metrics, UMA, tracing, the parsing of command line and configuration file.
* Commands other than `stop`; Listener::pause and AppState's PAUSE and FAULT, which
  nobody sends; promiseExitOnce.
* That remote_endpoint throws for a client that has gone (`listener.cpp:625`).
* What an update pass does that was posted before the io_context was stopped and runs
  after NetworkEntity was destroyed. Server reaches such states; the access to the
  updater is undefined; RegistryEmptyWhenStopped says that behind a closed acceptor it finds
  no connection to work on.
* What a queued allocation does after a stuck acceptor's listener was destroyed: in Server it
  leaves a dropped entity, in the code it uses freed memory.
* ActionRecorder's callback, which is removed by a callback that is not the one added.
* A second TERMINATE: whether the entry action of AppState runs again, and what
  `base::Passed` does then, is decided by libraries outside the repository.

## 6. Plan

1. Core: Connection, WsSend, PluginManager with their runs and first proofs. Done.
2. Composition of PluginManager with threads, timers, TcpServer and the sources of
   TERMINATE; refinement of PluginManager. Done (Server).
3. The state machines of AppState and Listener, half a line on the console. Done.
4. handleRequest and MimeType; the HTTP conversation and the abstract exchange that it
   implements. Done (HttpMessages, HttpExchange, HttpSession).
5. Reading the configuration of plugins. Done (PluginConfig).
6. HttpSession implements HttpExchange. Done (HttpSession_proofs).
7. The invariants of the passing runs for every value of the constants. Done.
8. To state: the life of a connection as an abstract resource (allocated, in use,
   released) that Connection implements for HTTP clients; a FIFO that a paced WsSend
   implements.
