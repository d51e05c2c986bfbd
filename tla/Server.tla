------------------------------- MODULE Server -------------------------------
(***************************************************************************)
(* The server process: module PluginManager with what load() and unload()  *)
(* of the plugins do, and with the threads they start.  Actors:            *)
(*   - the main loop: the plugin manager, the plugins' tasks (mainq);      *)
(*   - the asio threads, which run the io_context: the signal handler, the *)
(*     acceptor and the handlers of connections;                           *)
(*   - the registry sequence: update passes, the check for an empty        *)
(*     registry;                                                           *)
(*   - the sequences of the two periodic executors: NetworkEntity posts    *)
(*     update passes, ConsoleTerminal reads lines;                         *)
(*   - whoever sends signals and types commands.                           *)
(*                                                                         *)
(* Connections are modelled one by one in module Connection.  Here the     *)
(* registry is the set of the kinds of entities it holds, beside the one   *)
(* that waits for the next connection:                                     *)
(*   - "http": serves a client that asked for no websocket (yet);          *)
(*   - "ws": serves a websocket;                                           *)
(*   - "unused": marked, the next update pass destroys it;                 *)
(*   - "dropped": an early return of the listener left it behind;          *)
(*   - "message": a received message that came too late for its parent.    *)
(*                                                                         *)
(* The io_context, the registry and the event dispatcher are put into the  *)
(* MainLoopRegistry and never taken out of it.                             *)
(***************************************************************************)
EXTENDS PluginManager, Naturals, Sequences

CONSTANTS
    AsioThreads,   \* names of the threads, asioThreads of them
    MaxEvents,     \* bound: signals sent and commands typed, together
    MaxUpdates,    \* bound: update passes queued on the registry sequence
    Net            \* what clients and the system do, a subset of NetChoice

\* "connect": clients connect; "upgrade": some ask for a websocket; "messages":
\* websocket clients send messages; "stopFails": cancelling or closing the
\* acceptor may return an error and leave it open.
NetChoice == {"connect", "upgrade", "messages", "stopFails"}

ASSUME ServerAssumption ==
    /\ MaxEvents \in Nat /\ MaxUpdates \in Nat
    /\ Terminators \subseteq {"SignalHandler", "BasicTerminalCommands"}
    /\ Net \subseteq NetChoice

\* plugins.conf: what TcpServer depends on.
ASSUME TcpServerAssumption ==
    /\ "TcpServer" \in Plugins
    /\ {"AsioContextThreads", "SignalHandler", "NetworkEntity"} \subseteq DependsOn["TcpServer"]

VARIABLES
    ioc,        \* the io_context
    threads,    \* what each asio thread does
    joining,    \* unload of AsioContextThreads
    executor,   \* the periodic executors in the sequence-local contexts
    checked,    \* NetworkEntityUpdater::update saw a running io_context
    updates,    \* update passes queued: numQueuedUpdateTasks_
    registry,   \* the kinds of entities in the registry, a subset of Kind
    accept,     \* where the accept recursion of the listener is
    late,       \* a received message is queued on the registry sequence
    acceptor,   \* the acceptor of the listener
    listener,   \* its state machine
    tcp,        \* unload of TcpServer
    wait,       \* async_wait of the signal set
    signals,    \* signals sent so far
    received,   \* signalsRecievedCount_
    typed,      \* commands stop typed so far
    mainq       \* tasks posted on the main loop by the sources of TERMINATE

asioVars == <<ioc, threads, joining>>
connVars == <<registry, accept, late>>
netVars == <<executor, checked, updates, connVars, acceptor, listener, tcp>>
stopVars == <<wait, signals, received, typed, mainq>>
serverVars == <<vars, asioVars, netVars, stopVars>>

Periodic == {"NetworkEntity", "ConsoleTerminal"}

Kind == {"http", "ws", "unused", "dropped", "message"}

\* The entity of the next connection exists.
Waiting == accept \in {"asyncAccept", "accepting"}

RegistryEmpty == registry = {} /\ ~Waiting

ServerInit ==
    /\ Init
    /\ ioc = "none"
    /\ threads = [t \in AsioThreads |-> "none"]
    /\ joining = "no"
    /\ executor = [p \in Periodic |-> "none"]
    /\ checked = FALSE
    /\ updates = 0
    /\ registry = {}
    /\ accept = "none"
    /\ late = FALSE
    /\ acceptor = "none"
    /\ listener = "UNINITIALIZED"
    /\ tcp = "idle"
    /\ wait = "none"
    /\ signals = 0
    /\ received = 0
    /\ typed = 0
    /\ mainq = << >>

\* The process runs until main returns or a CHECK ends it.
Running == manager \in {"running", "shutdown"}

\* stopThreads blocks the main loop while it joins the threads.
MainFree == joining # "joining"

\* A handler may run on an asio thread.
IocRuns == Running /\ ioc = "running" /\ \E t \in AsioThreads : threads[t] = "running"

-----------------------------------------------------------------------------
(* AsioContextThreads *)

\* startThreads posts runIoc on each thread.
StartThreads == threads' = [t \in AsioThreads |-> "posted"]

\* The constructor of SignalHandler waits for one signal.
WaitForSignal == wait' = "armed"

\* The constructors of the plugins whose logic is new; that of
\* AsioContextThreads creates the io_context.  Others only keep references.
Construct ==
    LET new == logic' \ logic
    IN  /\ IF "AsioContextThreads" \in new THEN ioc' = "running" /\ StartThreads
           ELSE UNCHANGED <<ioc, threads>>
        /\ IF "SignalHandler" \in new THEN WaitForSignal ELSE UNCHANGED wait

\* runIoc, the only task of an asio thread: run() returns when the io_context
\* is stopped.
RunIoc(t) ==
    /\ Running
    /\ threads[t] = "posted"
    /\ threads' = [threads EXCEPT ![t] = IF ioc = "stopped" THEN "returned" ELSE "running"]
    /\ UNCHANGED <<vars, ioc, joining, netVars, stopVars>>

\* run() finds the io_context stopped, between two handlers.
RunReturns(t) ==
    /\ Running
    /\ threads[t] = "running"
    /\ ioc = "stopped"
    /\ threads' = [threads EXCEPT ![t] = "returned"]
    /\ UNCHANGED <<vars, ioc, joining, netVars, stopVars>>

\* unload(): the posted task stops the io_context.
UnloadStopsIoc ==
    /\ Running /\ MainFree
    /\ unload["AsioContextThreads"] = "unloading"
    /\ joining = "no"
    /\ ioc' = "stopped"
    /\ joining' = "stopped"
    /\ UNCHANGED <<vars, threads, netVars, stopVars>>

\* Mutant of StopThreads: the destructor does not wait for the threads.
StopThreadsWithoutJoin ==
    /\ Running
    /\ joining = "stopped"
    /\ joining' = "joined"
    /\ UNCHANGED <<vars, ioc, threads, netVars, stopVars>>

\* The destructor calls stopThreads, which joins one thread after the other.
StopThreads ==
    /\ Running
    /\ \/ joining = "stopped" /\ joining' = "joining"
       \/ /\ joining = "joining"
          /\ \A t \in AsioThreads : threads[t] = "returned"
          /\ joining' = "joined"
    /\ UNCHANGED <<vars, ioc, threads, netVars, stopVars>>

-----------------------------------------------------------------------------
(* The periodic executors of NetworkEntity and ConsoleTerminal *)

SetExecutor(p) ==
    /\ Running
    /\ load[p] = "loading"
    /\ executor[p] = "none"
    /\ executor' = [executor EXCEPT ![p] = "set"]
    /\ UNCHANGED <<vars, asioVars, checked, updates, connVars, acceptor, listener, tcp, stopVars>>

StartExecutor(p) ==
    /\ Running
    /\ executor[p] = "set"
    /\ executor' = [executor EXCEPT ![p] = "started"]
    /\ UNCHANGED <<vars, asioVars, checked, updates, connVars, acceptor, listener, tcp, stopVars>>

\* unload() unsets the executor on its own sequence, so not during update().
UnsetExecutor(p) ==
    /\ Running
    /\ unload[p] = "unloading"
    /\ executor[p] = "started"
    /\ p = "NetworkEntity" => ~checked
    /\ executor' = [executor EXCEPT ![p] = "unset"]
    /\ UNCHANGED <<vars, asioVars, checked, updates, connVars, acceptor, listener, tcp, stopVars>>

\* NetworkEntityUpdater::update does nothing if the io_context is stopped,
\* which it may be before the task is posted.
UpdateChecks ==
    /\ Running
    /\ executor["NetworkEntity"] = "started"
    /\ ~checked
    /\ ioc = "running"
    /\ checked' = TRUE
    /\ UNCHANGED <<vars, asioVars, executor, updates, connVars, acceptor, listener, tcp, stopVars>>

UpdatePosts ==
    /\ Running
    /\ checked
    /\ updates < MaxUpdates
    /\ checked' = FALSE
    /\ updates' = updates + 1
    /\ UNCHANGED <<vars, asioVars, executor, connVars, acceptor, listener, tcp, stopVars>>

\* updateOnRegistryThread on the registry sequence: the systems destroy
\* entities that are marked.
UpdateOnRegistryThread ==
    /\ Running
    /\ updates > 0
    /\ updates' = updates - 1
    /\ registry' = registry \ {"unused"}
    /\ UNCHANGED <<vars, asioVars, executor, checked, accept, late, acceptor, listener, tcp,
                   stopVars>>

-----------------------------------------------------------------------------
(* TcpServer *)

\* load(): startAcceptors posts configureAndRunAcceptor.
StartAcceptors ==
    /\ Running /\ MainFree
    /\ load["TcpServer"] = "loading"
    /\ acceptor = "none"
    /\ acceptor' = "posted"
    /\ UNCHANGED <<vars, asioVars, executor, checked, updates, connVars, listener, tcp, stopVars>>

\* configureAndRunAcceptor on the acceptor strand.  An acceptor that cannot be
\* opened, bound or listen returns a status that nobody looks at.  doAccept
\* posts the allocation of the first connection.
ConfigureAndRunAcceptor ==
    /\ IocRuns
    /\ acceptor = "posted"
    /\ \/ /\ acceptor' = "open"
          /\ listener' = ProcessEvent(listener, "START")
          /\ accept' = "alloc"
       \/ acceptor' = "failed" /\ UNCHANGED <<listener, accept>>
    /\ UNCHANGED <<vars, asioVars, executor, checked, updates, registry, late, tcp, stopVars>>

\* unload(): stopAcceptorAsync posts on the acceptor strand.
StopAcceptorAsync ==
    /\ Running /\ MainFree
    /\ unload["TcpServer"] = "unloading"
    /\ tcp = "idle"
    /\ tcp' = "stopping"
    /\ UNCHANGED <<vars, asioVars, executor, checked, updates, connVars, acceptor, listener, stopVars>>

\* Mutant of StopAcceptor: an acceptor that failed to open is left as it is.
StopAcceptorIfOpen ==
    /\ IocRuns
    /\ tcp = "stopping"
    /\ acceptor # "posted"
    /\ IF listener = "STARTED"
       THEN acceptor' = "closed" /\ listener' = ProcessEvent(listener, "TERMINATE")
       ELSE UNCHANGED <<acceptor, listener>>
    /\ tcp' = "draining"
    /\ UNCHANGED <<vars, asioVars, executor, checked, updates, connVars, stopVars>>

\* stopAcceptor, after configureAndRunAcceptor on the same strand.  If cancel or
\* close returns an error the acceptor is "stuck": it stays open.  unload() logs
\* the status; the promise starts the check for an empty registry either way.
StopAcceptor ==
    /\ IocRuns
    /\ tcp = "stopping"
    /\ acceptor # "posted"
    /\ \/ acceptor' = "closed"
       \/ "stopFails" \in Net /\ acceptor' = "stuck"
    /\ listener' = ProcessEvent(listener, "TERMINATE")
    /\ tcp' = "draining"
    /\ UNCHANGED <<vars, asioVars, executor, checked, updates, connVars, stopVars>>

\* Mutant of ValidateNetworkResources: unused entities are not waited for.
ValidateIgnoresUnused ==
    /\ Running
    /\ tcp = "draining"
    /\ registry \subseteq {"unused"} /\ ~Waiting
    /\ acceptor = "closed" => accept # "alloc"
    /\ tcp' = "freed"
    /\ UNCHANGED <<vars, asioVars, executor, checked, updates, connVars, acceptor, listener, stopVars>>

\* validateAndFreeNetworkResources on the registry sequence resolves the
\* promise of promiseNetworkResourcesFreed when the registry is empty.  An
\* allocation that was posted before the acceptor was closed runs before it.
ValidateNetworkResources ==
    /\ Running
    /\ tcp = "draining"
    /\ RegistryEmpty
    /\ acceptor = "closed" => accept # "alloc"
    /\ tcp' = "freed"
    /\ UNCHANGED <<vars, asioVars, executor, checked, updates, connVars, acceptor, listener, stopVars>>

\* Mutant of StopIOContext: the io_context is left to AsioContextThreads.
LeaveIOContext ==
    /\ Running /\ MainFree
    /\ tcp = "freed"
    /\ tcp' = "stopped"
    /\ UNCHANGED <<vars, asioVars, executor, checked, updates, connVars, acceptor, listener, stopVars>>

StopIOContext ==
    /\ Running /\ MainFree
    /\ tcp = "freed"
    /\ ioc' = "stopped"
    /\ tcp' = "stopped"
    /\ UNCHANGED <<vars, threads, joining, executor, checked, updates, connVars, acceptor, listener, stopVars>>

-----------------------------------------------------------------------------
(* The listener and its connections *)

connFrame == <<vars, asioVars, executor, checked, updates, acceptor, listener, tcp, stopVars>>

\* doAccept on the acceptor strand ends the recursion or posts an allocation.
DoAccept ==
    /\ IocRuns
    /\ accept = "doAccept"
    /\ accept' = IF acceptor = "closed" THEN "none" ELSE "alloc"
    /\ UNCHANGED <<connFrame, registry, late>>

\* allocateTcpResourceAndAccept on the registry sequence creates an entity or
\* reuses an unused one.  With a stopped io_context nobody will release it.
AllocateTcpResourceAndAccept ==
    /\ Running
    /\ accept = "alloc"
    /\ \E others \in {registry, registry \ {"unused"}} :
         IF ioc = "stopped"
         THEN registry' = others \cup {"dropped"} /\ accept' = "none"
         ELSE registry' = others /\ accept' = "asyncAccept"
    /\ UNCHANGED <<connFrame, late>>

\* asyncAccept on the acceptor strand forgets the entity if the acceptor was
\* closed meanwhile.
AsyncAccept ==
    /\ IocRuns
    /\ accept = "asyncAccept"
    /\ IF acceptor = "closed"
       THEN registry' = registry \cup {"dropped"} /\ accept' = "none"
       ELSE accept' = "accepting" /\ UNCHANGED registry
    /\ UNCHANGED <<connFrame, late>>

\* onAccept gets a connection or an error, such as that of an acceptor that was
\* closed; an entity without a connection is marked.  A handler that already
\* runs when the io_context is stopped returns and forgets the entity.
OnAccept ==
    /\ Running
    /\ \E t \in AsioThreads : threads[t] = "running"
    /\ accept = "accepting"
    /\ IF ioc = "stopped"
       THEN registry' = registry \cup {"dropped"} /\ accept' = "none"
       ELSE /\ \/ /\ "connect" \in Net /\ acceptor # "closed"
                  /\ registry' = registry \cup {"http"}
               \/ registry' = registry \cup {"unused"}
            /\ accept' = "doAccept"
    /\ UNCHANGED <<connFrame, late>>

\* The operation of a closed acceptor is aborted, that of an open one waits for
\* a client.
AcceptAborted == acceptor = "closed" /\ OnAccept

\* An entity becomes one of another kind; it may have been the last of its kind.
Becomes(old, new) ==
    /\ old \in registry
    /\ \E others \in {registry, registry \ {old}} : registry' = others \cup {new}

\* handleWebsocketUpgrade.
Upgrade ==
    /\ IocRuns
    /\ "upgrade" \in Net
    /\ Becomes("http", "ws")
    /\ UNCHANGED <<connFrame, accept, late>>

\* The client leaves, or an operation fails: doEof and markUnused.
ConnectionEnds(kind) ==
    /\ IocRuns
    /\ Becomes(kind, "unused")
    /\ UNCHANGED <<connFrame, accept, late>>

\* onRead of a websocket posts a message that is not empty.  The bound: none
\* after one has come too late, since one is enough.
ReadMessage ==
    /\ IocRuns
    /\ "messages" \in Net
    /\ "ws" \in registry /\ "message" \notin registry
    /\ late' = TRUE
    /\ UNCHANGED <<connFrame, registry, accept>>

\* allocateRecievedDataComponent: the message becomes a child of its parent, or
\* an entity that nobody destroys if its parent is gone.
AllocateRecievedData ==
    /\ Running
    /\ late
    /\ late' = FALSE
    /\ registry' \in {registry, registry \cup {"message"}}
    /\ UNCHANGED <<connFrame, accept>>

\* Mutant of CloseNetworkResources: the entities are visited once the registry
\* was found empty.
CloseNetworkResourcesLate ==
    /\ IocRuns
    /\ tcp = "freed"
    /\ "ws" \in registry
    /\ registry' = (registry \ {"ws"}) \cup {"unused"}
    /\ UNCHANGED <<connFrame, accept, late>>

\* closeNetworkResources, before each check for an empty registry: doEof closes
\* and marks the websockets.  Nothing else is closed.
CloseNetworkResources ==
    /\ IocRuns
    /\ tcp = "draining"
    /\ "ws" \in registry
    /\ registry' = (registry \ {"ws"}) \cup {"unused"}
    /\ UNCHANGED <<connFrame, accept, late>>

-----------------------------------------------------------------------------
(* SignalHandler, ConsoleTerminal and BasicTerminalCommands *)

\* SIGINT, SIGTERM or SIGQUIT.  Without a signal set the process is at the
\* mercy of the default action, which is not modelled.
Signal ==
    /\ Running
    /\ "SignalHandler" \in logic
    /\ signals + typed < MaxEvents
    /\ signals' = signals + 1
    /\ UNCHANGED <<vars, asioVars, netVars, wait, received, typed, mainq>>

\* The wait is over: handleSignal begins on an asio thread.  Nobody waits for
\* the next signal.
HandleSignal(t) ==
    /\ Running
    /\ ioc = "running"
    /\ threads[t] = "running"
    /\ wait = "armed"
    /\ signals > 0
    /\ threads' = [threads EXCEPT ![t] = "handling"]
    /\ wait' = "taken"
    /\ UNCHANGED <<vars, ioc, joining, netVars, signals, received, typed, mainq>>

\* handleQuitSignal: the first signal runs quitCb_, which posts handleSigQuit;
\* the fourth one would exit.
HandleQuitSignal(t) ==
    /\ Running
    /\ threads[t] = "handling"
    /\ threads' = [threads EXCEPT ![t] = "running"]
    /\ received' = received + 1
    /\ mainq' = IF received' > 1 THEN mainq ELSE Append(mainq, "handleSigQuit")
    /\ manager' = IF received' > 3 THEN "aborted" ELSE manager
    /\ UNCHANGED <<appState, load, unload, logic, ioc, joining, netVars, wait, signals, typed>>

\* updateConsoleInput: kbhit sees input and std::getline waits for the end of
\* the line.  Meanwhile no other task runs on the console sequence.
UpdateConsoleInput ==
    /\ Running
    /\ executor["ConsoleTerminal"] = "started"
    /\ typed < MaxEvents
    /\ executor' = [executor EXCEPT !["ConsoleTerminal"] = "reading"]
    /\ UNCHANGED <<vars, asioVars, checked, updates, connVars, acceptor, listener, tcp, stopVars>>

\* The end of the line, which is posted to the event dispatcher; it may never
\* come.
Getline ==
    /\ Running
    /\ executor["ConsoleTerminal"] = "reading"
    /\ signals + typed < MaxEvents
    /\ executor' = [executor EXCEPT !["ConsoleTerminal"] = "started"]
    /\ typed' = typed + 1
    /\ mainq' = Append(mainq, "handleConsoleInput")
    /\ UNCHANGED <<vars, asioVars, checked, updates, connVars, acceptor, listener, tcp,
                   wait, signals, received>>

\* The main loop runs the first task of mainq.  Tasks are bound to a weak
\* pointer or to a sink that the destructor of the plugin disconnects.
OnMainLoop(task) == Running /\ MainFree /\ mainq # << >> /\ Head(mainq) = task

HandleSigQuit ==
    /\ OnMainLoop("handleSigQuit")
    /\ mainq' = IF "SignalHandler" \in logic THEN Append(Tail(mainq), "signalEvent")
                ELSE Tail(mainq)
    /\ UNCHANGED <<vars, asioVars, netVars, wait, signals, received, typed>>

HandleConsoleInput ==
    /\ OnMainLoop("handleConsoleInput")
    /\ mainq' = IF "BasicTerminalCommands" \in logic THEN Append(Tail(mainq), "commandEvent")
                ELSE Tail(mainq)
    /\ UNCHANGED <<vars, asioVars, netVars, wait, signals, received, typed>>

\* handleTerminationEvent of either plugin.
HandleTerminationEvent(sender) ==
    /\ OnMainLoop(IF sender = "SignalHandler" THEN "signalEvent" ELSE "commandEvent")
    /\ mainq' = Tail(mainq)
    /\ IF sender \in logic THEN Terminate(sender) ELSE UNCHANGED vars
    /\ UNCHANGED <<asioVars, netVars, wait, signals, received, typed>>

-----------------------------------------------------------------------------
(* The plugin manager *)

ServerStartup ==
    /\ Startup
    /\ Construct
    /\ UNCHANGED <<joining, netVars, signals, received, typed, mainq>>

PluginLoadBegins(p) ==
    /\ MainFree
    /\ LoadBegins(p)
    /\ Construct
    /\ UNCHANGED <<joining, netVars, signals, received, typed, mainq>>

\* load() of NetworkEntity and ConsoleTerminal sets the executor, then starts it.
ExecutorStarted(p) == p \in Periodic => executor[p] = "started"

\* configureAndRunAcceptor is posted on the main loop before the promise of
\* load() of TcpServer is resolved.
AcceptorsStarted(p) == p = "TcpServer" => acceptor # "none"

PluginLoadEnds(p) ==
    /\ MainFree
    /\ ExecutorStarted(p) /\ AcceptorsStarted(p)
    /\ LoadEnds(p)
    /\ UNCHANGED <<asioVars, netVars, stopVars>>

ServerShutdown ==
    /\ MainFree
    /\ Shutdown
    /\ UNCHANGED <<asioVars, netVars, stopVars>>

PluginUnloadBegins(p) ==
    /\ MainFree
    /\ UnloadBegins(p)
    /\ UNCHANGED <<asioVars, netVars, stopVars>>

\* What unload() of a plugin's logic, and its destructor, wait for.
ExecutorUnset(p) == p \in Periodic => executor[p] = "unset"

IOContextStopped(p) == p = "TcpServer" => tcp = "stopped"

ThreadsJoined(p) == p = "AsioContextThreads" => joining = "joined"

\* The destructor of SignalHandler cancels its wait.
PluginUnloadEnds(p) ==
    /\ MainFree
    /\ ExecutorUnset(p) /\ IOContextStopped(p) /\ ThreadsJoined(p)
    /\ UnloadEnds(p)
    /\ wait' = IF p = "SignalHandler" /\ wait = "armed" THEN "cancelled" ELSE wait
    /\ UNCHANGED <<asioVars, netVars, signals, received, typed, mainq>>

\* Mutant of ServerQuit: the promise of shutdown is not waited for.
ServerQuitAtOnce ==
    /\ MainFree
    /\ manager = "shutdown"
    /\ manager' = "quit"
    /\ UNCHANGED <<appState, load, unload, logic, asioVars, netVars, stopVars>>

ServerQuit ==
    /\ MainFree
    /\ Quit
    /\ UNCHANGED <<asioVars, netVars, stopVars>>

-----------------------------------------------------------------------------
ThreadStep(t) == RunIoc(t) \/ RunReturns(t) \/ HandleSignal(t) \/ HandleQuitSignal(t)

ExecutorStep(p) == SetExecutor(p) \/ StartExecutor(p) \/ UnsetExecutor(p)

MainTask ==
    \/ HandleSigQuit
    \/ HandleConsoleInput
    \/ \E sender \in Terminators : HandleTerminationEvent(sender)

TcpServerStep ==
    \/ StartAcceptors
    \/ ConfigureAndRunAcceptor
    \/ StopAcceptorAsync
    \/ StopAcceptor
    \/ ValidateNetworkResources
    \/ StopIOContext

AcceptStep == DoAccept \/ AllocateTcpResourceAndAccept \/ AsyncAccept

ClientStep ==
    \/ OnAccept
    \/ Upgrade
    \/ \E kind \in {"http", "ws"} : ConnectionEnds(kind)
    \/ ReadMessage
    \/ AllocateRecievedData

ManagerStep(p) ==
    PluginLoadBegins(p) \/ PluginLoadEnds(p) \/ PluginUnloadBegins(p) \/ PluginUnloadEnds(p)

ServerNext ==
    \/ ServerStartup
    \/ \E p \in Plugins : ManagerStep(p)
    \/ ServerShutdown
    \/ ServerQuit
    \/ \E t \in AsioThreads : ThreadStep(t)
    \/ UnloadStopsIoc
    \/ StopThreads
    \/ \E p \in Periodic : ExecutorStep(p)
    \/ UpdateChecks
    \/ UpdatePosts
    \/ UpdateOnRegistryThread
    \/ TcpServerStep
    \/ AcceptStep
    \/ ClientStep
    \/ CloseNetworkResources
    \/ Signal
    \/ UpdateConsoleInput
    \/ Getline
    \/ MainTask

ServerSpec == ServerInit /\ [][ServerNext]_serverVars

\* Every thread and sequence runs what is posted on it and the timers fire.
\* Nobody has to send a signal, to type or to end a line, and no client has to
\* connect or to leave.
ServerFairSpec ==
    /\ ServerSpec
    /\ WF_serverVars(ServerStartup) /\ WF_serverVars(ServerShutdown) /\ WF_serverVars(ServerQuit)
    /\ \A p \in Plugins : WF_serverVars(ManagerStep(p))
    /\ \A t \in AsioThreads : WF_serverVars(ThreadStep(t))
    /\ WF_serverVars(UnloadStopsIoc) /\ WF_serverVars(StopThreads)
    /\ \A p \in Periodic : WF_serverVars(ExecutorStep(p))
    /\ WF_serverVars(UpdateChecks) /\ WF_serverVars(UpdatePosts)
    /\ WF_serverVars(UpdateOnRegistryThread)
    /\ WF_serverVars(TcpServerStep) /\ WF_serverVars(CloseNetworkResources)
    /\ WF_serverVars(AcceptStep) /\ WF_serverVars(AcceptAborted)
    /\ WF_serverVars(MainTask)

-----------------------------------------------------------------------------
\* Every variable keeps its type.
ServerTypeOK ==
    /\ TypeOK
    /\ ioc \in {"none", "running", "stopped"}
    /\ threads \in [AsioThreads -> {"none", "posted", "running", "handling", "returned"}]
    /\ joining \in {"no", "stopped", "joining", "joined"}
    /\ executor \in [Periodic -> {"none", "set", "started", "reading", "unset"}]
    /\ checked \in BOOLEAN
    /\ updates \in 0..MaxUpdates
    /\ registry \subseteq Kind
    /\ accept \in {"none", "doAccept", "alloc", "asyncAccept", "accepting"}
    /\ late \in BOOLEAN
    /\ acceptor \in {"none", "posted", "open", "failed", "closed", "stuck"}
    /\ listener \in {"UNINITIALIZED", "STARTED", "TERMINATED"}
    /\ tcp \in {"idle", "stopping", "draining", "freed", "stopped"}
    /\ wait \in {"none", "armed", "taken", "cancelled"}
    /\ signals \in 0..MaxEvents
    /\ received \in 0..MaxEvents
    /\ typed \in 0..MaxEvents
    /\ mainq \in Seq({"handleSigQuit", "signalEvent", "handleConsoleInput", "commandEvent"})

\* Threads, timers and the sources of TERMINATE add nothing to what the plugin
\* manager may do: every step of the process is one of startup, shutdown and
\* the promises of load() and unload(), in the order that module PluginManager
\* gives them, or leaves the plugins alone.
ServerIsPluginManager == Spec

\* NetworkEntityUpdater::update expects that the registry is empty once the
\* io_context is stopped: handlers that would release an entity never run
\* again.  Whenever TERMINATE comes, and unless the acceptor could not be
\* stopped, no entity of a connection is left and none is on its way; only a
\* message may come after the last check.
RegistryEmptyWhenStopped ==
    ioc = "stopped" /\ acceptor # "stuck" =>
      registry \subseteq {"message"} /\ accept \in {"none", "doAccept"}

\* TcpServer waits for update passes to empty the registry, so the timer that
\* posts them runs as long as it waits.
UpdatesRunWhileDraining ==
    tcp = "draining" => executor["NetworkEntity"] = "started"

\* The destructor of SignalHandler cancels a wait whose handler is bound to
\* it with a raw pointer: no thread may run that handler any more.
CancelledWaitIsDropped == wait = "cancelled" => ioc = "stopped"

\* What the destructor of Listener expects when unload() of TcpServer destroys
\* it, whether or not the acceptor could be opened: the state machine is in a
\* final state, the acceptor is closed unless cancel or close failed, and no
\* handler of the io_context that is bound to the listener with a raw pointer
\* can run.  Behind a closed acceptor no entity of a connection is left, and no
\* task of the registry sequence is bound to the listener either.
ListenerEndsClean ==
    unload["TcpServer"] = "unloaded" =>
      /\ listener = "TERMINATED"
      /\ ioc = "stopped"
      /\ acceptor \in {"closed", "stuck"}
      /\ acceptor = "closed" => registry \subseteq {"message"} /\ accept \in {"none", "doAccept"}

\* When the main loop quits, the application is TERMINATED (as the destructor
\* of AppState expects), no asio thread runs, no timer fires and the logic of
\* TcpServer is gone with its listener: main may return and destroy its globals.
QuitIsClean ==
    manager = "quit" =>
      /\ appState = "TERMINATED"
      /\ \A t \in AsioThreads : threads[t] = "returned"
      /\ \A p \in Periodic : executor[p] = "unset"
      /\ "TcpServer" \notin logic

\* What TcpServer may wait for forever: an acceptor that could not be stopped
\* and still accepts, HTTP clients that go on, an entity that the listener
\* dropped and a message that came too late.
ClientsHoldShutdown ==
    /\ tcp = "draining"
    /\ \/ acceptor = "stuck" /\ accept # "none"
       \/ registry \cap {"http", "dropped", "message"} # {}

\* Once the application is TERMINATED, it ends with the main loop that quits,
\* with a console that waits forever for the end of a line, and unload() of
\* ConsoleTerminal with it, or with a registry that never becomes empty.
ServerShutdownCompletes ==
    <>[](appState = "TERMINATED") =>
      \/ <>[](manager \in {"quit", "aborted"})
      \/ <>[](executor["ConsoleTerminal"] = "reading")
      \/ <>[]ClientsHoldShutdown

\* What handleQuitSignal says: who presses stop many times, possibly because
\* the server hangs, ends the process.
ManySignalsExit == signals > 3 ~> manager \in {"quit", "aborted"}
=============================================================================
