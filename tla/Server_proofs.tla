--------------------------- MODULE Server_proofs ---------------------------
(***************************************************************************)
(* Proofs about the server process, for every number of asio threads,      *)
(* signals and commands, and for every set of plugins in which TcpServer   *)
(* depends on AsioContextThreads, SignalHandler and NetworkEntity: it is a *)
(* plugin manager, and it stops the io_context in time.  Clients may do    *)
(* what they like, and the acceptor may refuse to stop.                    *)
(***************************************************************************)
EXTENDS Server, PluginManager_proofs

\* SignalHandler is constructed once and its handler runs at most once.
SignalOnce ==
    /\ wait # "none" => Begun("SignalHandler")
    /\ wait = "taken" => signals > 0
    /\ wait = "cancelled" => unload["SignalHandler"] = "unloaded"
    /\ \A t \in AsioThreads : threads[t] = "handling" => wait = "taken" /\ received = 0
    /\ \A t, u \in AsioThreads : threads[t] = "handling" /\ threads[u] = "handling" => t = u
    /\ received > 0 => wait = "taken" /\ received = 1

\* unload of TcpServer stops the io_context, and nobody stops it earlier.
StopOrder ==
    /\ ioc = "stopped" <=> tcp = "stopped"
    /\ tcp # "idle" => Ended("TcpServer")
    /\ unload["TcpServer"] = "unloaded" => tcp = "stopped"

\* No entity of a connection is left, and the listener will allocate none.
NoConnections == registry \subseteq {"message"} /\ accept \in {"none", "doAccept"}

\* What unload of TcpServer has achieved, unless the acceptor is stuck.
Drained ==
    /\ tcp \in {"draining", "freed", "stopped"} =>
         acceptor \in {"closed", "stuck"} /\ listener = "TERMINATED"
    /\ tcp \in {"freed", "stopped"} /\ acceptor = "closed" => NoConnections

\* The timer of NetworkEntity runs from the end of load to unload; that of
\* ConsoleTerminal reads the lines that are typed.
TimerRuns ==
    /\ load["NetworkEntity"] = "loaded" => executor["NetworkEntity"] \in {"started", "unset"}
    /\ executor["NetworkEntity"] = "unset" => Ended("NetworkEntity")
    /\ executor["ConsoleTerminal"] = "reading" => typed < MaxEvents

SInv == ServerTypeOK /\ SignalOnce /\ StopOrder /\ Drained /\ TimerRuns

USE DEF connVars, NoConnections

-----------------------------------------------------------------------------
\* The plugins that TcpServer depends on are plugins, and TcpServer is among
\* those that require them.
LEMMA Required ==
  ASSUME NEW p \in {"AsioContextThreads", "SignalHandler", "NetworkEntity"}
  PROVE  p \in Plugins /\ "TcpServer" \in Plugins /\ "TcpServer" \in RequiredBy(p)
         /\ p \in DependsOn["TcpServer"] /\ p # "TcpServer"
BY TcpServerAssumption, PluginsAssumption DEF RequiredBy

\* What the order of load and unload says of them.
LEMMA AroundTcpServer ==
  ASSUME IInv, SInv, NEW p \in {"AsioContextThreads", "SignalHandler", "NetworkEntity"}
  PROVE  /\ tcp # "idle" => load[p] = "loaded"
         /\ Ended(p) => tcp = "stopped"
<1>1. p \in Plugins /\ "TcpServer" \in Plugins /\ "TcpServer" \in RequiredBy(p)
      /\ p \in DependsOn["TcpServer"]
  BY Required
<1>2. tcp # "idle" => load[p] = "loaded"
  <2> HAVE tcp # "idle"
  <2>1. Begun("TcpServer")
    BY <1>1 DEF SInv, StopOrder, IInv, UnloadOrder
  <2>. QED
    BY <1>1, <2>1 DEF IInv, LoadOrder
<1>3. Ended(p) => tcp = "stopped"
  BY <1>1 DEF SInv, StopOrder, IInv, UnloadOrder
<1>. QED
  BY <1>2, <1>3

\* Initially nothing runs.
LEMMA InitSInv == ServerInit => SInv
<1> SUFFICES ASSUME ServerInit PROVE SInv
  OBVIOUS
<1> USE ServerAssumption
<1>1. TypeOK
  BY InitIInv DEF ServerInit, IInv
<1>2. ServerTypeOK
  <2>1. mainq \in Seq({"handleSigQuit", "signalEvent", "handleConsoleInput", "commandEvent"})
    BY DEF ServerInit
  <2>2. checked \in BOOLEAN /\ late \in BOOLEAN
    BY Zenon DEF ServerInit
  <2>. QED
    BY <1>1, <2>1, <2>2 DEF ServerTypeOK, ServerInit, Periodic
<1>3. SignalOnce /\ StopOrder /\ Drained /\ TimerRuns
  <2>1. "TcpServer" \in Plugins /\ "NetworkEntity" \in Plugins
    BY Required
  <2>. QED
    BY <2>1 DEF ServerInit, Init, SignalOnce, StopOrder, Drained, TimerRuns, Periodic, Ended
<1>. QED
  BY <1>2, <1>3 DEF SInv

-----------------------------------------------------------------------------
\* Steps of the asio threads.  The wait for a signal is taken once, so at most
\* one thread ever handles one.
LEMMA ThreadSInv ==
  ASSUME IInv, SInv, NEW t \in AsioThreads, ThreadStep(t)
  PROVE  SInv' /\ (UNCHANGED vars)
<1> USE ServerAssumption
<1>1. CASE RunIoc(t) \/ RunReturns(t)
  BY <1>1 DEF RunIoc, RunReturns, SInv, ServerTypeOK, TypeOK, SignalOnce, StopOrder, Drained,
     TimerRuns, Begun, Ended, vars, netVars, stopVars
<1>2. CASE HandleSignal(t)
  <2>1. wait = "armed" /\ received = 0 /\ \A u \in AsioThreads : threads[u] # "handling"
    BY <1>2 DEF HandleSignal, SInv, SignalOnce, ServerTypeOK
  <2>. QED
    BY <1>2, <2>1 DEF HandleSignal, SInv, ServerTypeOK, TypeOK, SignalOnce, StopOrder, Drained,
       TimerRuns, Begun, Ended, vars, netVars, stopVars
<1>3. CASE HandleQuitSignal(t)
  <2>1. /\ received = 0 /\ received' = 1 /\ wait = "taken" /\ signals > 0
        /\ mainq' = Append(mainq, "handleSigQuit") /\ manager' = manager
    BY <1>3 DEF HandleQuitSignal, SInv, SignalOnce
  <2>2. mainq' \in Seq({"handleSigQuit", "signalEvent", "handleConsoleInput", "commandEvent"})
    BY <2>1 DEF SInv, ServerTypeOK
  <2>3. UNCHANGED vars
    BY <1>3, <2>1 DEF HandleQuitSignal, vars
  <2>4. ServerTypeOK'
    BY <1>3, <2>1, <2>2, <2>3
    DEF HandleQuitSignal, SInv, ServerTypeOK, TypeOK, vars, netVars
  <2>5. SignalOnce'
    BY <1>3, <2>1, <2>3 DEF HandleQuitSignal, SInv, SignalOnce, ServerTypeOK, Begun, vars
  <2>. QED
    BY <1>3, <2>3, <2>4, <2>5
    DEF HandleQuitSignal, SInv, StopOrder, Drained, TimerRuns, Begun, Ended, vars, netVars
<1>. QED
  BY <1>1, <1>2, <1>3 DEF ThreadStep

\* The io_context is stopped by AsioContextThreads only after TcpServer did.
LEMMA JoinSInv ==
  ASSUME IInv, SInv, UnloadStopsIoc \/ StopThreads
  PROVE  SInv' /\ UNCHANGED vars
<1>1. CASE UnloadStopsIoc
  <2>1. tcp = "stopped"
    BY <1>1, AroundTcpServer DEF UnloadStopsIoc, Ended
  <2>. QED
    BY <1>1, <2>1 DEF UnloadStopsIoc, SInv, ServerTypeOK, TypeOK, SignalOnce, StopOrder, Drained,
       TimerRuns, Begun, Ended, vars, netVars, stopVars
<1>2. CASE StopThreads
  BY <1>2 DEF StopThreads, SInv, ServerTypeOK, TypeOK, SignalOnce, StopOrder, Drained,
     TimerRuns, Begun, Ended, vars, netVars, stopVars
<1>. QED
  BY <1>1, <1>2

\* Steps of the timers.
LEMMA TimerSInv ==
  ASSUME IInv, SInv,
         \/ \E p \in Periodic : ExecutorStep(p)
         \/ UpdateChecks \/ UpdatePosts \/ UpdateOnRegistryThread
  PROVE  SInv' /\ UNCHANGED vars
<1> USE ServerAssumption
<1>1. CASE \E p \in Periodic : ExecutorStep(p)
  <2> PICK p \in Periodic : ExecutorStep(p)
    BY <1>1
  <2>1. /\ UNCHANGED <<vars, asioVars, checked, updates, connVars, acceptor, listener, tcp, stopVars>>
        /\ \E x \in {"set", "started", "unset"} : executor' = [executor EXCEPT ![p] = x]
    BY DEF ExecutorStep, SetExecutor, StartExecutor, UnsetExecutor
  <2>2. ServerTypeOK'
    BY <2>1 DEF SInv, ServerTypeOK, TypeOK, vars, asioVars, stopVars
  <2>3. TimerRuns'
    <3>1. /\ Periodic = {"NetworkEntity", "ConsoleTerminal"}
          /\ executor \in [Periodic -> {"none", "set", "started", "reading", "unset"}]
      BY DEF Periodic, SInv, ServerTypeOK
    <3>. QED
      BY <2>1, <3>1 DEF ExecutorStep, SetExecutor, StartExecutor, UnsetExecutor, SInv, TimerRuns,
         Ended, vars, stopVars
  <2>. QED
    BY <2>1, <2>2, <2>3 DEF SInv, SignalOnce, StopOrder, Drained, Begun, Ended, vars,
       asioVars, stopVars
<1>2. CASE UpdateChecks \/ UpdatePosts
  <2>1. checked' \in BOOLEAN
    BY <1>2, Zenon DEF UpdateChecks, UpdatePosts
  <2>2. updates' \in 0..MaxUpdates
    BY <1>2 DEF UpdateChecks, UpdatePosts, SInv, ServerTypeOK
  <2>3. UNCHANGED <<vars, asioVars, executor, connVars, acceptor, listener, tcp, stopVars>>
    BY <1>2 DEF UpdateChecks, UpdatePosts
  <2>. QED
    BY <2>1, <2>2, <2>3 DEF SInv, ServerTypeOK, TypeOK, SignalOnce,
       StopOrder, Drained, TimerRuns, Begun, Ended, vars, asioVars, stopVars
<1>3. CASE UpdateOnRegistryThread
  BY <1>3 DEF UpdateOnRegistryThread, SInv, ServerTypeOK, TypeOK, SignalOnce,
     StopOrder, Drained, TimerRuns, Begun, Ended, vars, asioVars, stopVars
<1>. QED
  BY <1>1, <1>2, <1>3

\* Steps of TcpServer.
LEMMA TcpServerSInv ==
  ASSUME IInv, SInv, TcpServerStep
  PROVE  SInv' /\ UNCHANGED vars
<1> USE DEF SInv, ServerTypeOK, TypeOK, SignalOnce, StopOrder, Drained, TimerRuns,
            Begun, Ended, vars, asioVars, stopVars
<1>0. /\ acceptor \in {"none", "posted"} => tcp \notin {"draining", "freed", "stopped"}
      /\ ProcessEvent(listener, "TERMINATE") = "TERMINATED"
  BY Transitions
<1>1. CASE StartAcceptors \/ ConfigureAndRunAcceptor
  <2>1. ConfigureAndRunAcceptor => listener' \in {"UNINITIALIZED", "STARTED", "TERMINATED"}
    BY Transitions DEF ConfigureAndRunAcceptor
  <2>. QED
    BY <1>0, <1>1, <2>1 DEF StartAcceptors, ConfigureAndRunAcceptor
<1>2. CASE StopAcceptorAsync \/ StopAcceptor
  BY <1>0, <1>2 DEF StopAcceptorAsync, StopAcceptor
<1>3. CASE ValidateNetworkResources
  <2>1. acceptor = "closed" => registry = {} /\ accept \in {"none", "doAccept"}
    BY <1>3 DEF ValidateNetworkResources, RegistryEmpty, Waiting
  <2>. QED
    BY <1>3, <2>1 DEF ValidateNetworkResources
<1>4. CASE StopIOContext
  BY <1>4 DEF StopIOContext
<1>. QED
  BY <1>1, <1>2, <1>3, <1>4 DEF TcpServerStep

\* Steps of the listener and its connections.  Behind a closed acceptor they
\* bring no entity into a registry that was found empty, but for messages.
LEMMA ConnectionSInv ==
  ASSUME IInv, SInv, AcceptStep \/ ClientStep \/ CloseNetworkResources
  PROVE  SInv' /\ UNCHANGED connFrame
<1> USE DEF AcceptStep, DoAccept, AllocateTcpResourceAndAccept, AsyncAccept, ClientStep, OnAccept,
            Upgrade, ConnectionEnds, ReadMessage, AllocateRecievedData, CloseNetworkResources
<1>1. UNCHANGED connFrame
  OBVIOUS
<1>2. registry' \subseteq Kind
  BY DEF SInv, ServerTypeOK, Kind, Becomes
<1>3. accept' \in {"none", "doAccept", "alloc", "asyncAccept", "accepting"}
  BY DEF SInv, ServerTypeOK
<1>4. late' \in BOOLEAN
  <2>1. late \in BOOLEAN
    BY DEF SInv, ServerTypeOK
  <2>. QED
    BY <2>1, Zenon DEF connFrame
<1>5. NoConnections /\ acceptor = "closed" => NoConnections'
  BY DEF Becomes
<1> HIDE DEF AcceptStep, ClientStep, CloseNetworkResources
<1>6. ServerTypeOK'
  BY <1>1, <1>2, <1>3, <1>4 DEF connFrame, SInv, ServerTypeOK, TypeOK, vars, asioVars, stopVars
<1>. QED
  BY <1>1, <1>5, <1>6 DEF connFrame, SInv, SignalOnce, StopOrder, Drained, TimerRuns, Begun, Ended,
     vars, asioVars, stopVars

-----------------------------------------------------------------------------
\* Steps of those who stop the server.
LEMMA StopSInv ==
  ASSUME IInv, SInv, Signal \/ UpdateConsoleInput \/ Getline \/ MainTask
  PROVE  SInv' /\ [Next]_vars
<1> DEFINE Tasks == {"handleSigQuit", "signalEvent", "handleConsoleInput", "commandEvent"}
<1> USE ServerAssumption
<1>1. CASE Signal
  BY <1>1 DEF Signal, SInv, ServerTypeOK, TypeOK, SignalOnce, StopOrder, Drained, TimerRuns,
     Begun, Ended, vars, asioVars, netVars
<1>2. CASE UpdateConsoleInput \/ Getline
  <2>0. UNCHANGED <<vars, asioVars, checked, updates, connVars, acceptor, listener, tcp,
                    wait, signals, received>>
    BY <1>2 DEF UpdateConsoleInput, Getline, stopVars
  <2>1. mainq' \in Seq(Tasks)
    <3>1. mainq \in Seq(Tasks)
      BY DEF SInv, ServerTypeOK
    <3>2. mainq' \in {mainq, Append(mainq, "handleConsoleInput")}
      BY <1>2 DEF UpdateConsoleInput, Getline, stopVars
    <3>3. Append(mainq, "handleConsoleInput") \in Seq(Tasks)
      BY <3>1
    <3>. QED
      BY <3>1, <3>2, <3>3
  <2>2. /\ executor' \in [Periodic -> {"none", "set", "started", "reading", "unset"}]
        /\ executor'["NetworkEntity"] = executor["NetworkEntity"]
        /\ typed' \in 0..MaxEvents
        /\ executor'["ConsoleTerminal"] = "reading" => typed' < MaxEvents
    BY <1>2 DEF UpdateConsoleInput, Getline, stopVars, SInv, ServerTypeOK, TimerRuns, Periodic
  <2>. QED
    BY <2>0, <2>1, <2>2 DEF SInv, ServerTypeOK, TypeOK, SignalOnce, StopOrder,
       Drained, TimerRuns, Begun, Ended, vars, asioVars
<1>3. CASE MainTask
  <2>1. UNCHANGED <<asioVars, netVars, wait, signals, received, typed>>
    BY <1>3 DEF MainTask, HandleSigQuit, HandleConsoleInput, HandleTerminationEvent
  <2>2. mainq' \in Seq(Tasks)
    <3>1. mainq \in Seq(Tasks) /\ mainq # << >>
      BY <1>3 DEF MainTask, HandleSigQuit, HandleConsoleInput, HandleTerminationEvent,
         OnMainLoop, SInv, ServerTypeOK
    <3>2. Tail(mainq) \in Seq(Tasks)
      BY <3>1
    <3>. QED
      BY <1>3, <3>2 DEF MainTask, HandleSigQuit, HandleConsoleInput, HandleTerminationEvent
  <2>3. UNCHANGED vars \/ \E p \in Terminators : Terminate(p)
    BY <1>3 DEF MainTask, HandleSigQuit, HandleConsoleInput, HandleTerminationEvent
  <2>4. UNCHANGED <<manager, load, unload, logic>> /\ TypeOK' /\ [Next]_vars
    <3>1. [Next]_vars
      BY <2>3, PluginsAssumption DEF Next
    <3>. QED
      BY <2>3, <3>1, NextIInv DEF Terminate, vars, IInv
  <2>. QED
    BY <2>1, <2>2, <2>4 DEF SInv, ServerTypeOK, SignalOnce, StopOrder,
       Drained, TimerRuns, Begun, Ended, asioVars, netVars
<1>. QED
  BY <1>1, <1>2, <1>3

-----------------------------------------------------------------------------
\* A constructor runs before the plugin is loaded: the io_context is not yet
\* stopped, the signal handler not yet armed.
LEMMA ConstructSInv ==
  ASSUME IInv, SInv, Construct, IInv', UNCHANGED unload,
         \A p \in Plugins : p \in logic' \ logic => load[p] \in {"none", "waiting"},
         \A p \in Plugins : Begun(p) => load'[p] = load[p],
         \A p \in logic' \ logic : Begun(p)',
         load'["NetworkEntity"] = "loaded" => load["NetworkEntity"] = "loaded",
         UNCHANGED <<joining, netVars, signals, received, typed, mainq>>
  PROVE  SInv'
<1> DEFINE new == logic' \ logic
<1>0. new \subseteq Plugins /\ "SignalHandler" \in Plugins /\ "AsioContextThreads" \in Plugins
      /\ "TcpServer" \in Plugins
  BY Required DEF IInv, TypeOK
<1>1. "AsioContextThreads" \in new => tcp = "idle"
  BY <1>0, AroundTcpServer
<1>2. "SignalHandler" \in new => wait = "none"
  BY <1>0 DEF SInv, SignalOnce, Begun
<1>3. ServerTypeOK'
  <2>1. ioc' \in {"none", "running", "stopped"} /\ wait' \in {"none", "armed", "taken", "cancelled"}
    BY DEF Construct, StartThreads, WaitForSignal, SInv, ServerTypeOK
  <2>2. threads' \in [AsioThreads -> {"none", "posted", "running", "handling", "returned"}]
    BY DEF Construct, StartThreads, SInv, ServerTypeOK
  <2>. QED
    BY <2>1, <2>2 DEF IInv, SInv, ServerTypeOK, netVars
<1>4. StopOrder' /\ Drained'
  <2>1. ioc' = ioc \/ (ioc' = "running" /\ tcp = "idle")
    BY <1>1 DEF Construct
  <2>. QED
    BY <2>1 DEF SInv, StopOrder, Drained, Ended, netVars
<1>5. TimerRuns'
  BY DEF SInv, TimerRuns, Ended, netVars
<1>6. SignalOnce'
  <2>1. \A t \in AsioThreads : threads'[t] = "handling" => threads[t] = "handling"
    BY DEF Construct, StartThreads
  <2>2. CASE "SignalHandler" \in new
    <3>1. wait = "none" /\ wait' = "armed" /\ Begun("SignalHandler")'
      BY <1>2, <2>2 DEF Construct, WaitForSignal
    <3>. QED
      BY <2>1, <3>1 DEF SInv, SignalOnce
  <2>3. CASE "SignalHandler" \notin new
    <3>1. wait' = wait
      BY <2>3 DEF Construct
    <3>. QED
      BY <1>0, <2>1, <3>1 DEF SInv, SignalOnce, Begun
  <2>. QED
    BY <2>2, <2>3
<1>. QED
  BY <1>3, <1>4, <1>5, <1>6 DEF SInv

\* Startup and load() construct what is new and change no other plugin.
LEMMA LoadSInv ==
  ASSUME IInv, SInv, NEW p \in Plugins,
         ServerStartup \/ PluginLoadBegins(p) \/ PluginLoadEnds(p)
  PROVE  SInv' /\ [Next]_vars
<1>0. {"SignalHandler", "AsioContextThreads", "NetworkEntity", "TcpServer"} \subseteq Plugins
  BY Required
<1>1. CASE ServerStartup
  <2>1. Startup /\ Construct /\ [Next]_vars
    BY <1>1 DEF ServerStartup, Next
  <2>2. IInv' /\ UNCHANGED unload /\ \A q \in Plugins : load[q] = "none"
    BY <2>1, StartupIInv DEF Startup, IInv, Phases
  <2>3. \A q \in logic' \ logic : Begun(q)'
    BY <2>1 DEF Startup, Begun
  <2>4. load'["NetworkEntity"] # "loaded"
    BY <1>0, <2>1 DEF Startup
  <2>5. UNCHANGED <<joining, netVars, signals, received, typed, mainq>>
    BY <1>1 DEF ServerStartup
  <2>6. \A q \in Plugins : ~Begun(q) /\ load[q] \in {"none", "waiting"}
    BY <2>2 DEF Begun
  <2>. QED
    BY <2>1, <2>2, <2>3, <2>4, <2>5, <2>6, ConstructSInv
<1>2. CASE PluginLoadBegins(p)
  <2>1. LoadBegins(p) /\ Construct /\ [Next]_vars
    BY <1>2 DEF PluginLoadBegins, Next, PluginStep
  <2>2. IInv' /\ UNCHANGED unload /\ load[p] = "waiting" /\ logic' \ logic \subseteq {p}
    BY <2>1, LoadIInv DEF LoadBegins
  <2>3. load' = [load EXCEPT ![p] = "loading"] /\ DOMAIN load = Plugins
    BY <2>1 DEF LoadBegins, IInv, TypeOK
  <2>4. UNCHANGED <<joining, netVars, signals, received, typed, mainq>>
    BY <1>2 DEF PluginLoadBegins
  <2>5. \A q \in Plugins : Begun(q) => load'[q] = load[q]
    BY <2>2, <2>3 DEF Begun
  <2>6. \A q \in logic' \ logic : Begun(q)'
    BY <2>2, <2>3 DEF Begun
  <2>7. load'["NetworkEntity"] = "loaded" => load["NetworkEntity"] = "loaded"
    BY <1>0, <2>3
  <2>8. \A q \in Plugins : q \in logic' \ logic => load[q] \in {"none", "waiting"}
    BY <2>2
  <2>. QED
    BY <2>1, <2>2, <2>4, <2>5, <2>6, <2>7, <2>8, ConstructSInv
<1>3. CASE PluginLoadEnds(p)
  <2>1. LoadEnds(p) /\ ExecutorStarted(p) /\ UNCHANGED <<asioVars, netVars, stopVars>>
    BY <1>3 DEF PluginLoadEnds
  <2>2. [Next]_vars /\ IInv'
    BY <2>1, LoadIInv DEF Next, PluginStep
  <2>3. UNCHANGED unload /\ \A q \in Plugins : Begun(q) => Begun(q)'
    BY <2>1 DEF LoadEnds, IInv, TypeOK, Begun
  <2>4. TimerRuns'
    <3>1. load'["NetworkEntity"] = "loaded" => p = "NetworkEntity" \/ load["NetworkEntity"] = "loaded"
      BY <2>1 DEF LoadEnds
    <3>2. p = "NetworkEntity" => executor["NetworkEntity"] = "started"
      BY <2>1 DEF ExecutorStarted, Periodic
    <3>. QED
      BY <2>1, <2>3, <3>1, <3>2 DEF SInv, TimerRuns, Ended, netVars, stopVars
  <2>. QED
    BY <1>0, <2>1, <2>2, <2>3, <2>4 DEF SInv, IInv, ServerTypeOK, SignalOnce, StopOrder, Drained,
       Ended, asioVars, netVars, stopVars
<1>. QED
  BY <1>1, <1>2, <1>3

\* Shutdown and unload() never take back an unload(), and that of TcpServer
\* ends when the io_context is stopped.
LEMMA UnloadSInv ==
  ASSUME IInv, SInv, NEW p \in Plugins,
         ServerShutdown \/ PluginUnloadBegins(p) \/ PluginUnloadEnds(p) \/ ServerQuit
  PROVE  SInv' /\ [Next]_vars
<1>0. {"SignalHandler", "AsioContextThreads", "NetworkEntity", "TcpServer"} \subseteq Plugins
  BY Required
<1>1. [Next]_vars
  BY DEF ServerShutdown, PluginUnloadBegins, PluginUnloadEnds, ServerQuit, Next, PluginStep
<1>2. IInv'
  BY <1>1, NextIInv
<1>3. UNCHANGED <<load, asioVars, netVars, signals, received, typed, mainq>>
  BY DEF ServerShutdown, PluginUnloadBegins, PluginUnloadEnds, ServerQuit, Shutdown,
     UnloadBegins, UnloadEnds, Quit, stopVars
<1>4. \A q \in Plugins : /\ Ended(q) => Ended(q)'
                         /\ unload[q] = "unloaded" => unload'[q] = "unloaded"
  <2>1. CASE Shutdown
    BY <2>1 DEF Shutdown, IInv, Phases, Ended
  <2>2. CASE UnloadBegins(p) \/ UnloadEnds(p) \/ Quit
    BY <2>2 DEF UnloadBegins, UnloadEnds, Quit, IInv, TypeOK, Ended
  <2>. QED
    BY <2>1, <2>2 DEF ServerShutdown, PluginUnloadBegins, PluginUnloadEnds, ServerQuit
<1>5. unload'["TcpServer"] = "unloaded" => tcp = "stopped"
  <2>1. CASE PluginUnloadEnds(p)
    BY <1>0, <2>1 DEF PluginUnloadEnds, IOContextStopped, UnloadEnds, SInv, StopOrder, IInv, TypeOK
  <2>2. CASE Shutdown
    BY <1>0, <2>2 DEF Shutdown, SInv, StopOrder
  <2>3. CASE UnloadBegins(p) \/ Quit
    BY <1>0, <2>3 DEF UnloadBegins, Quit, SInv, StopOrder, IInv, TypeOK
  <2>. QED
    BY <2>1, <2>2, <2>3 DEF ServerShutdown, PluginUnloadBegins, ServerQuit
<1>6. \/ wait' = wait
      \/ wait = "armed" /\ wait' = "cancelled" /\ unload'["SignalHandler"] = "unloaded"
  <2>1. CASE PluginUnloadEnds(p)
    BY <1>0, <2>1 DEF PluginUnloadEnds, UnloadEnds, IInv, TypeOK
  <2>. QED
    BY <2>1 DEF ServerShutdown, PluginUnloadBegins, ServerQuit, stopVars
<1>7. StopOrder' /\ Drained' /\ TimerRuns'
  BY <1>0, <1>3, <1>4, <1>5 DEF SInv, StopOrder, Drained, TimerRuns, asioVars, netVars
<1>8. SignalOnce'
  BY <1>0, <1>3, <1>4, <1>6 DEF SInv, SignalOnce, ServerTypeOK, Begun, asioVars
<1>9. ServerTypeOK'
  BY <1>2, <1>3, <1>6 DEF IInv, SInv, ServerTypeOK, asioVars, netVars
<1>. QED
  BY <1>1, <1>7, <1>8, <1>9 DEF SInv

-----------------------------------------------------------------------------
\* Every step of the server preserves both invariants and is a step of the
\* plugin manager or leaves it alone.
LEMMA NextSInv == IInv /\ SInv /\ [ServerNext]_serverVars => IInv' /\ SInv' /\ [Next]_vars
<1> SUFFICES ASSUME IInv, SInv, [ServerNext]_serverVars PROVE SInv' /\ [Next]_vars
  BY NextIInv
<1>1. CASE UNCHANGED serverVars
  BY <1>1 DEF serverVars, vars, asioVars, netVars, stopVars, SInv, ServerTypeOK, TypeOK,
     SignalOnce, StopOrder, Drained, TimerRuns, Begun, Ended
<1>2. CASE ServerStartup \/ ServerShutdown \/ ServerQuit
  BY <1>2, Required, LoadSInv, UnloadSInv
<1>3. CASE \E p \in Plugins : ManagerStep(p)
  BY <1>3, LoadSInv, UnloadSInv DEF ManagerStep
<1>4. CASE \E t \in AsioThreads : ThreadStep(t)
  BY <1>4, ThreadSInv
<1>5. CASE UnloadStopsIoc \/ StopThreads
  BY <1>5, JoinSInv
<1>6. CASE \/ \E p \in Periodic : ExecutorStep(p)
           \/ UpdateChecks \/ UpdatePosts \/ UpdateOnRegistryThread
  BY <1>6, TimerSInv
<1>7. CASE TcpServerStep
  BY <1>7, TcpServerSInv
<1>9. CASE AcceptStep \/ ClientStep \/ CloseNetworkResources
  BY <1>9, ConnectionSInv DEF connFrame
<1>8. CASE Signal \/ UpdateConsoleInput \/ Getline \/ MainTask
  BY <1>8, StopSInv
<1>. QED
  BY <1>1, <1>2, <1>3, <1>4, <1>5, <1>6, <1>7, <1>8, <1>9 DEF ServerNext

\* Both invariants hold in every state of the server process.
THEOREM ServerInductive == ServerSpec => [](IInv /\ SInv)
<1>1. ServerInit => IInv /\ SInv
  BY InitIInv, InitSInv DEF ServerInit
<1>. QED
  BY <1>1, NextSInv, PTL DEF ServerSpec

\* The server process, with its threads, timers and sources of TERMINATE, is
\* a plugin manager: whatever PluginManager_proofs shows holds of it.
THEOREM ServerImplementsPluginManager == ServerSpec => ServerIsPluginManager
<1>1. ServerInit => Init
  BY DEF ServerInit
<1>2. IInv /\ SInv /\ [ServerNext]_serverVars => [Next]_vars
  BY NextSInv
<1>. QED
  BY <1>1, <1>2, ServerInductive, PTL DEF ServerSpec, Spec, ServerIsPluginManager

\* In the server process, too, the logic of a plugin exists only while that of
\* the plugins it depends on does.
THEOREM ServerDependenciesAlive == ServerSpec => []DependenciesAlive
BY ServerImplementsPluginManager, DependenciesAliveCorrect, PTL DEF ServerIsPluginManager

\* The variables of the server keep their types: the counters of signals and of
\* queued update passes stay within their bounds, and handleQuitSignal never
\* reaches its call of exit.
THEOREM ServerTypeCorrect == ServerSpec => []ServerTypeOK
<1>1. SInv => ServerTypeOK
  BY DEF SInv
<1>. QED
  BY <1>1, ServerInductive, PTL

\* However the server is stopped, the io_context stops when no entity of a
\* connection is left and none is on its way, unless the acceptor could not be
\* stopped: the unload of TcpServer, which waits for that, precedes the unload
\* of AsioContextThreads, and behind a closed acceptor nothing but a late
\* message enters the registry after the check.
THEOREM RegistryEmptyCorrect == ServerSpec => []RegistryEmptyWhenStopped
<1>1. SInv => RegistryEmptyWhenStopped
  BY DEF SInv, StopOrder, Drained, RegistryEmptyWhenStopped
<1>. QED
  BY <1>1, ServerInductive, PTL

\* The destructor of Listener finds a terminated state machine and a stopped
\* io_context in every configuration of plugins, whether or not the acceptor
\* could be opened; and a closed acceptor with no connection and no task behind
\* it, or one that cancel or close left open.
THEOREM ListenerEndsCleanCorrect == ServerSpec => []ListenerEndsClean
<1>1. SInv => ListenerEndsClean
  BY DEF SInv, StopOrder, Drained, ListenerEndsClean
<1>. QED
  BY <1>1, ServerInductive, PTL

\* While TcpServer waits for update passes, the timer of NetworkEntity, on
\* which it depends, is loaded and not yet unset.
THEOREM UpdatesRunCorrect == ServerSpec => []UpdatesRunWhileDraining
<1>1. IInv /\ SInv => UpdatesRunWhileDraining
  <2> SUFFICES ASSUME IInv, SInv, tcp = "draining" PROVE executor["NetworkEntity"] = "started"
    BY DEF UpdatesRunWhileDraining
  <2>1. load["NetworkEntity"] = "loaded" /\ ~Ended("NetworkEntity")
    BY AroundTcpServer
  <2>. QED
    BY <2>1 DEF SInv, TimerRuns
<1>. QED
  BY <1>1, ServerInductive, PTL

\* SignalHandler is destroyed after the unload of TcpServer stopped the
\* io_context: no thread completes the cancelled wait.
THEOREM CancelledWaitCorrect == ServerSpec => []CancelledWaitIsDropped
<1>1. IInv /\ SInv => CancelledWaitIsDropped
  <2> SUFFICES ASSUME IInv, SInv, wait = "cancelled" PROVE ioc = "stopped"
    BY DEF CancelledWaitIsDropped
  <2>1. Ended("SignalHandler")
    BY DEF SInv, SignalOnce, Ended
  <2>2. tcp = "stopped"
    BY <2>1, AroundTcpServer
  <2>. QED
    BY <2>2 DEF SInv, StopOrder
<1>. QED
  BY <1>1, ServerInductive, PTL
-----------------------------------------------------------------------------
\* What the main loop may rely on when it quits: what the unloads of
\* AsioContextThreads and of the plugins with timers have achieved, that
\* shutdown follows TERMINATE, and that every plugin in loaded_plugins_ was
\* unloaded, all of them but those that Corrade could not load.
EndInv ==
    /\ joining # "no" => Ended("AsioContextThreads")
    /\ joining = "joined" => \A t \in AsioThreads : threads[t] = "returned"
    /\ unload["AsioContextThreads"] = "unloaded" => joining = "joined"
    /\ \A p \in Periodic \cap Plugins : unload[p] = "unloaded" => executor[p] = "unset"
    /\ manager \in {"shutdown", "quit"} => appState = "TERMINATED"
    /\ manager = "quit" => \A p \in LoadedPlugins : unload[p] = "unloaded"
    /\ manager # "none" => \A p \in Plugins : load[p] # "none"
    /\ \A p \in Plugins : load[p] = "failed" => p \in MayFail

\* Steps of the threads, timers and tasks leave the plugins alone.  Threads
\* that were joined and timers that were unset never run again.
LEMMA ActorsEndInv ==
  ASSUME IInv, SInv, EndInv,
         \/ \E t \in AsioThreads : ThreadStep(t)
         \/ UnloadStopsIoc \/ StopThreads
         \/ \E p \in Periodic : ExecutorStep(p)
         \/ UpdateChecks \/ UpdatePosts \/ UpdateOnRegistryThread
         \/ TcpServerStep \/ AcceptStep \/ ClientStep \/ CloseNetworkResources
         \/ Signal \/ UpdateConsoleInput \/ Getline
  PROVE  EndInv'
<1>0. UNCHANGED vars
  <2>1. CASE Signal \/ UpdateConsoleInput \/ Getline
    BY <2>1 DEF Signal, UpdateConsoleInput, Getline
  <2>. QED
    BY <2>1, ThreadSInv, JoinSInv, TimerSInv, TcpServerSInv, ConnectionSInv DEF connFrame
<1>5. AcceptStep \/ ClientStep \/ CloseNetworkResources => UNCHANGED <<asioVars, executor>>
  BY ConnectionSInv DEF connFrame
<1>1. joining' # "no" => Ended("AsioContextThreads")
  BY <1>5 DEF EndInv, ThreadStep, RunIoc, RunReturns, HandleSignal, HandleQuitSignal, UnloadStopsIoc,
     StopThreads, ExecutorStep, SetExecutor, StartExecutor, UnsetExecutor, UpdateChecks, UpdatePosts,
     UpdateOnRegistryThread, TcpServerStep, StartAcceptors, ConfigureAndRunAcceptor,
     StopAcceptorAsync, StopAcceptor, ValidateNetworkResources, StopIOContext,
     Signal, UpdateConsoleInput, Getline, Ended, asioVars
<1>2. /\ joining' = "joined" => joining = "joined" \/ \A t \in AsioThreads : threads[t] = "returned"
      /\ joining = "joined" => joining' = "joined"
  BY <1>5 DEF ThreadStep, RunIoc, RunReturns, HandleSignal, HandleQuitSignal, UnloadStopsIoc,
     StopThreads, ExecutorStep, SetExecutor, StartExecutor, UnsetExecutor, UpdateChecks, UpdatePosts,
     UpdateOnRegistryThread, TcpServerStep, StartAcceptors, ConfigureAndRunAcceptor,
     StopAcceptorAsync, StopAcceptor, ValidateNetworkResources, StopIOContext,
     Signal, UpdateConsoleInput, Getline, asioVars
<1>3. \A t \in AsioThreads : threads[t] = "returned" => threads'[t] = "returned"
  <2>1. CASE \E t \in AsioThreads : ThreadStep(t)
    BY <2>1 DEF ThreadStep, RunIoc, RunReturns, HandleSignal, HandleQuitSignal, SInv, ServerTypeOK
  <2>2. CASE ~\E t \in AsioThreads : ThreadStep(t)
    <3>1. UNCHANGED threads
      BY <1>5, <2>2 DEF UnloadStopsIoc, StopThreads, ExecutorStep, SetExecutor, StartExecutor,
         UnsetExecutor, UpdateChecks, UpdatePosts, UpdateOnRegistryThread, TcpServerStep,
         StartAcceptors, ConfigureAndRunAcceptor, StopAcceptorAsync, StopAcceptor,
         ValidateNetworkResources, StopIOContext, Signal,
         UpdateConsoleInput, Getline, asioVars
    <3>. QED
      BY <3>1
  <2>. QED
    BY <2>1, <2>2
<1>4. \A p \in Periodic : executor[p] = "unset" => executor'[p] = "unset"
  <2>1. CASE \E p \in Periodic : ExecutorStep(p)
    BY <2>1 DEF ExecutorStep, SetExecutor, StartExecutor, UnsetExecutor, SInv, ServerTypeOK
  <2>2. CASE UpdateConsoleInput \/ Getline
    BY <2>2 DEF UpdateConsoleInput, Getline, SInv, ServerTypeOK, Periodic
  <2>3. CASE ~((\E p \in Periodic : ExecutorStep(p)) \/ UpdateConsoleInput \/ Getline)
    <3>1. UNCHANGED executor
      BY <1>5, <2>3 DEF ThreadStep, RunIoc, RunReturns, HandleSignal, HandleQuitSignal, UnloadStopsIoc,
         StopThreads, UpdateChecks, UpdatePosts, UpdateOnRegistryThread, TcpServerStep,
         StartAcceptors, ConfigureAndRunAcceptor, StopAcceptorAsync, StopAcceptor,
         ValidateNetworkResources, StopIOContext, Signal, netVars
    <3>. QED
      BY <3>1
  <2>. QED
    BY <2>1, <2>2, <2>3
<1>. QED
  BY <1>0, <1>1, <1>2, <1>3, <1>4 DEF EndInv, Ended, LoadedPlugins, vars

\* A plugin whose unload() ended waited for its threads and its timer; the
\* main loop quits when all of them ended.  AsioContextThreads starts threads
\* only when it is constructed, which is before its unload().
LEMMA ManagerEndInv ==
  ASSUME IInv, SInv, EndInv,
         \/ ServerStartup \/ ServerShutdown \/ ServerQuit \/ MainTask
         \/ \E p \in Plugins : ManagerStep(p)
  PROVE  EndInv'
<1> USE PluginsAssumption
<1>0. {"AsioContextThreads", "NetworkEntity", "TcpServer"} \subseteq Plugins
  BY Required
<1>1. CASE ServerStartup
  <2>1. Startup /\ Construct /\ UNCHANGED <<unload, joining, executor>>
    BY <1>1 DEF ServerStartup, Startup, netVars
  <2>2. manager = "none" /\ \A p \in Plugins : unload[p] = "none"
    BY <2>1 DEF Startup, IInv, Phases
  <2>3. joining = "no"
    BY <1>0, <2>2 DEF EndInv, Ended
  <2>4. /\ manager' = "running"
        /\ \A p \in Plugins : load'[p] # "none" /\ (load'[p] = "failed" => p \in MayFail)
    BY <2>1 DEF Startup
  <2>. QED
    BY <1>0, <2>1, <2>2, <2>3, <2>4 DEF EndInv
<1>2. CASE \E p \in Plugins : PluginLoadBegins(p) \/ PluginLoadEnds(p)
  <2> PICK p \in Plugins : PluginLoadBegins(p) \/ PluginLoadEnds(p)
    BY <1>2
  <2>1. /\ UNCHANGED <<appState, manager, unload, joining, executor>>
        /\ manager \in {"running", "shutdown"}
        /\ load[p] \in {"waiting", "loading"}
        /\ \E x \in {"loading", "loaded"} : load' = [load EXCEPT ![p] = x]
    BY DEF PluginLoadBegins, PluginLoadEnds, LoadBegins, LoadEnds, Alive, asioVars, netVars
  <2>2. joining = "joined" => threads' = threads
    <3>1. CASE PluginLoadBegins(p)
      <4>1. logic' \ logic \subseteq {p} /\ load[p] = "waiting" /\ Construct
        BY <3>1 DEF PluginLoadBegins, LoadBegins
      <4>2. joining = "joined" => p # "AsioContextThreads"
        BY <1>0, <4>1 DEF EndInv, IInv, UnloadOrder, Begun
      <4>. QED
        BY <4>1, <4>2 DEF Construct
    <3>2. CASE PluginLoadEnds(p)
      BY <3>2 DEF PluginLoadEnds, asioVars
    <3>. QED
      BY <3>1, <3>2
  <2>3. \A q \in Plugins : load'[q] \in {"loading", "loaded"} \/ load'[q] = load[q]
    BY <2>1 DEF IInv, TypeOK
  <2>4. load \in [Plugins -> {"none", "failed", "waiting", "loading", "loaded"}]
    BY DEF IInv, TypeOK
  <2>. QED
    BY <1>0, <2>1, <2>2, <2>3, <2>4 DEF EndInv, Ended
<1>3. CASE \E p \in Plugins : PluginUnloadBegins(p) \/ PluginUnloadEnds(p)
  <2> PICK p \in Plugins : PluginUnloadBegins(p) \/ PluginUnloadEnds(p)
    BY <1>3
  <2>1. /\ UNCHANGED <<appState, load, threads, joining, executor>>
        /\ manager \in {"running", "shutdown"} /\ manager' \in {manager, "aborted"}
        /\ \/ unload' = unload
           \/ unload' = [unload EXCEPT ![p] = "unloading"] /\ unload[p] = "waiting"
           \/ /\ unload' = [unload EXCEPT ![p] = "unloaded"] /\ unload[p] = "unloading"
              /\ ExecutorUnset(p) /\ ThreadsJoined(p)
    BY DEF PluginUnloadBegins, PluginUnloadEnds, UnloadBegins, UnloadEnds, Alive, asioVars, netVars
  <2>2. unload \in [Plugins -> {"none", "waiting", "unloading", "unloaded"}]
    BY DEF IInv, TypeOK
  <2>3. joining' # "no" => Ended("AsioContextThreads")'
    BY <1>0, <2>1, <2>2 DEF EndInv, Ended
  <2>4. unload'["AsioContextThreads"] = "unloaded" => joining' = "joined"
    BY <1>0, <2>1, <2>2 DEF EndInv, ThreadsJoined
  <2>5. \A q \in Periodic \cap Plugins : unload'[q] = "unloaded" => executor'[q] = "unset"
    BY <2>1, <2>2 DEF EndInv, ExecutorUnset
  <2>. QED
    BY <2>1, <2>3, <2>4, <2>5 DEF EndInv
<1>4. CASE ServerShutdown
  <2>1. /\ UNCHANGED <<appState, load, threads, joining, executor>>
        /\ appState = "TERMINATED" /\ manager = "running" /\ manager' \in {"shutdown", "aborted"}
        /\ \A p \in Plugins : unload[p] = "none" /\ unload'[p] # "unloaded"
    BY <1>4 DEF ServerShutdown, Shutdown, IInv, Phases, asioVars, netVars
  <2>2. joining = "no"
    BY <1>0, <2>1 DEF EndInv, Ended
  <2>. QED
    BY <1>0, <2>1, <2>2 DEF EndInv
<1>5. CASE ServerQuit
  <2>1. /\ UNCHANGED <<appState, load, unload, threads, joining, executor>>
        /\ manager = "shutdown" /\ manager' = "quit"
        /\ \A p \in LoadedPlugins : unload[p] = "unloaded"
    BY <1>5 DEF ServerQuit, Quit, asioVars, netVars
  <2>. QED
    BY <2>1 DEF EndInv, Ended, LoadedPlugins
<1>6. CASE MainTask
  <2>1. /\ UNCHANGED <<manager, load, unload, threads, joining, executor>>
        /\ appState' = appState \/ appState' = "TERMINATED"
    BY <1>6, Transitions DEF MainTask, HandleSigQuit, HandleConsoleInput, HandleTerminationEvent,
       Terminate, IInv, TypeOK, vars, asioVars, netVars
  <2>. QED
    BY <2>1 DEF EndInv, Ended, LoadedPlugins
<1>. QED
  BY <1>1, <1>2, <1>3, <1>4, <1>5, <1>6 DEF ManagerStep

\* The three invariants hold in every state of the server process.
THEOREM EndInductive == ServerSpec => [](IInv /\ SInv /\ EndInv)
<1>1. ServerInit => EndInv
  <2> SUFFICES ASSUME ServerInit PROVE EndInv
    OBVIOUS
  <2>1. "AsioContextThreads" \in Plugins
    BY Required
  <2>. QED
    BY <2>1 DEF ServerInit, Init, EndInv, Ended
<1>2. IInv /\ SInv /\ EndInv /\ [ServerNext]_serverVars => EndInv'
  <2> SUFFICES ASSUME IInv, SInv, EndInv, [ServerNext]_serverVars PROVE EndInv'
    OBVIOUS
  <2>1. CASE UNCHANGED serverVars
    BY <2>1 DEF serverVars, vars, asioVars, netVars, EndInv, Ended, LoadedPlugins
  <2>2. CASE ServerNext
    BY <2>2, ActorsEndInv, ManagerEndInv DEF ServerNext
  <2>. QED
    BY <2>1, <2>2
<1>. QED
  BY <1>1, <1>2, ServerInductive, PTL DEF ServerSpec

\* When the main loop quits, the application is TERMINATED, every asio thread
\* has returned, no timer is set and the listener is destroyed, provided that
\* plugins.conf lists the plugins with threads and timers and that Corrade
\* could load them: one that could not is not waited for.
THEOREM QuitIsCleanCorrect ==
  ASSUME "ConsoleTerminal" \in Plugins,
         MayFail \cap {"AsioContextThreads", "NetworkEntity", "ConsoleTerminal", "TcpServer"} = {}
  PROVE  ServerSpec => []QuitIsClean
<1>1. IInv /\ SInv /\ EndInv => QuitIsClean
  <2> SUFFICES ASSUME IInv, SInv, EndInv, manager = "quit"
               PROVE  /\ appState = "TERMINATED" /\ "TcpServer" \notin logic
                      /\ \A t \in AsioThreads : threads[t] = "returned"
                      /\ \A p \in Periodic : executor[p] = "unset"
    BY DEF QuitIsClean
  <2>1. \A p \in {"AsioContextThreads", "NetworkEntity", "ConsoleTerminal", "TcpServer"} :
          p \in Plugins /\ unload[p] = "unloaded"
    <3>1. \A p \in Plugins \ MayFail : p \in LoadedPlugins
      BY DEF EndInv, LoadedPlugins
    <3>. QED
      BY <3>1, Required DEF EndInv
  <2>2. "TcpServer" \notin logic
    BY <2>1 DEF IInv, LogicExists
  <2>. QED
    BY <2>1, <2>2 DEF EndInv, Periodic
<1>. QED
  BY <1>1, EndInductive, PTL
=============================================================================
