--------------------------- MODULE PluginManager ---------------------------
(***************************************************************************)
(* The life of the server process around its plugins: runServerAndPromise- *)
(* Quit starts the plugin manager, waits for the event TERMINATE, shuts    *)
(* the plugin manager down and lets the main loop quit.                    *)
(*                                                                         *)
(* Everything happens on the main loop.  load() and unload() of a plugin   *)
(* return promises, so each of them is a step that begins it and a step    *)
(* that resolves its promise; the promise chains that startup and shutdown *)
(* build are the guards of the steps that begin.                           *)
(*                                                                         *)
(* The startup promise is ignored: TERMINATE may come, and shutdown may    *)
(* run, while plugins still wait for the ones they depend on.  DCHECKs are *)
(* compiled out; base::Optional::value() of an empty Optional is a CHECK   *)
(* and ends the process.                                                   *)
(***************************************************************************)
EXTENDS StateMachine

CONSTANTS
    Plugins,      \* the titles in plugins.conf, all of them found
    DependsOn,    \* the values of the key depends of each
    MayFail,      \* plugins that Corrade may be unable to load or instantiate
    Terminators   \* plugins that send AppState::TERMINATE

ASSUME PluginsAssumption ==
    /\ DependsOn \in [Plugins -> SUBSET Plugins]
    /\ MayFail \subseteq Plugins
    /\ Terminators \subseteq Plugins

VARIABLES
    appState,  \* AppState
    manager,   \* progress of the plugin manager
    load,      \* what became of load() of each plugin
    unload,    \* what became of unload() of each plugin
    logic      \* plugins whose mainPluginLogic_ has a value

vars == <<appState, manager, load, unload, logic>>

\* PluginMetadata::requiredBy, the inverse of dependsOn.
RequiredBy(p) == {q \in Plugins : p \in DependsOn[q]}

\* loaded_plugins_: what startup could load and instantiate, whether or not
\* its load() was called.
LoadedPlugins == {p \in Plugins : load[p] \notin {"none", "failed"}}

Init ==
    /\ appState = "UNINITIALIZED"
    /\ manager = "none"
    /\ load = [p \in Plugins |-> "none"]
    /\ unload = [p \in Plugins |-> "none"]
    /\ logic = {}

-----------------------------------------------------------------------------
\* Mutant of Startup: only plugins without dependencies get their promises.
StartupParallelOnly ==
    /\ appState = "UNINITIALIZED"
    /\ appState' = "STARTED"
    /\ manager' = "running"
    /\ load' = [p \in {q \in Plugins : DependsOn[q] = {}} |-> "loading"]
    /\ logic' = DOMAIN load'
    /\ UNCHANGED unload

\* setGlobals, the event START and PluginManager::startup.  A plugin without
\* dependencies is loaded at once, the others wait; one that fails is skipped
\* and its promises stay unresolved.
Startup ==
    /\ appState = "UNINITIALIZED"
    /\ appState' = ProcessEvent(appState, "START")
    /\ manager' = "running"
    /\ \E failed \in SUBSET MayFail :
         /\ load' = [p \in Plugins |-> IF p \in failed THEN "failed"
                                       ELSE IF DependsOn[p] = {} THEN "loading"
                                       ELSE "waiting"]
         /\ logic' = {p \in Plugins \ failed : DependsOn[p] = {}}
    /\ UNCHANGED unload

\* The plugin manager lives until unsetGlobals.
Alive == manager \in {"running", "shutdown"}

\* Mutant of LoadBegins: one dependency is enough.
LoadBeginsAny(p) ==
    /\ Alive
    /\ load[p] = "waiting"
    /\ \E d \in DependsOn[p] : load[d] = "loaded"
    /\ load' = [load EXCEPT ![p] = "loading"]
    /\ logic' = logic \cup {p}
    /\ UNCHANGED <<appState, manager, unload>>

\* loadDepsPromise is resolved: load() creates the logic of the plugin.
LoadBegins(p) ==
    /\ Alive
    /\ load[p] = "waiting"
    /\ \A d \in DependsOn[p] : load[d] = "loaded"
    /\ load' = [load EXCEPT ![p] = "loading"]
    /\ logic' = logic \cup {p}
    /\ UNCHANGED <<appState, manager, unload>>

\* Mutant of LoadEnds: the promise is resolved without waiting for load().
LoadEndsUnbegun(p) ==
    /\ Alive
    /\ load[p] \in {"waiting", "loading"}
    /\ load' = [load EXCEPT ![p] = "loaded"]
    /\ UNCHANGED <<appState, manager, unload, logic>>

\* load() is done: the resolver in loadResolvers_ and onLoaded.
LoadEnds(p) ==
    /\ Alive
    /\ load[p] = "loading"
    /\ load' = [load EXCEPT ![p] = "loaded"]
    /\ UNCHANGED <<appState, manager, unload, logic>>

-----------------------------------------------------------------------------
\* A signal or the command stop, handled by the logic of a plugin (through a
\* weak pointer): AppState enters TERMINATED and resolves promiseEntryOnce.
\* In TERMINATED the event is accepted and changes nothing.
Terminate(p) ==
    /\ p \in Terminators \cap logic
    /\ appState' = ProcessEvent(appState, "TERMINATE")
    /\ UNCHANGED <<manager, load, unload, logic>>

\* Mutant of Shutdown: every plugin is unloaded at once.
ShutdownUnordered ==
    /\ appState = "TERMINATED"
    /\ manager = "running"
    /\ IF LoadedPlugins \subseteq logic
       THEN /\ manager' = "shutdown"
            /\ unload' = [p \in Plugins |-> IF p \in LoadedPlugins THEN "unloading"
                                            ELSE "none"]
       ELSE manager' = "aborted" /\ UNCHANGED unload
    /\ UNCHANGED <<appState, load, logic>>

\* PluginManager::shutdown.  A plugin that no other requires is unloaded at
\* once, the others wait.  unload() uses the value of mainPluginLogic_.
Shutdown ==
    /\ appState = "TERMINATED"
    /\ manager = "running"
    /\ LET first == {p \in LoadedPlugins : RequiredBy(p) = {}}
       IN  IF first \subseteq logic
           THEN /\ manager' = "shutdown"
                /\ unload' = [p \in Plugins |-> IF p \in first THEN "unloading"
                                                ELSE IF p \in LoadedPlugins THEN "waiting"
                                                ELSE "none"]
           ELSE manager' = "aborted" /\ UNCHANGED unload
    /\ UNCHANGED <<appState, load, logic>>

\* unloadRequiredByPromise is resolved: unload() of the plugin.
UnloadBegins(p) ==
    /\ Alive
    /\ unload[p] = "waiting"
    /\ \A q \in RequiredBy(p) : unload[q] = "unloaded"
    /\ IF p \in logic
       THEN unload' = [unload EXCEPT ![p] = "unloading"] /\ UNCHANGED manager
       ELSE manager' = "aborted" /\ UNCHANGED unload
    /\ UNCHANGED <<appState, load, logic>>

\* unload() is done: the logic is destroyed, then the resolver in
\* unloadResolvers_ and onUnloaded.
UnloadEnds(p) ==
    /\ Alive
    /\ unload[p] = "unloading"
    /\ unload' = [unload EXCEPT ![p] = "unloaded"]
    /\ logic' = logic \ {p}
    /\ UNCHANGED <<appState, manager, load>>

\* All plugins are unloaded: unsetGlobals and the QuitClosure of the run loop.
Quit ==
    /\ manager = "shutdown"
    /\ \A p \in LoadedPlugins : unload[p] = "unloaded"
    /\ manager' = "quit"
    /\ UNCHANGED <<appState, load, unload, logic>>

-----------------------------------------------------------------------------
PluginStep(p) == LoadBegins(p) \/ LoadEnds(p) \/ UnloadBegins(p) \/ UnloadEnds(p)

Next ==
    \/ Startup
    \/ \E p \in Plugins : PluginStep(p) \/ Terminate(p)
    \/ Shutdown
    \/ Quit

Spec == Init /\ [][Next]_vars

-----------------------------------------------------------------------------
\* Every variable keeps its type.
TypeOK ==
    /\ appState \in {"UNINITIALIZED", "STARTED", "TERMINATED"}
    /\ manager \in {"none", "running", "shutdown", "quit", "aborted"}
    /\ load \in [Plugins -> {"none", "failed", "waiting", "loading", "loaded"}]
    /\ unload \in [Plugins -> {"none", "waiting", "unloading", "unloaded"}]
    /\ logic \subseteq Plugins

\* A plugin uses the objects that the plugins it depends on keep (the registry,
\* the io_context, its threads): while its logic exists, theirs does, however
\* loads, the termination event and unloads interleave.
DependenciesAlive == \A p \in logic : DependsOn[p] \subseteq logic

\* unload() of a plugin that others require never overtakes its load(), even
\* when the termination event comes during startup.
UnloadAfterLoad ==
    \A p \in Plugins :
      unload[p] \in {"unloading", "unloaded"} /\ RequiredBy(p) # {} => load[p] = "loaded"

\* The process is ended by unload() of a plugin without logic only if a plugin
\* still waits for its dependencies (unload() of every plugin expects a logic:
\* DCHECK(mainPluginLogic_)): a server stopped after its startup never is.
AbortsOnlyEarly == manager = "aborted" => \E p \in Plugins : load[p] = "waiting"
=============================================================================
