------------------------ MODULE PluginManager_proofs ------------------------
(***************************************************************************)
(* Proofs about the plugin manager, for every set of plugins, whatever     *)
(* they depend on (a cycle of dependencies included) and whichever of them *)
(* cannot be loaded.                                                       *)
(***************************************************************************)
EXTENDS PluginManager, TLAPS

\* load() of p was called.
Begun(p) == load[p] \in {"loading", "loaded"}

\* unload() of p was called.
Ended(p) == unload[p] \in {"unloading", "unloaded"}

\* Nothing happens before startup, and nothing is unloaded before shutdown.
Phases ==
    /\ appState = "UNINITIALIZED" => manager = "none"
    /\ manager \in {"none", "running"} => \A p \in Plugins : unload[p] = "none"
    /\ manager = "none" => \A p \in Plugins : load[p] = "none"

\* The logic of a plugin exists from the call of load() to the end of unload().
LogicExists == \A p \in Plugins : p \in logic <=> Begun(p) /\ unload[p] # "unloaded"

\* Loading follows the dependencies.
LoadOrder ==
    \A p \in Plugins : Begun(p) => \A d \in DependsOn[p] : load[d] = "loaded"

\* Unloading follows them backwards; only plugins that somebody requires wait.
UnloadOrder ==
    \A p \in Plugins :
      /\ Ended(p) => Begun(p) /\ \A q \in RequiredBy(p) : unload[q] = "unloaded"
      /\ unload[p] = "waiting" => RequiredBy(p) # {}

IInv ==
    /\ TypeOK
    /\ Phases
    /\ LogicExists
    /\ LoadOrder
    /\ UnloadOrder
    /\ AbortsOnlyEarly

-----------------------------------------------------------------------------
\* What the transition table says of the events that the program sends.
LEMMA Transitions ==
  /\ ProcessEvent("UNINITIALIZED", "START") = "STARTED"
  /\ \A s \in {"UNINITIALIZED", "STARTED", "TERMINATED"} :
       /\ ProcessEvent(s, "TERMINATE") = "TERMINATED"
       /\ s # "UNINITIALIZED" => ProcessEvent(s, "START") = s
BY DEF ProcessEvent, TransitionTable

\* Initially no plugin is loaded.
LEMMA InitIInv == Init => IInv
BY PluginsAssumption
   DEF Init, IInv, TypeOK, Phases, LogicExists, LoadOrder, UnloadOrder,
       AbortsOnlyEarly, Begun, Ended

\* startup loads the plugins without dependencies and leaves the rest waiting.
LEMMA StartupIInv == IInv /\ Startup => IInv'
<1> SUFFICES ASSUME IInv, Startup PROVE IInv'
  OBVIOUS
<1> USE PluginsAssumption
<1>0. manager = "none" /\ appState' = "STARTED" /\ \A p \in Plugins : unload[p] = "none"
  BY Transitions DEF IInv, Phases, Startup
<1>1. TypeOK'
  BY <1>0 DEF IInv, TypeOK, Startup
<1>2. Phases' /\ AbortsOnlyEarly'
  BY <1>0 DEF Phases, Startup, AbortsOnlyEarly
<1>3. \A p \in Plugins : Begun(p)' => DependsOn[p] = {}
  BY DEF Begun, Startup
<1>4. LogicExists'
  BY <1>0 DEF LogicExists, Begun, Startup
<1>5. LoadOrder'
  BY <1>3 DEF LoadOrder
<1>6. UnloadOrder'
  BY <1>0 DEF UnloadOrder, Ended, Startup
<1>. QED
  BY <1>1, <1>2, <1>4, <1>5, <1>6 DEF IInv

\* The steps that a promise of load() lets happen.
LEMMA LoadIInv ==
  ASSUME NEW p \in Plugins, IInv, LoadBegins(p) \/ LoadEnds(p)
  PROVE  IInv'
<1> USE PluginsAssumption
<1>0. Alive /\ UNCHANGED <<appState, manager, unload>>
  BY DEF LoadBegins, LoadEnds
<1>1. TypeOK'
  BY DEF IInv, TypeOK, LoadBegins, LoadEnds
<1>2. Phases' /\ AbortsOnlyEarly'
  BY <1>0 DEF IInv, Phases, AbortsOnlyEarly, Alive
<1>3. \A q \in Plugins : /\ q # p => load'[q] = load[q]
                         /\ load[q] = "loaded" => load'[q] = "loaded"
                         /\ Begun(q) => Begun(q)'
  BY DEF IInv, TypeOK, LoadBegins, LoadEnds, Begun
<1>4. Begun(p)' /\ \A d \in DependsOn[p] : load[d] = "loaded"
  BY DEF IInv, TypeOK, LoadBegins, LoadEnds, Begun, LoadOrder
<1>5. LoadOrder'
  BY <1>3, <1>4 DEF IInv, LoadOrder, Begun
<1>6. UnloadOrder'
  BY <1>0, <1>3 DEF IInv, UnloadOrder, Ended
<1>7. LogicExists'
  <2>1. CASE LoadBegins(p)
    <3>1. unload[p] # "unloaded"
      BY <2>1 DEF LoadBegins, IInv, UnloadOrder, Ended, Begun
    <3>. QED
      BY <2>1, <3>1, <1>0, <1>3, <1>4 DEF LoadBegins, IInv, LogicExists, Begun
  <2>2. CASE LoadEnds(p)
    BY <2>2, <1>0, <1>3, <1>4 DEF LoadEnds, IInv, LogicExists, Begun
  <2>. QED
    BY <2>1, <2>2
<1>. QED
  BY <1>1, <1>2, <1>5, <1>6, <1>7 DEF IInv

\* shutdown aborts only for a plugin that waits; otherwise it unloads the
\* plugins that nobody requires, all of which have their logic.
LEMMA ShutdownIInv == IInv /\ Shutdown => IInv'
<1> SUFFICES ASSUME IInv, Shutdown PROVE IInv'
  OBVIOUS
<1> USE PluginsAssumption
<1> DEFINE first == {p \in LoadedPlugins : RequiredBy(p) = {}}
<1>0. \A p \in Plugins : unload[p] = "none"
  BY DEF IInv, Phases, Shutdown
<1>1. UNCHANGED <<appState, load, logic>> /\ appState = "TERMINATED"
  BY DEF Shutdown
<1>2. CASE first \subseteq logic
  <2>1. /\ manager' = "shutdown"
        /\ unload' = [p \in Plugins |-> IF p \in first THEN "unloading"
                                        ELSE IF p \in LoadedPlugins THEN "waiting"
                                        ELSE "none"]
    BY <1>2 DEF Shutdown
  <2>2. TypeOK'
    BY <1>1, <2>1 DEF IInv, TypeOK
  <2>3. Phases' /\ AbortsOnlyEarly' /\ LoadOrder'
    BY <1>1, <2>1 DEF IInv, Phases, AbortsOnlyEarly, LoadOrder, Begun
  <2>4. LogicExists'
    BY <1>0, <1>1, <2>1 DEF IInv, LogicExists, Begun
  <2>5. UnloadOrder'
    BY <1>1, <1>2, <2>1 DEF IInv, LogicExists, UnloadOrder, Begun, Ended, LoadedPlugins
  <2>. QED
    BY <2>2, <2>3, <2>4, <2>5 DEF IInv
<1>3. CASE ~(first \subseteq logic)
  <2>1. manager' = "aborted" /\ unload' = unload
    BY <1>3 DEF Shutdown
  <2>2. \E p \in Plugins : load[p] = "waiting"
    BY <1>0, <1>3 DEF IInv, TypeOK, LogicExists, Begun, LoadedPlugins
  <2>. QED
    BY <1>1, <2>1, <2>2 DEF IInv, TypeOK, Phases, LogicExists, LoadOrder,
       UnloadOrder, AbortsOnlyEarly, Begun, Ended
<1>. QED
  BY <1>2, <1>3

\* A plugin whose turn it is to be unloaded has been loaded and has its logic.
LEMMA TurnHasLogic ==
  ASSUME NEW p \in Plugins, IInv, unload[p] = "waiting",
         \A q \in RequiredBy(p) : unload[q] = "unloaded"
  PROVE  load[p] = "loaded" /\ p \in logic
<1> PICK q \in RequiredBy(p) : unload[q] = "unloaded"
  BY DEF IInv, UnloadOrder
<1>1. q \in Plugins /\ p \in DependsOn[q] /\ Begun(q)
  BY DEF IInv, UnloadOrder, Ended, RequiredBy
<1>. QED
  BY <1>1 DEF IInv, LoadOrder, LogicExists, Begun

\* The steps that a promise of unload() lets happen.
LEMMA UnloadIInv ==
  ASSUME NEW p \in Plugins, IInv, UnloadBegins(p) \/ UnloadEnds(p)
  PROVE  IInv'
<1> USE PluginsAssumption
<1>0. UNCHANGED <<appState, load>> /\ Alive
  BY DEF UnloadBegins, UnloadEnds
<1>1. CASE UnloadBegins(p)
  <2>1. load[p] = "loaded" /\ p \in logic
    BY <1>1, TurnHasLogic DEF UnloadBegins
  <2>2. /\ unload' = [unload EXCEPT ![p] = "unloading"]
        /\ UNCHANGED <<manager, logic>> /\ manager = "shutdown"
    BY <1>1, <2>1 DEF UnloadBegins, Alive, IInv, Phases
  <2>3. TypeOK' /\ Phases' /\ AbortsOnlyEarly' /\ LoadOrder'
    BY <1>0, <2>2 DEF IInv, TypeOK, Phases, AbortsOnlyEarly, LoadOrder, Begun
  <2>4. LogicExists'
    BY <1>0, <1>1, <2>2 DEF IInv, TypeOK, LogicExists, Begun, UnloadBegins
  <2>5. \A q \in Plugins : unload[q] = "unloaded" => unload'[q] = "unloaded"
    BY <1>1, <2>2 DEF IInv, TypeOK, UnloadBegins
  <2>6. UnloadOrder'
    BY <1>0, <1>1, <2>1, <2>2, <2>5
       DEF IInv, TypeOK, UnloadOrder, Begun, Ended, UnloadBegins, RequiredBy
  <2>. QED
    BY <2>3, <2>4, <2>6 DEF IInv
<1>2. CASE UnloadEnds(p)
  <2>1. /\ unload' = [unload EXCEPT ![p] = "unloaded"] /\ logic' = logic \ {p}
        /\ unload[p] = "unloading" /\ UNCHANGED manager /\ manager = "shutdown"
    BY <1>2 DEF UnloadEnds, Alive, IInv, Phases
  <2>2. TypeOK' /\ Phases' /\ AbortsOnlyEarly' /\ LoadOrder'
    BY <1>0, <2>1 DEF IInv, TypeOK, Phases, AbortsOnlyEarly, LoadOrder, Begun
  <2>3. LogicExists'
    BY <1>0, <2>1 DEF IInv, TypeOK, LogicExists, Begun
  <2>4. \A q \in Plugins : /\ unload[q] = "unloaded" => unload'[q] = "unloaded"
                           /\ Ended(q)' <=> Ended(q)
                           /\ unload'[q] = "waiting" => unload[q] = "waiting"
    BY <2>1 DEF IInv, TypeOK, Ended
  <2>5. UnloadOrder'
    BY <1>0, <2>4 DEF IInv, UnloadOrder, Begun, RequiredBy
  <2>. QED
    BY <2>2, <2>3, <2>5 DEF IInv
<1>. QED
  BY <1>1, <1>2

\* The termination event and the end of the process touch no plugin.
LEMMA OtherIInv ==
  ASSUME IInv, (\E p \in Plugins : Terminate(p)) \/ Quit \/ UNCHANGED vars
  PROVE  IInv'
<1>1. /\ UNCHANGED <<load, unload, logic>>
      /\ manager' = manager \/ manager' = "quit"
      /\ appState' = appState \/ appState' = "TERMINATED"
  BY Transitions DEF IInv, TypeOK, Terminate, Quit, vars
<1>2. TypeOK' /\ Phases' /\ AbortsOnlyEarly'
  BY <1>1 DEF IInv, TypeOK, Phases, AbortsOnlyEarly, Terminate, Quit, vars
<1>. QED
  BY <1>1, <1>2 DEF IInv, LogicExists, LoadOrder, UnloadOrder, Begun, Ended

\* Every step of the plugin manager preserves the invariant.
LEMMA NextIInv == IInv /\ [Next]_vars => IInv'
BY StartupIInv, LoadIInv, ShutdownIInv, UnloadIInv, OtherIInv
   DEF Next, PluginStep

\* The invariant is inductive.
THEOREM Inductive == Spec => []IInv
BY InitIInv, NextIInv, PTL DEF Spec

-----------------------------------------------------------------------------
\* While the logic of a plugin exists, the logic of every plugin it depends on
\* exists: startup and shutdown order load() and unload() of any set of
\* plugins, also when the termination event comes during startup.
THEOREM DependenciesAliveCorrect == Spec => []DependenciesAlive
<1>1. IInv => DependenciesAlive
  <2> SUFFICES ASSUME IInv, NEW p \in logic, NEW d \in DependsOn[p]
               PROVE  d \in logic
    BY DEF DependenciesAlive
  <2>1. p \in Plugins /\ d \in Plugins
    BY PluginsAssumption DEF IInv, TypeOK
  <2>2. Begun(p) /\ unload[p] # "unloaded" /\ p \in RequiredBy(d)
    BY <2>1 DEF IInv, LogicExists, RequiredBy
  <2>3. load[d] = "loaded"
    BY <2>1, <2>2 DEF IInv, LoadOrder
  <2>4. unload[d] # "unloaded"
    BY <2>1, <2>2 DEF IInv, UnloadOrder, Ended
  <2>. QED
    BY <2>1, <2>3, <2>4 DEF IInv, LogicExists, Begun
<1>. QED
  BY <1>1, Inductive, PTL

\* unload() of a plugin that another one requires follows the end of its
\* load(), whenever the termination event comes.
THEOREM UnloadAfterLoadCorrect == Spec => []UnloadAfterLoad
<1>1. IInv => UnloadAfterLoad
  <2> SUFFICES ASSUME IInv, NEW p \in Plugins, Ended(p), NEW q \in RequiredBy(p)
               PROVE  load[p] = "loaded"
    BY DEF UnloadAfterLoad, Ended
  <2>1. q \in Plugins /\ p \in DependsOn[q] /\ unload[q] = "unloaded"
    BY DEF IInv, UnloadOrder, RequiredBy
  <2>2. Begun(q)
    BY <2>1 DEF IInv, UnloadOrder, Ended
  <2>. QED
    BY <2>1, <2>2 DEF IInv, LoadOrder
<1>. QED
  BY <1>1, Inductive, PTL

\* shutdown of a server none of whose plugins is still waiting for its
\* dependencies never uses the logic of a plugin that has none.
THEOREM AbortsOnlyEarlyCorrect == Spec => []AbortsOnlyEarly
BY Inductive, PTL DEF IInv
=============================================================================
