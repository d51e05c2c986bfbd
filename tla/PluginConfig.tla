---------------------------- MODULE PluginConfig ----------------------------
(***************************************************************************)
(* PluginManager::startup up to the plugins that it loads: plugins.conf is *)
(* parsed, its groups become a map of metadata, plugins of the command     *)
(* line are added, every plugin gets its promises, and the promise chains  *)
(* load what they can.  Module PluginManager starts from the result.       *)
(*                                                                         *)
(* A name is the title of a plugin, the path of a plugin file or "", which *)
(* is what the key depends without a value gives.  startup() is one call   *)
(* on the main loop; its blocks are the steps of this module.  A CHECK     *)
(* ends the process.                                                       *)
(***************************************************************************)
EXTENDS Naturals, Sequences

CONSTANTS
    StaticPlugins,      \* titles linked into the server
    DirectoryPlugins,   \* titles found in the directory of plugins
    Files,              \* paths of plugin files that exist
    Names,              \* values that the keys title and depends may have
    NoTitle,            \* a group without the key title
    Configs,            \* plugins.conf: has it a section [plugins], its groups
    CommandLines,       \* extra plugin files given on the command line
    Unloadables         \* what Corrade may be unable to load or instantiate

ASSUME PluginConfigAssumption ==
    /\ NoTitle \notin Names
    /\ \A c \in Configs : /\ c.section \in BOOLEAN
                          /\ c.groups \in Seq([title : Names \cup {NoTitle},
                                               depends : SUBSET Names])
    /\ \A x \in CommandLines : x \subseteq Names
    /\ \A b \in Unloadables : b \subseteq Names

\* pluginList() has the names of files without their suffix, the path of a
\* plugin file has it.
ASSUME NamesAreNotPaths == (StaticPlugins \cup DirectoryPlugins) \cap Files = {}

VARIABLES
    conf,       \* the configuration file
    extra,      \* _pathsToExtraPluginFiles
    broken,     \* plugins that cannot be loaded
    step,       \* progress of startup()
    filtered,   \* filtered_plugins: metadata by title or path
    promises,   \* names with promises in loadPromises_ and unloadPromises_
    chains,     \* loaded_plugins_: plugins with a chain that loads them
    loaded      \* plugins whose load promise is resolved

inputs == <<conf, extra, broken>>
vars == <<conf, extra, broken, step, filtered, promises, chains, loaded>>

Init ==
    /\ conf \in Configs
    /\ extra \in CommandLines
    /\ broken \in Unloadables
    /\ step = "parse"
    /\ filtered = << >>
    /\ promises = {}
    /\ chains = {}
    /\ loaded = {}

-----------------------------------------------------------------------------
\* pluginList() after setPluginDirectory also has the static plugins.
Found == StaticPlugins \cup DirectoryPlugins

\* Titles of the groups.
Titles == {conf.groups[i].title : i \in DOMAIN conf.groups} \ {NoTitle}

\* A later group with the same title replaces the metadata of an earlier one.
Depends(t) ==
    LET last == CHOOSE i \in DOMAIN conf.groups :
                  /\ conf.groups[i].title = t
                  /\ \A j \in DOMAIN conf.groups : conf.groups[j].title = t => j <= i
    IN  conf.groups[last].depends

\* Mutant of Metadata: requiredBy is left empty.
MetadataForward ==
    [t \in Titles \cup UNION {Depends(q) : q \in Titles} |->
       [pluginName |-> IF t \in Titles THEN t ELSE "",
        dependsOn |-> IF t \in Titles THEN Depends(t) ELSE {},
        requiredBy |-> {}]]

\* The result of loadPluginsMetadata.  Adding requiredBy to a name that no
\* group has creates metadata with an empty name.
Metadata ==
    [t \in Titles \cup UNION {Depends(q) : q \in Titles} |->
       [pluginName |-> IF t \in Titles THEN t ELSE "",
        dependsOn |-> IF t \in Titles THEN Depends(t) ELSE {},
        requiredBy |-> {q \in Titles : t \in Depends(q)}]]

\* parsePluginsConfig and loadPluginsMetadata: without the section there are
\* no groups and filtering stays off, so the map stays empty.
LoadPluginsMetadata ==
    /\ step = "parse"
    /\ IF conf.section /\ ~(Titles \subseteq Found)
       THEN step' = "aborted" /\ UNCHANGED filtered
       ELSE /\ step' = "extra"
            /\ filtered' = IF conf.section THEN Metadata ELSE filtered
    /\ UNCHANGED <<inputs, promises, chains, loaded>>

\* Plugins of the command line replace what the map has for their path.
AddExtraPlugins ==
    /\ step = "extra"
    /\ IF extra \subseteq Files
       THEN /\ step' = "promise"
            /\ filtered' = [n \in DOMAIN filtered \cup extra |->
                              IF n \in extra
                              THEN [pluginName |-> n, dependsOn |-> {}, requiredBy |-> {}]
                              ELSE filtered[n]]
       ELSE step' = "aborted" /\ UNCHANGED filtered
    /\ UNCHANGED <<inputs, promises, chains, loaded>>

\* The loop that fills loadResolvers_, loadPromises_ and their like: no name
\* may come twice.
MakePromises ==
    /\ step = "promise"
    /\ IF \A m, n \in DOMAIN filtered : filtered[m].pluginName = filtered[n].pluginName => m = n
       THEN /\ step' = "chain"
            /\ promises' = {filtered[n].pluginName : n \in DOMAIN filtered}
       ELSE step' = "aborted" /\ UNCHANGED promises
    /\ UNCHANGED <<inputs, filtered, chains, loaded>>

\* Mutant of MakeChains: dependencies are not looked up.
MakeChainsUnchecked ==
    /\ step = "chain"
    /\ step' = "running"
    /\ chains' = promises \ (broken \cup {""})
    /\ UNCHANGED <<inputs, filtered, promises, loaded>>

\* The loop that builds the promise chains: every dependency needs a promise.
\* A plugin that cannot be loaded is skipped, and so is the one without name.
MakeChains ==
    /\ step = "chain"
    /\ IF \A n \in DOMAIN filtered : filtered[n].dependsOn \subseteq promises
       THEN /\ step' = "running"
            /\ chains' = promises \ (broken \cup {""})
       ELSE step' = "aborted" /\ UNCHANGED chains
    /\ UNCHANGED <<inputs, filtered, promises, loaded>>

\* Mutant of Load: a plugin that was skipped is loaded too.
LoadSkipped(p) ==
    /\ step = "running"
    /\ p \in promises \ (loaded \cup {""})
    /\ filtered[p].dependsOn \subseteq loaded
    /\ loaded' = loaded \cup {p}
    /\ UNCHANGED <<inputs, step, filtered, promises, chains>>

\* Mutant of Load: the promise of one dependency is enough.
LoadAny(p) ==
    /\ step = "running"
    /\ p \in chains \ loaded
    /\ filtered[p].dependsOn # {} => filtered[p].dependsOn \cap loaded # {}
    /\ loaded' = loaded \cup {p}
    /\ UNCHANGED <<inputs, step, filtered, promises, chains>>

\* Mutant of Load: only plugins without dependencies are loaded.
LoadParallel(p) ==
    /\ step = "running"
    /\ p \in chains \ loaded
    /\ filtered[p].dependsOn = {}
    /\ loaded' = loaded \cup {p}
    /\ UNCHANGED <<inputs, step, filtered, promises, chains>>

\* The chain of a plugin: load() after the promises of its dependencies, then
\* its own promise.
Load(p) ==
    /\ step = "running"
    /\ p \in chains \ loaded
    /\ filtered[p].dependsOn \subseteq loaded
    /\ loaded' = loaded \cup {p}
    /\ UNCHANGED <<inputs, step, filtered, promises, chains>>

-----------------------------------------------------------------------------
Setup == LoadPluginsMetadata \/ AddExtraPlugins \/ MakePromises \/ MakeChains

Next == Setup \/ \E p \in Names : Load(p)

Spec == Init /\ [][Next]_vars

\* startup() runs to its end and load() of every plugin resolves.
FairSpec == Spec /\ WF_vars(Setup) /\ \A p \in Names : WF_vars(Load(p))

-----------------------------------------------------------------------------
Meta == [pluginName : Names \cup {""}, dependsOn : SUBSET Names, requiredBy : SUBSET Names]

\* Every variable keeps its type.
TypeOK ==
    /\ conf.section \in BOOLEAN
    /\ \A i \in DOMAIN conf.groups : /\ conf.groups[i].title \in Names \cup {NoTitle}
                                     /\ conf.groups[i].depends \subseteq Names
    /\ extra \subseteq Names
    /\ broken \subseteq Names
    /\ step \in {"parse", "extra", "promise", "chain", "running", "aborted"}
    /\ DOMAIN filtered \subseteq Names
    /\ \A n \in DOMAIN filtered : filtered[n] \in Meta
    /\ promises \subseteq Names \cup {""}
    /\ chains \subseteq promises
    /\ loaded \subseteq chains

\* What a configuration asks for that startup cannot give: a title without a
\* plugin, a path without a file, or a dependency that is neither a title nor
\* a path of the command line.
Wanting ==
    \/ ~(extra \subseteq Files)
    \/ /\ conf.section
       /\ \/ ~(Titles \subseteq Found)
          \/ \E t \in Titles \ extra : ~(Depends(t) \subseteq Titles \cup extra \cup {""})

\* startup ends the process for the configurations that ask for what is not
\* there, and for no other: whatever the order and the repetition of groups.
AbortsIffWanting ==
    /\ step = "aborted" => Wanting
    /\ step = "running" => ~Wanting

\* shutdown unloads in the order that requiredBy gives and startup loads in the
\* order that dependsOn gives: one is the inverse of the other, but for a
\* plugin of the command line that others depend on, whose requiredBy is lost.
MetadataIsConsistent ==
    step = "running" =>
      \A p, d \in DOMAIN filtered :
        d \notin extra =>
          (d \in filtered[p].dependsOn <=> filtered[p].pluginName \in filtered[d].requiredBy)

\* Plugins that can never be loaded: each of a set of them cannot be loaded
\* itself or waits for another one of the set.  Cycles are such sets.
Stuck(set) ==
    \A p \in set : p \notin chains \/ filtered[p].dependsOn \cap set # {}

\* No plugin is loaded that depends, however far away, on one that cannot be
\* loaded or on a cycle.
StuckAreNotLoaded ==
    step = "running" =>
      \A set \in SUBSET (DOMAIN filtered) : Stuck(set) => loaded \cap set = {}

\* Every other plugin is loaded in the end: a cycle, a broken plugin or a
\* dependency without a name stops only what depends on it, silently.
OthersAreLoaded ==
    step = "running" ~>
      (DOMAIN filtered \ loaded = UNION {s \in SUBSET (DOMAIN filtered) : Stuck(s)})
=============================================================================
