------------------------ MODULE PluginConfig_proofs ------------------------
(***************************************************************************)
(* Proofs about the start of the plugin manager, for every configuration   *)
(* file, every command line and any plugins that cannot be loaded.         *)
(***************************************************************************)
EXTENDS PluginConfig, SequenceTheorems, WellFoundedInduction, TLAPS

-----------------------------------------------------------------------------
(***************************************************************************)
(* What the configuration says.                                            *)
(***************************************************************************)
\* The file and the command line are admissible.
Inputs == conf \in Configs /\ extra \in CommandLines /\ broken \in Unloadables

\* A set of positions of a sequence has a last one.
LEMMA LastPosition ==
  ASSUME NEW n \in Nat, NEW T \in SUBSET (1..n), T # {}
  PROVE  \E i \in T : \A j \in T : j <= i
<1> DEFINE Back == {n - i : i \in T}
<1>1. Back \subseteq Nat /\ Back # {}
  <2>1. \A i \in T : n - i \in Nat
    OBVIOUS
  <2>. QED
    BY <2>1
<1> DEFINE Less == OpToRel(<, Nat)
<1>2. PICK x \in Back : \A y \in Back : ~(<<y, x>> \in Less)
  <2>1. IsWellFoundedOn(Less, Nat)
    BY NatLessThanWellFounded
  <2> HIDE DEF Less
  <2>. QED
    BY <1>1, <2>1, WFMin
<1>3. \A y \in Back : x <= y
  <2> SUFFICES ASSUME NEW y \in Back, y < x PROVE FALSE
    BY <1>1
  <2>1. <<y, x>> \in Less
    BY <1>1 DEF OpToRel
  <2>. QED
    BY <1>2, <2>1
<1>4. PICK i \in T : x = n - i
  OBVIOUS
<1>5. ASSUME NEW j \in T PROVE j <= i
  <2>1. n - i <= n - j
    BY <1>3, <1>4
  <2>. QED
    BY <2>1
<1>. QED
  BY <1>5

\* Titles and dependencies are names.
LEMMA ConfigNames ==
  ASSUME Inputs
  PROVE  /\ conf.section \in BOOLEAN
         /\ \A i \in DOMAIN conf.groups : /\ conf.groups[i].title \in Names \cup {NoTitle}
                                          /\ conf.groups[i].depends \subseteq Names
         /\ Titles \subseteq Names
         /\ \A t \in Titles : Depends(t) \subseteq Names
         /\ extra \subseteq Names /\ broken \subseteq Names
<1>1. /\ conf.section \in BOOLEAN
      /\ conf.groups \in Seq([title : Names \cup {NoTitle}, depends : SUBSET Names])
      /\ extra \subseteq Names /\ broken \subseteq Names
  BY PluginConfigAssumption DEF Inputs
<1>2. /\ DOMAIN conf.groups = 1..Len(conf.groups) /\ Len(conf.groups) \in Nat
      /\ \A i \in DOMAIN conf.groups : /\ conf.groups[i].title \in Names \cup {NoTitle}
                                       /\ conf.groups[i].depends \subseteq Names
  <2>1. \A i \in 1..Len(conf.groups) :
          conf.groups[i] \in [title : Names \cup {NoTitle}, depends : SUBSET Names]
    BY <1>1, ElementOfSeq
  <2>2. /\ DOMAIN conf.groups = 1..Len(conf.groups) /\ Len(conf.groups) \in Nat
    BY <1>1
  <2>. QED
    BY <2>1, <2>2
<1>3. Titles \subseteq Names
  BY <1>2 DEF Titles
<1>4. ASSUME NEW t \in Titles PROVE Depends(t) \subseteq Names
  <2> DEFINE T == {i \in DOMAIN conf.groups : conf.groups[i].title = t}
             P(i) == /\ conf.groups[i].title = t
                     /\ \A j \in DOMAIN conf.groups : conf.groups[j].title = t => j <= i
  <2>1. T # {} /\ T \in SUBSET (1..Len(conf.groups))
    BY <1>2 DEF Titles
  <2>2. \E i \in T : \A j \in T : j <= i
    BY <1>2, <2>1, LastPosition
  <2>3. \E i \in DOMAIN conf.groups : P(i)
    BY <2>2
  <2>4. (CHOOSE i \in DOMAIN conf.groups : P(i)) \in DOMAIN conf.groups
    BY <2>3
  <2>5. Depends(t) = conf.groups[CHOOSE i \in DOMAIN conf.groups : P(i)].depends
    BY DEF Depends
  <2> HIDE DEF P
  <2>. QED
    BY <1>2, <2>4, <2>5
<1>. QED
  BY <1>1, <1>2, <1>3, <1>4

-----------------------------------------------------------------------------
(***************************************************************************)
(* The map of metadata.                                                    *)
(***************************************************************************)
\* An entry of the map that the file gives.
LEMMA MetadataEntry ==
  ASSUME NEW n \in DOMAIN Metadata
  PROVE  \E name, needs, by :
           /\ Metadata[n] = [pluginName |-> name, dependsOn |-> needs, requiredBy |-> by]
           /\ n \in Titles => name = n /\ needs = Depends(n)
           /\ n \notin Titles => name = "" /\ needs = {}
           /\ by = {q \in Titles : n \in Depends(q)}
<1> DEFINE name == IF n \in Titles THEN n ELSE ""
           needs == IF n \in Titles THEN Depends(n) ELSE {}
           by == {q \in Titles : n \in Depends(q)}
<1>1. Metadata[n] = [pluginName |-> name, dependsOn |-> needs, requiredBy |-> by]
  BY Zenon DEF Metadata
<1>2. /\ n \in Titles => name = n /\ needs = Depends(n)
      /\ n \notin Titles => name = "" /\ needs = {}
      /\ by = {q \in Titles : n \in Depends(q)}
  BY Zenon
<1> HIDE DEF name, needs, by
<1>. QED
  BY <1>1, <1>2, Zenon

\* The map after plugins.conf, and after the plugins of the command line.
Parsed == IF conf.section THEN Metadata ELSE << >>

Complete ==
    [n \in DOMAIN Parsed \cup extra |->
       IF n \in extra THEN [pluginName |-> n, dependsOn |-> {}, requiredBy |-> {}]
       ELSE Parsed[n]]

\* What the groups of the file say, if it has the section.
FileTitles == IF conf.section THEN Titles ELSE {}

\* The map, entry by entry.
LEMMA CompleteFacts ==
  ASSUME Inputs
  PROVE  /\ \A n : n \in DOMAIN Complete <=>
              n \in FileTitles \/ n \in extra \/ \E q \in FileTitles : n \in Depends(q)
         /\ \A n \in extra :
              /\ Complete[n].pluginName = n
              /\ Complete[n].dependsOn = {}
         /\ \A n \in DOMAIN Complete \ extra :
              /\ n \in FileTitles => Complete[n].pluginName = n /\ Complete[n].dependsOn = Depends(n)
              /\ n \notin FileTitles => Complete[n].pluginName = "" /\ Complete[n].dependsOn = {}
              /\ Complete[n].requiredBy = {q \in FileTitles : n \in Depends(q)}
<1>1. ASSUME NEW n
      PROVE  n \in DOMAIN Parsed <=> n \in FileTitles \/ \E q \in FileTitles : n \in Depends(q)
  BY DEF Parsed, FileTitles, Metadata
<1>2. ASSUME NEW n \in DOMAIN Parsed
      PROVE  /\ n \in FileTitles => Parsed[n].pluginName = n /\ Parsed[n].dependsOn = Depends(n)
             /\ n \notin FileTitles => Parsed[n].pluginName = "" /\ Parsed[n].dependsOn = {}
             /\ Parsed[n].requiredBy = {q \in FileTitles : n \in Depends(q)}
  <2>1. FileTitles = Titles /\ Parsed = Metadata
    <3>1. DOMAIN << >> = {}
      OBVIOUS
    <3>. QED
      BY <1>2, <3>1 DEF FileTitles, Parsed
  <2>2. PICK name, needs, by :
          /\ Metadata[n] = [pluginName |-> name, dependsOn |-> needs, requiredBy |-> by]
          /\ n \in Titles => name = n /\ needs = Depends(n)
          /\ n \notin Titles => name = "" /\ needs = {}
          /\ by = {q \in Titles : n \in Depends(q)}
    BY <1>2, <2>1, MetadataEntry
  <2>3. Metadata[n].pluginName = name /\ Metadata[n].dependsOn = needs /\ Metadata[n].requiredBy = by
    <3>1. Metadata[n] = [pluginName |-> name, dependsOn |-> needs, requiredBy |-> by]
      BY <2>2
    <3>. QED
      BY ONLY <3>1
  <2>. QED
    BY <2>1, <2>2, <2>3, Zenon
<1>3. DOMAIN Complete = DOMAIN Parsed \cup extra
  BY DEF Complete
<1>4. \A n \in DOMAIN Complete \ extra : Complete[n] = Parsed[n] /\ n \in DOMAIN Parsed
  BY DEF Complete
<1>5. ASSUME NEW n \in extra PROVE Complete[n].pluginName = n /\ Complete[n].dependsOn = {}
  BY <1>5 DEF Complete
<1>. QED
  <2>1. \A n : n \in DOMAIN Complete <=>
          n \in FileTitles \/ n \in extra \/ \E q \in FileTitles : n \in Depends(q)
    BY <1>1, <1>3
  <2>2. ASSUME NEW n \in DOMAIN Complete \ extra
        PROVE  /\ n \in FileTitles => Complete[n].pluginName = n /\ Complete[n].dependsOn = Depends(n)
               /\ n \notin FileTitles => Complete[n].pluginName = "" /\ Complete[n].dependsOn = {}
               /\ Complete[n].requiredBy = {q \in FileTitles : n \in Depends(q)}
    <3>1. Complete[n] = Parsed[n] /\ n \in DOMAIN Parsed
      BY <1>4, <2>2
    <3>. QED
      BY <1>2, <3>1, Zenon
  <2>. QED
    BY <1>5, <2>1, <2>2, Zenon

\* The names of the plugins.
LEMMA CompleteNames ==
  ASSUME Inputs, NEW k \in DOMAIN Complete
  PROVE  Complete[k].pluginName = IF k \in FileTitles \cup extra THEN k ELSE ""
BY CompleteFacts

\* Both maps are well typed.
LEMMA MapTypes ==
  ASSUME Inputs
  PROVE  /\ DOMAIN Parsed \subseteq Names /\ \A n \in DOMAIN Parsed : Parsed[n] \in Meta
         /\ DOMAIN Complete \subseteq Names /\ \A n \in DOMAIN Complete : Complete[n] \in Meta
<1>1. Titles \subseteq Names /\ (\A t \in Titles : Depends(t) \subseteq Names) /\ extra \subseteq Names
  BY ConfigNames
<1>2. DOMAIN Parsed \subseteq Names /\ \A n \in DOMAIN Parsed : Parsed[n] \in Meta
  <2>1. DOMAIN Metadata \subseteq Names
    BY <1>1 DEF Metadata
  <2>2. ASSUME NEW n \in DOMAIN Metadata PROVE Metadata[n] \in Meta
    <3>1. PICK name, needs, by :
            /\ Metadata[n] = [pluginName |-> name, dependsOn |-> needs, requiredBy |-> by]
            /\ n \in Titles => name = n /\ needs = Depends(n)
            /\ n \notin Titles => name = "" /\ needs = {}
            /\ by = {q \in Titles : n \in Depends(q)}
      BY <2>2, MetadataEntry
    <3>2. name \in Names \cup {""} /\ needs \in SUBSET Names /\ by \in SUBSET Names
      BY <1>1, <3>1
    <3>3. Metadata[n] = [pluginName |-> name, dependsOn |-> needs, requiredBy |-> by]
      BY <3>1
    <3>4. [pluginName |-> name, dependsOn |-> needs, requiredBy |-> by] \in Meta
      BY ONLY <3>2 DEF Meta
    <3>. QED
      BY ONLY <3>3, <3>4
  <2>3. DOMAIN << >> = {}
    OBVIOUS
  <2>. QED
    BY <2>1, <2>2, <2>3 DEF Parsed
<1>3. DOMAIN Complete \subseteq Names
  BY <1>1, <1>2 DEF Complete
<1>4. ASSUME NEW n \in DOMAIN Complete PROVE Complete[n] \in Meta
  <2>1. CASE n \in extra
    BY <1>1, <2>1 DEF Complete, Meta
  <2>2. CASE n \notin extra
    BY <1>2, <2>2 DEF Complete
  <2>. QED
    BY <2>1, <2>2
<1>. QED
  BY <1>2, <1>3, <1>4

-----------------------------------------------------------------------------
(***************************************************************************)
(* The inductive invariant: what startup has established at each step.     *)
(***************************************************************************)
Distinct == \A m, n \in DOMAIN filtered : filtered[m].pluginName = filtered[n].pluginName => m = n

Progress ==
    /\ step = "parse" => filtered = << >>
    /\ step = "extra" => filtered = Parsed
    /\ step \in {"extra", "promise", "chain", "running"} => FileTitles \subseteq Found
    /\ step \in {"promise", "chain", "running"} => extra \subseteq Files /\ filtered = Complete
    /\ step \in {"chain", "running"} =>
         Distinct /\ promises = {filtered[n].pluginName : n \in DOMAIN filtered}
    /\ step # "running" => chains = {} /\ loaded = {}

IInv == Inputs /\ TypeOK /\ Progress /\ AbortsIffWanting /\ StuckAreNotLoaded

\* Nothing was read yet.
LEMMA InitIInv == Init => IInv
<1> SUFFICES ASSUME Init PROVE IInv
  OBVIOUS
<1>1. Inputs
  BY DEF Init, Inputs
<1>2. TypeOK
  BY <1>1, ConfigNames DEF Init, TypeOK
<1>3. Progress /\ AbortsIffWanting /\ StuckAreNotLoaded
  BY DEF Init, Progress, AbortsIffWanting, StuckAreNotLoaded
<1>. QED
  BY <1>1, <1>2, <1>3 DEF IInv

\* What depends on the input alone.
LEMMA InputsKept ==
  ASSUME UNCHANGED inputs
  PROVE  /\ Parsed' = Parsed /\ Complete' = Complete /\ FileTitles' = FileTitles
         /\ Wanting' = Wanting /\ (Inputs => Inputs')
<1>1. Titles' = Titles /\ \A t : Depends(t)' = Depends(t)
  BY DEF inputs, Titles, Depends
<1>2. Metadata' = Metadata
  BY <1>1 DEF Metadata
<1>3. Parsed' = Parsed /\ FileTitles' = FileTitles
  BY <1>1, <1>2 DEF Parsed, FileTitles, inputs
<1>4. Complete' = Complete
  BY <1>3 DEF Complete, inputs
<1>5. Wanting' = Wanting
  BY <1>1 DEF Wanting, Found, inputs
<1>. QED
  BY <1>3, <1>4, <1>5 DEF Inputs, inputs

\* A title is not the path of a file, and a name without metadata of its own
\* is a dependency that startup cannot give.
LEMMA UnknownIsWanting ==
  ASSUME Inputs, FileTitles \subseteq Found, extra \subseteq Files,
         NEW d \in DOMAIN Complete, d \notin FileTitles, d \notin extra, d # ""
  PROVE  Wanting
<1>1. PICK q \in FileTitles : d \in Depends(q)
  BY CompleteFacts
<1>2. conf.section /\ q \in Titles /\ FileTitles = Titles
  BY <1>1 DEF FileTitles
<1>3. q \notin extra
  BY <1>1, NamesAreNotPaths DEF Found
<1>. QED
  BY <1>1, <1>2, <1>3 DEF Wanting

\* The first block of startup.
LEMMA LoadPluginsMetadataIInv ==
  ASSUME IInv, LoadPluginsMetadata
  PROVE  IInv'
<1>0. step = "parse" /\ UNCHANGED <<inputs, promises, chains, loaded>> /\ chains = {} /\ loaded = {}
  BY DEF LoadPluginsMetadata, IInv, Progress
<1>1. /\ Inputs' /\ Parsed' = Parsed /\ FileTitles' = FileTitles /\ Wanting' = Wanting /\ Inputs
  BY <1>0, InputsKept DEF IInv
<1>2. CASE conf.section /\ ~(Titles \subseteq Found)
  <2>1. step' = "aborted" /\ filtered' = filtered
    BY <1>2 DEF LoadPluginsMetadata
  <2>2. Wanting
    BY <1>2 DEF Wanting
  <2>3. TypeOK'
    BY <1>0, <2>1 DEF IInv, TypeOK, inputs
  <2>. QED
    BY <1>0, <1>1, <2>1, <2>2, <2>3 DEF IInv, Progress, AbortsIffWanting, StuckAreNotLoaded
<1>3. CASE ~(conf.section /\ ~(Titles \subseteq Found))
  <2>1. step' = "extra" /\ filtered' = Parsed
    <3>1. step' = "extra" /\ filtered' = IF conf.section THEN Metadata ELSE filtered
      BY <1>3 DEF LoadPluginsMetadata
    <3>. QED
      BY <1>0, <3>1 DEF IInv, Progress, Parsed
  <2>2. FileTitles \subseteq Found
    BY <1>3 DEF FileTitles
  <2>3. TypeOK'
    BY <1>0, <1>1, <2>1, MapTypes DEF IInv, TypeOK, inputs
  <2>4. Progress'
    BY <1>0, <1>1, <2>1, <2>2 DEF Progress, Found
  <2>. QED
    BY <1>1, <2>1, <2>3, <2>4 DEF IInv, AbortsIffWanting, StuckAreNotLoaded
<1>. QED
  BY <1>2, <1>3

\* The plugins of the command line.
LEMMA AddExtraPluginsIInv ==
  ASSUME IInv, AddExtraPlugins
  PROVE  IInv'
<1>0. step = "extra" /\ UNCHANGED <<inputs, promises, chains, loaded>> /\ chains = {} /\ loaded = {}
  BY DEF AddExtraPlugins, IInv, Progress
<1>1. /\ Inputs' /\ Complete' = Complete /\ FileTitles' = FileTitles /\ Wanting' = Wanting /\ Inputs
  BY <1>0, InputsKept DEF IInv
<1>2. CASE ~(extra \subseteq Files)
  <2>1. step' = "aborted" /\ filtered' = filtered /\ Wanting
    BY <1>2 DEF AddExtraPlugins, Wanting
  <2>2. TypeOK'
    BY <1>0, <2>1 DEF IInv, TypeOK, inputs
  <2>. QED
    BY <1>0, <1>1, <2>1, <2>2 DEF IInv, Progress, AbortsIffWanting, StuckAreNotLoaded
<1>3. CASE extra \subseteq Files
  <2>1. step' = "promise" /\ filtered' = Complete
    BY <1>0, <1>3 DEF AddExtraPlugins, IInv, Progress, Complete
  <2>2. TypeOK'
    BY <1>0, <1>1, <2>1, MapTypes DEF IInv, TypeOK, inputs
  <2>3. Progress'
    BY <1>0, <1>1, <1>3, <2>1 DEF IInv, Progress, inputs
  <2>. QED
    BY <1>1, <2>1, <2>2, <2>3 DEF IInv, AbortsIffWanting, StuckAreNotLoaded
<1>. QED
  BY <1>2, <1>3

\* Two entries of the map with one name: one of them has no group.
LEMMA MakePromisesIInv ==
  ASSUME IInv, MakePromises
  PROVE  IInv'
<1>0. /\ step = "promise" /\ UNCHANGED <<inputs, filtered, chains, loaded>> /\ chains = {} /\ loaded = {}
      /\ filtered = Complete /\ FileTitles \subseteq Found /\ extra \subseteq Files
  BY DEF MakePromises, IInv, Progress
<1>1. /\ Inputs' /\ Complete' = Complete /\ FileTitles' = FileTitles /\ Wanting' = Wanting /\ Inputs
  BY <1>0, InputsKept DEF IInv
<1>2. CASE ~Distinct
  <2>1. step' = "aborted" /\ promises' = promises
    BY <1>2 DEF MakePromises, Distinct
  <2>2. PICK m \in DOMAIN Complete, n \in DOMAIN Complete :
          Complete[m].pluginName = Complete[n].pluginName /\ m # n
    BY <1>0, <1>2 DEF Distinct
  <2>3. \A k \in DOMAIN Complete :
          Complete[k].pluginName = IF k \in FileTitles \cup extra THEN k ELSE ""
    BY <1>1, CompleteNames
  <2>5. \E d \in {m, n} : d \notin FileTitles /\ d \notin extra /\ d # ""
    BY <2>2, <2>3
  <2>6. Wanting
    BY <1>0, <1>1, <2>5, UnknownIsWanting
  <2>7. TypeOK'
    BY <1>0, <2>1 DEF IInv, TypeOK, inputs
  <2>. QED
    BY <1>0, <1>1, <2>1, <2>6, <2>7 DEF IInv, Progress, AbortsIffWanting, StuckAreNotLoaded
<1>3. CASE Distinct
  <2>1. step' = "chain" /\ promises' = {filtered[n].pluginName : n \in DOMAIN filtered}
    BY <1>3 DEF MakePromises, Distinct
  <2>2. promises' \subseteq Names \cup {""}
    BY <2>1 DEF IInv, TypeOK, Meta
  <2>3. chains = {}
    BY <1>0 DEF IInv, Progress
  <2>4. TypeOK'
    BY <1>0, <2>1, <2>2, <2>3 DEF IInv, TypeOK, inputs
  <2>5. Distinct'
    BY <1>0, <1>3 DEF Distinct
  <2>6. Progress'
    BY <1>0, <1>1, <2>1, <2>5 DEF Progress, inputs, Found
  <2>. QED
    BY <1>1, <2>1, <2>4, <2>6 DEF IInv, AbortsIffWanting, StuckAreNotLoaded
<1>. QED
  BY <1>2, <1>3

\* Every dependency has a promise exactly if none is missing.
LEMMA MakeChainsIInv ==
  ASSUME IInv, MakeChains
  PROVE  IInv'
<1>0. /\ step = "chain" /\ UNCHANGED <<inputs, filtered, promises, loaded>>
      /\ chains = {} /\ loaded = {} /\ filtered = Complete
      /\ FileTitles \subseteq Found /\ extra \subseteq Files /\ Distinct
      /\ promises = {filtered[n].pluginName : n \in DOMAIN filtered}
  BY DEF MakeChains, IInv, Progress
<1>1. /\ Inputs' /\ Complete' = Complete /\ FileTitles' = FileTitles /\ Wanting' = Wanting /\ Inputs
  BY <1>0, InputsKept DEF IInv
<1>2. CASE ~ \A n \in DOMAIN filtered : filtered[n].dependsOn \subseteq promises
  <2>1. step' = "aborted" /\ chains' = chains
    BY <1>2 DEF MakeChains
  <2>2. PICK n \in DOMAIN Complete : \E d \in Complete[n].dependsOn : d \notin promises
    BY <1>0, <1>2
  <2> PICK d \in Complete[n].dependsOn : d \notin promises
    BY <2>2
  <2>3. n \in FileTitles /\ d \in Depends(n)
    BY <1>1, <2>2, CompleteFacts
  <2>4. d \in DOMAIN Complete
    BY <1>1, <2>3, CompleteFacts
  <2>5. Complete[d].pluginName \in promises
    BY <1>0, <2>4
  <2>6. d \notin FileTitles /\ d \notin extra /\ d # ""
    BY <1>1, <2>2, <2>4, <2>5, CompleteNames
  <2>7. Wanting
    BY <1>0, <1>1, <2>4, <2>6, UnknownIsWanting
  <2>8. TypeOK'
    BY <1>0, <2>1 DEF IInv, TypeOK, inputs
  <2>. QED
    BY <1>0, <1>1, <2>1, <2>7, <2>8 DEF IInv, Progress, AbortsIffWanting, StuckAreNotLoaded
<1>3. CASE \A n \in DOMAIN filtered : filtered[n].dependsOn \subseteq promises
  <2>1. step' = "running" /\ chains' = promises \ (broken \cup {""})
    BY <1>3 DEF MakeChains
  <2>2. promises \subseteq FileTitles \cup extra \cup {""}
    <3> SUFFICES ASSUME NEW n \in DOMAIN Complete
                 PROVE  Complete[n].pluginName \in FileTitles \cup extra \cup {""}
      BY <1>0
    <3>. QED
      BY <1>1, CompleteNames
  <2>3. ~Wanting
    <3>1. ASSUME conf.section, NEW t \in Titles \ extra
          PROVE  Depends(t) \subseteq Titles \cup extra \cup {""}
      <4>1. t \in FileTitles /\ FileTitles = Titles
        BY <3>1 DEF FileTitles
      <4>2. t \in DOMAIN Complete /\ Complete[t].dependsOn = Depends(t)
        BY <1>1, <3>1, <4>1, CompleteFacts
      <4>. QED
        BY <1>0, <1>3, <2>2, <4>1, <4>2
    <3>2. conf.section => Titles \subseteq Found
      BY <1>0 DEF FileTitles
    <3>. QED
      BY <1>0, <3>1, <3>2 DEF Wanting
  <2>4. TypeOK'
    BY <1>0, <2>1 DEF IInv, TypeOK, inputs
  <2>5. Distinct'
    BY <1>0 DEF Distinct
  <2>6. Progress'
    BY <1>0, <1>1, <2>1, <2>5 DEF Progress, inputs, Found
  <2>7. AbortsIffWanting'
    BY <1>1, <2>1, <2>3 DEF AbortsIffWanting
  <2>8. StuckAreNotLoaded'
    BY <1>0 DEF StuckAreNotLoaded
  <2>. QED
    BY <1>1, <2>4, <2>6, <2>7, <2>8 DEF IInv
<1>. QED
  BY <1>2, <1>3

\* A plugin of a set that is stuck waits for another one of the set.
LEMMA LoadIInv ==
  ASSUME IInv, NEW p \in Names, Load(p)
  PROVE  IInv'
<1>0. /\ step = "running" /\ step' = step /\ UNCHANGED <<inputs, filtered, promises, chains>>
      /\ p \in chains /\ filtered[p].dependsOn \subseteq loaded /\ loaded' = loaded \cup {p}
  BY DEF Load
<1>1. /\ Inputs' /\ Complete' = Complete /\ FileTitles' = FileTitles /\ Wanting' = Wanting
  BY <1>0, InputsKept DEF IInv
<1>2. TypeOK'
  BY <1>0 DEF IInv, TypeOK, inputs
<1>3. Distinct' = Distinct
  BY <1>0 DEF Distinct
<1>4. Progress'
  BY <1>0, <1>1, <1>3 DEF IInv, Progress, inputs, Found
<1>5. AbortsIffWanting'
  BY <1>0, <1>1 DEF IInv, AbortsIffWanting
<1>6. StuckAreNotLoaded'
  <2> SUFFICES ASSUME NEW set \in SUBSET (DOMAIN filtered), Stuck(set)
               PROVE  loaded' \cap set = {}
    BY <1>0 DEF StuckAreNotLoaded, Stuck
  <2>1. loaded \cap set = {}
    BY <1>0 DEF IInv, StuckAreNotLoaded
  <2>2. p \notin set
    <3> SUFFICES ASSUME p \in set PROVE FALSE
      OBVIOUS
    <3>1. filtered[p].dependsOn \cap set # {}
      BY <1>0 DEF Stuck
    <3>. QED
      BY <1>0, <2>1, <3>1
  <2>. QED
    BY <1>0, <2>1, <2>2
<1>. QED
  BY <1>1, <1>2, <1>4, <1>5, <1>6 DEF IInv

\* Every step preserves the invariant.
LEMMA NextIInv == IInv /\ [Next]_vars => IInv'
<1>1. ASSUME IInv, UNCHANGED vars PROVE IInv'
  <2>1. /\ Inputs' /\ Parsed' = Parsed /\ Complete' = Complete /\ FileTitles' = FileTitles
        /\ Wanting' = Wanting
    BY <1>1, InputsKept DEF IInv, vars, inputs
  <2>2. TypeOK' /\ AbortsIffWanting' /\ StuckAreNotLoaded'
    BY <1>1, <2>1 DEF IInv, TypeOK, AbortsIffWanting, StuckAreNotLoaded, Stuck, vars
  <2>3. Distinct' = Distinct
    BY <1>1 DEF Distinct, vars
  <2>4. Progress'
    BY <1>1, <2>1, <2>3 DEF IInv, Progress, Found, vars
  <2>. QED
    BY <2>1, <2>2, <2>4 DEF IInv
<1>. QED
  BY <1>1, LoadPluginsMetadataIInv, AddExtraPluginsIInv, MakePromisesIInv, MakeChainsIInv,
     LoadIInv DEF Next, Setup

\* The invariant is inductive.
THEOREM Inductive == Spec => []IInv
BY InitIInv, NextIInv, PTL DEF Spec

\* The variables keep their types for every file and every command line.
THEOREM TypeCorrect == Spec => []TypeOK
BY Inductive, PTL DEF IInv

\* startup ends the process exactly for the configurations that ask for
\* something that is not there.
THEOREM AbortsCorrect == Spec => []AbortsIffWanting
BY Inductive, PTL DEF IInv

\* A cycle, or a plugin that cannot be loaded, keeps everything that depends
\* on it from being loaded.
THEOREM StuckCorrect == Spec => []StuckAreNotLoaded
BY Inductive, PTL DEF IInv

\* The order of unloading is the inverse of the order of loading, but for
\* plugins of the command line.
THEOREM MetadataCorrect == Spec => []MetadataIsConsistent
<1>1. IInv => MetadataIsConsistent
  <2> SUFFICES ASSUME IInv, step = "running",
                      NEW p \in DOMAIN filtered, NEW d \in DOMAIN filtered, d \notin extra
               PROVE  d \in filtered[p].dependsOn <=> filtered[p].pluginName \in filtered[d].requiredBy
    BY DEF MetadataIsConsistent
  <2>1. /\ Inputs /\ filtered = Complete /\ Distinct /\ FileTitles \subseteq Found /\ extra \subseteq Files
    BY DEF IInv, Progress
  <2>2. filtered[d].requiredBy = {q \in FileTitles : d \in Depends(q)}
    BY <2>1, CompleteFacts
  <2>3. CASE p \in extra
    <3>1. p \notin FileTitles
      BY <2>1, <2>3, NamesAreNotPaths DEF Found
    <3>2. filtered[p].pluginName = p /\ filtered[p].dependsOn = {}
      BY <2>1, <2>3, CompleteFacts
    <3>. QED
      BY <2>2, <3>1, <3>2
  <2>4. CASE p \in FileTitles \ extra
    <3>1. filtered[p].pluginName = p /\ filtered[p].dependsOn = Depends(p)
      BY <2>1, <2>4, CompleteFacts
    <3>. QED
      BY <2>2, <2>4, <3>1
  <2>5. CASE p \notin FileTitles \cup extra
    <3>1. filtered[p].pluginName = "" /\ filtered[p].dependsOn = {}
      BY <2>1, <2>5, CompleteFacts
    <3>2. "" \notin FileTitles
      <4> SUFFICES ASSUME "" \in FileTitles PROVE FALSE
        OBVIOUS
      <4>1. "" \in DOMAIN filtered /\ filtered[""].pluginName = ""
        BY <2>1, CompleteFacts, CompleteNames
      <4>2. p = ""
        BY <2>1, <3>1, <4>1 DEF Distinct
      <4>. QED
        BY <2>5, <4>2
    <3>. QED
      BY <2>2, <3>1, <3>2
  <2>. QED
    BY <2>3, <2>4, <2>5
<1>. QED
  BY <1>1, Inductive, PTL
=============================================================================
