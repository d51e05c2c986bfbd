--------------------------- MODULE MCPluginConfig ---------------------------
(***************************************************************************)
(* Module PluginConfig for files with up to three groups: two plugins that *)
(* exist, a path that may be given on the command line, and dependencies   *)
(* without a value.                                                        *)
(***************************************************************************)
EXTENDS PluginConfig, FiniteSets

MCDepends == {"A", "B", "/E.so", ""}
MCNames == MCDepends \cup {"/missing.so"}

MCGroups ==
    [title : {"A", "B"}, depends : {d \in SUBSET MCDepends : Cardinality(d) <= 2}]
      \cup [title : {"NoTitle", "/E.so"}, depends : {{}}]

MCConfigs ==
    [section : {TRUE}, groups : UNION {[1..n -> MCGroups] : n \in 0..3}]
      \cup {[section |-> FALSE, groups |-> << >>]}

MCCommandLines == {{}, {"/E.so"}, {"/missing.so"}}
MCUnloadables == {{}, {"A"}}
=============================================================================
