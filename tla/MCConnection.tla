---------------------------- MODULE MCConnection ----------------------------
(***************************************************************************)
(* Module Connection on small instances.  The configurations differ in how *)
(* many connections are allocated and in what the clients do.              *)
(***************************************************************************)
EXTENDS Connection

\* What the basis library does, read off its use: exclude_not_constructed
\* hides entities in destruction or construction, and a reused entity loses
\* the tag that let it be found and starts its construction again.
MCNotConstructed == {"NeedToDestroy", "DelayedConstruction"}
MCReuseClears == {"Unused", "JustDone"}

MCHttpClients == {"keepalive", "failpoint", "stopFails"}
MCWsClients == {"upgrade", "keepalive", "messages", "send", "plugpoint"}
MCWsReaders == {"upgrade", "keepalive", "send"}
=============================================================================
