---------------------------- MODULE StateMachine ----------------------------
(***************************************************************************)
(* The transition table that AppState and Listener share: fillStateTran-   *)
(* sitionTable of each has the same entries.  In PAUSED there is no START, *)
(* although the diagrams beside both tables draw one; SUSPENDED is not in  *)
(* the tables at all.                                                      *)
(***************************************************************************)

\* TransitionTable[state][event] is the next state.
TransitionTable ==
    [UNINITIALIZED |-> [START |-> "STARTED", TERMINATE |-> "TERMINATED", FAULT |-> "FAILED"],
     STARTED |-> [PAUSE |-> "PAUSED", TERMINATE |-> "TERMINATED", FAULT |-> "FAILED"],
     PAUSED |-> [TERMINATE |-> "TERMINATED", FAULT |-> "FAILED"],
     TERMINATED |-> [TERMINATE |-> "TERMINATED", FAULT |-> "FAILED"],
     FAILED |-> [FAULT |-> "FAILED"]]

\* processStateChange: an event without a transition is logged and refused.
ProcessEvent(state, event) ==
    IF event \in DOMAIN TransitionTable[state] THEN TransitionTable[state][event] ELSE state
=============================================================================
