---------------------------- MODULE HttpExchange ----------------------------
(***************************************************************************)
(* What a client may rely on: its requests are answered one by one, in the *)
(* order it sent them, each answer being one that the request admits.  An  *)
(* answer that does not keep the connection is the last one; the exchange  *)
(* may also end at any time without one.                                   *)
(***************************************************************************)
EXTENDS Naturals, Sequences

CONSTANTS
    Requests,    \* what the client may ask for
    Responses    \* answers of the protocol

VARIABLES
    asked,      \* requests, in the order in which they were sent
    answered,   \* complete answers
    over        \* the exchange has ended

exchange == <<asked, answered, over>>

\* What the server serves: files below the root, by GET and HEAD.
Served(r) ==
    /\ r.method \in {"get", "head"}
    /\ r.target # << >>
    /\ r.target[1] = "/"
    /\ ".." \notin {r.target[i] : i \in DOMAIN r.target}

\* The answers that a request admits.
Admits(r, a) ==
    /\ a.keep_alive = r.keep_alive
    /\ IF Served(r) THEN a.status \in {"ok", "not_found", "internal_server_error"}
       ELSE a.status = "bad_request"
    /\ a.status = "ok" => a.body = (r.method = "get")

Init ==
    /\ asked = << >>
    /\ answered = << >>
    /\ over = FALSE

Ask ==
    /\ ~over
    /\ \E r \in Requests : asked' = Append(asked, r)
    /\ UNCHANGED <<answered, over>>

\* A request that is an upgrade, or that cannot be read, is not answered.
Answer ==
    /\ ~over
    /\ Len(answered) < Len(asked)
    /\ LET r == asked[Len(answered) + 1]
       IN  /\ r.readable /\ ~r.upgrade
           /\ \E a \in Responses : /\ Admits(r, a)
                                  /\ answered' = Append(answered, a)
                                  /\ over' = ~a.keep_alive
    /\ UNCHANGED asked

End ==
    /\ ~over
    /\ over' = TRUE
    /\ UNCHANGED <<asked, answered>>

Next == Ask \/ Answer \/ End

Spec == Init /\ [][Next]_exchange
=============================================================================
