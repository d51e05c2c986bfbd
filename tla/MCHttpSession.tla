--------------------------- MODULE MCHttpSession ---------------------------
(***************************************************************************)
(* Module HttpSession for a client that sends up to three requests.        *)
(***************************************************************************)
EXTENDS HttpSession

\* One request of each kind that handleRequest and onRead tell apart.
MCRequest(method, target, keep) ==
    [method |-> method, target |-> target, keep_alive |-> keep, upgrade |-> FALSE,
     readable |-> TRUE]

MCPage == << "/", "page", ".html" >>

MCRequests ==
    {MCRequest("get", MCPage, TRUE), MCRequest("get", MCPage, FALSE),
     MCRequest("head", << "/" >>, TRUE),
     MCRequest("head", << "/", "..", "page" >>, TRUE),
     MCRequest("get", << "page" >>, TRUE), MCRequest("other", << >>, FALSE),
     [MCRequest("get", << "/" >>, TRUE) EXCEPT !.upgrade = TRUE],
     [MCRequest("get", << "/" >>, TRUE) EXCEPT !.readable = FALSE]}
=============================================================================
