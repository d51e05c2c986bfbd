---------------------------- MODULE HttpMessages ----------------------------
(***************************************************************************)
(* What HttpChannel answers to one request: handleRequest and what it      *)
(* uses, as operators.                                                     *)
(*                                                                         *)
(* A request target, a file path and a file suffix are sequences of        *)
(* tokens: "/" separates, ".." is the parent directory, ".html" a suffix,  *)
(* anything else a name.  The text of a body is left out; its length is 0  *)
(* or 1, which is all that framing tells apart.                            *)
(***************************************************************************)
EXTENDS Naturals, Sequences

\* Verbs that differ for handleRequest; "other" is any other one.
Method == {"get", "head", "other"}

\* What fileBody.open may report, and the size of a file that was opened.
Opened ==
    {[ec |-> "no_such_file", size |-> 0], [ec |-> "denied", size |-> 0],
     [ec |-> "ok", size |-> 0], [ec |-> "ok", size |-> 1]}

\* Append an HTTP rel-path to a local filesystem path: a separator at the end
\* of the base is removed.
PathConcat(base, path) ==
    IF base # << >> /\ base[Len(base)] = "/"
    THEN SubSeq(base, 1, Len(base) - 1) \o path
    ELSE base \o path

DocRoot == << "/" >>

\* Path of the requested file; a directory stands for its index.html.
FilePath(target) ==
    LET path == PathConcat(DocRoot, target)
    IN  IF target[Len(target)] = "/" THEN path \o << "index", ".html" >> ELSE path

\* mime_types_: suffixes with a type of their own (three of the table's).
MimeTypes == {<< << ".html" >>, "text/html" >>, << << ".txt" >>, "text/plain" >>,
              << << ".zip" >>, "application/zip" >>}

\* MimeType::operator(): the key is looked up as a whole.
MimeType(suffix) ==
    IF \E m \in MimeTypes : m[1] = suffix
    THEN (CHOOSE m \in MimeTypes : m[1] = suffix)[2]
    ELSE "application/octet-stream"

\* bad_request, not_found and server_error: a text that says why, sent with
\* its length; the connection is kept if the request asks for it.
Refusal(req, status) ==
    [status |-> status, type |-> "text/html", length |-> 1, body |-> TRUE,
     keep_alive |-> req.keep_alive]

\* The answers with status ok: the header has the size of the file, the
\* answer to HEAD stops there.
EmptyResponse(req, size) ==
    [status |-> "ok", type |-> MimeType(FilePath(req.target)), length |-> size,
     body |-> FALSE, keep_alive |-> req.keep_alive]

FileResponse(req, size) ==
    [EmptyResponse(req, size) EXCEPT !.body = TRUE]

\* Request path must be absolute and not contain "..".
IllegalTarget(target) ==
    \/ target = << >>
    \/ target[1] # "/"
    \/ \E i \in DOMAIN target : target[i] = ".."

\* Mutant of HandleRequest: HEAD is answered like GET.
HandleRequestHeadAsGet(req, file) ==
    IF req.method = "other" \/ IllegalTarget(req.target) THEN Refusal(req, "bad_request")
    ELSE IF file.ec = "no_such_file" THEN Refusal(req, "not_found")
    ELSE IF file.ec # "ok" THEN Refusal(req, "internal_server_error")
    ELSE FileResponse(req, file.size)

\* handleRequest without a custom response (onRead passes none); file is what
\* opening FilePath(req.target) gives.
HandleRequest(req, file) ==
    IF req.method = "other" \/ IllegalTarget(req.target) THEN Refusal(req, "bad_request")
    ELSE IF file.ec = "no_such_file" THEN Refusal(req, "not_found")
    ELSE IF file.ec # "ok" THEN Refusal(req, "internal_server_error")
    ELSE IF req.method = "head" THEN EmptyResponse(req, file.size)
    ELSE FileResponse(req, file.size)

\* need_eof() of Beast, for an answer that has a content length.
NeedEof(res) == ~res.keep_alive
=============================================================================
