----------------------------- MODULE MailcartApi -----------------------------
(***************************************************************************)
(* The HTTP API of mailcart_api: HandleApiRequest and the handlers of      *)
(* cpp_core/src/api.cpp with the folder lookup of graph.cpp.  A worker     *)
(* thread handles one request; every call of Graph is a step, so that      *)
(* other workers, the macOS app and the mailbox's owner act between the    *)
(* calls of one request.  Tokens and the retry after a 401 are the matter  *)
(* of GraphToken: here a call works, is refused by Graph, fails without    *)
(* having acted, or acts without its answer arriving.  The pages a search  *)
(* reads are the matter of MailcartSearch.                                 *)
(*                                                                         *)
(* A header value is the sequence of its words.  A path is the sequence of *)
(* its segments, in which "id" and "malformed" stand for message ids: what *)
(* id names is in the request's field id, and a malformed one is found out *)
(* by Graph only.                                                          *)
(***************************************************************************)
EXTENDS GraphMailbox

CONSTANTS
    Workers,
    Environments,  \* what the write-token variables may hold, in their order
    Requests,      \* the requests clients send
    ListTop,       \* $top of the folder listing: 200
    DefaultFolder, \* "matchy"
    AsciiLower     \* AsciiLower[n]: n with its ASCII letters in lower case

ASSUME ApiAssumption ==
    /\ ListTop \in Nat
    /\ DefaultFolder \in Names
    /\ AsciiLower \in [Names -> Names]
    /\ \A r \in Requests : r.id \in Ids /\ r.body \in Names \cup {"none", "bad"}

VARIABLES
    environment,   \* the write-token variables of the server process
    worker         \* worker[w]: the request w handles, or has answered

apiVars == <<environment, worker>>

WorkerPcs == {"idle", "list", "create", "move", "read", "page", "answered"}
Statuses == {0, 200, 401, 404, 405, 422, 500, 502, 503}

WorkerState ==
    [pc : WorkerPcs,
     id : Ids, known : BOOLEAN, name : Names, folder : 0..MaxFolders, moving : BOOLEAN,
     status : Statuses]

Unused == CHOOSE i \in Ids : i.moves = 0

\* known: Graph can parse the message id; folder 0 stands for the empty id.
IdleWorker ==
    [pc |-> "idle", id |-> Unused, known |-> TRUE, name |-> DefaultFolder,
     folder |-> 0, moving |-> FALSE, status |-> 0]

ApiInit ==
    /\ environment \in Environments
    /\ worker = [w \in Workers |-> IdleWorker]

-----------------------------------------------------------------------------
(* The write token                                                         *)

NormalizedWriteToken(words) ==
    IF Len(words) > 1 /\ Head(words) = "bearer" THEN Tail(words) ELSE words

ConfiguredWriteToken ==
    LET set == {k \in DOMAIN environment :
                    NormalizedWriteToken(environment[k]) # <<>>}
    IN  IF set = {} THEN <<>>
        ELSE NormalizedWriteToken(environment[CHOOSE k \in set : \A j \in set : k <= j])

IsValidWriteToken(provided) ==
    /\ ConfiguredWriteToken # <<>>
    /\ NormalizedWriteToken(provided) = ConfiguredWriteToken

\* The status RequireApiWriteToken answers with, 0 if the request may go on.
RequireApiWriteToken(provided, authorization) ==
    CASE ConfiguredWriteToken = <<>> -> 503
      [] IsValidWriteToken(IF provided # <<>> THEN provided ELSE authorization) -> 0
      [] OTHER -> 401

-----------------------------------------------------------------------------
(* HandleApiRequest                                                        *)

ParsedLimits == [none |-> 50, zero |-> 0, one |-> 1, hundred |-> 100, more |-> 101]

\* query is "short" or "long", more than 400 characters; a limit that is not
\* a number has no value.
ValidateSearchParams(request) ==
    /\ request.query = "short"
    /\ request.limit \in DOMAIN ParsedLimits
    /\ ParsedLimits[request.limit] \in 1..100

\* A body is the display name in it, "none" if it names no folder, or "bad":
\* missing, no JSON object, or a name that is no string of 1 to 120 characters.
ValidateMoveBody(body) == body # "bad"
FolderOfBody(body) == IF body = "none" THEN DefaultFolder ELSE body

\* At least eight characters, all of them letters, digits or ._:/+=-
ValidatedGraphMessageId(segment) == segment \in {"id", "malformed"}

\* Of an answered request only the answer remains.
Answered(status, moving) ==
    [IdleWorker EXCEPT !.pc = "answered", !.status = status, !.moving = moving]

IsMove(path) == Len(path) = 4 /\ path[4] = "move" /\ path[3] # ""
IsMessage(path) == Len(path) = 3 /\ path[3] # ""

Handler(r) ==
    LET begun == [IdleWorker EXCEPT !.id = r.id, !.known = r.path[3] # "malformed"]
    IN  IF IsMove(r.path) THEN
            [begun EXCEPT !.pc = "list", !.moving = TRUE, !.name = FolderOfBody(r.body)]
        ELSE [begun EXCEPT !.pc = IF r.path[3] = "search" THEN "page" ELSE "read"]

\* The status of the answer that needs no call of Graph, 0 if one is needed:
\* routing, then the method, the write token, the parameters and the id.
ImmediateStatus(r) ==
    LET underMessages == Len(r.path) >= 3 /\ SubSeq(r.path, 1, 2) = <<"v1", "messages">>
        search   == IsMessage(r.path) /\ r.path[3] = "search"
        refused  == RequireApiWriteToken(r.provided, r.authorization)
    IN  IF r.path = <<"health">> THEN (IF r.method = "GET" THEN 200 ELSE 405)
        ELSE IF ~underMessages \/ ~(IsMove(r.path) \/ IsMessage(r.path)) THEN 404
        ELSE IF r.method # (IF IsMove(r.path) THEN "POST" ELSE "GET") THEN 405
        ELSE IF refused # 0 THEN refused
        ELSE IF search /\ ~ValidateSearchParams(r) THEN 422
        ELSE IF IsMove(r.path) /\ ~ValidateMoveBody(r.body) THEN 422
        ELSE IF ~search /\ ~ValidatedGraphMessageId(r.path[3]) THEN 404
        ELSE 0

HandleApiRequest(r) ==
    IF ImmediateStatus(r) # 0 THEN Answered(ImmediateStatus(r), FALSE) ELSE Handler(r)

\* A client knows an id because Graph has issued it.
Receive(w) ==
    /\ worker[w].pc \in {"idle", "answered"}
    /\ \E r \in Requests :
          /\ r.id.moves <= moves[r.id.message]
          /\ worker' = [worker EXCEPT ![w] = HandleApiRequest(r)]
    /\ UNCHANGED <<environment, mailbox>>

-----------------------------------------------------------------------------
(* Graph calls                                                             *)

WorkerAt(w, pc) == worker[w].pc = pc

\* The call has been made and the handler goes on at pc.
Continue(w, pc, folder) ==
    worker' = [worker EXCEPT ![w] = [@ EXCEPT !.pc = pc, !.folder = folder]]
Answer(w, status) ==
    worker' = [worker EXCEPT ![w] = Answered(status, worker[w].moving)]

\* No token (500), a transport error, or an answer of Graph that says it has
\* not acted: a 404, or an error that reads like one, is passed on whatever call
\* it answers, any other becomes 502.
FailingCall(w) ==
    /\ worker[w].pc \in {"list", "create", "move", "read", "page"}
    /\ \E status \in {404, 500, 502} : Answer(w, status)
    /\ UNCHANGED <<environment, mailbox>>

\* The names GetOrCreateFolderId takes for the one asked for: ASCII letters are
\* compared in lower case, all others as they are.
SameInAscii(name) == {n \in Names : AsciiLower[n] = AsciiLower[name]}

\* It takes the first folder with such a name in the listing; if that row has
\* no id, the message will be moved to the empty id, which is no folder's.
ListFolders(w) ==
    /\ WorkerAt(w, "list")
    /\ LET found == {f \in Listing(ListTop) : folders[f] \in SameInAscii(worker[w].name)}
       IN  IF found = {} THEN Continue(w, "create", 0)
           ELSE \/ \E f \in found : (\A g \in found : f <= g) /\ Continue(w, "move", f)
                \/ Continue(w, "move", 0)
    /\ UNCHANGED <<environment, mailbox>>

\* The answer of Graph may be lost or lack the folder's id.
CreateMissingFolder(w) ==
    /\ WorkerAt(w, "create")
    /\ CreateFolder(worker[w].name)
    /\ \/ Continue(w, "move", Len(folders) + 1)
       \/ Answer(w, 502)
    /\ UNCHANGED environment

\* Somebody else has created it since the listing, or it was there and has not
\* been found in it.
CreateConflicts(w) ==
    /\ WorkerAt(w, "create")
    /\ Taken(worker[w].name)
    /\ Answer(w, 502)
    /\ UNCHANGED <<environment, mailbox>>

MoveMessageRelaysStatus(w) ==   \* mutant: answers with the status Graph gave
    /\ WorkerAt(w, "move")
    /\ worker[w].known
    /\ MoveMessageTo(worker[w].id, worker[w].folder)
    /\ \E status \in {201, 502} : Answer(w, status)
    /\ UNCHANGED environment
MoveMessage(w) ==
    /\ WorkerAt(w, "move")
    /\ worker[w].known
    /\ MoveMessageTo(worker[w].id, worker[w].folder)
    /\ \E status \in {200, 502} : Answer(w, status)
    /\ UNCHANGED environment

\* Graph does not find the message, or the folder, or cannot parse the id.
MoveNotFound(w) ==
    /\ WorkerAt(w, "move")
    /\ ~worker[w].known \/ ~CanMove(worker[w].id, worker[w].folder)
    /\ Answer(w, 404)
    /\ UNCHANGED <<environment, mailbox>>

GetMessage(w) ==
    /\ WorkerAt(w, "read")
    /\ Answer(w, IF worker[w].known /\ IsCurrent(worker[w].id) THEN 200 ELSE 404)
    /\ UNCHANGED <<environment, mailbox>>

\* The matches of MailcartSearch, or none if the query cannot be parsed.
SearchMessages(w) ==
    /\ WorkerAt(w, "page")
    /\ Answer(w, 200)
    /\ UNCHANGED <<environment, mailbox>>

WorkerStep(w) ==
    \/ FailingCall(w) \/ ListFolders(w) \/ CreateMissingFolder(w)
    \/ CreateConflicts(w) \/ MoveMessage(w) \/ MoveNotFound(w)
    \/ GetMessage(w) \/ SearchMessages(w)
=============================================================================
