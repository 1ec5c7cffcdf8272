---------------------------- MODULE OutlookBridge ----------------------------
(***************************************************************************)
(* The macOS app's way to Graph (macos_app/Bridge): the operations of      *)
(* OutlookClientBridge, each a chain of Graph calls made with the token    *)
(* that OutlookGraphHttpClient.mm reads from the shared cache file, and    *)
(* the retry that runs "mailcart_token --force" after a 401.  Callers are  *)
(* the app's threads: the serial bridge queue and the main thread, on      *)
(* which attachments are opened.                                           *)
(*                                                                         *)
(* A token is the number of the refresh that issued it, 0 is no token; the *)
(* inside of a refresh is the matter of GraphToken.  A "leg" is one call   *)
(* of FetchGraphGetData or FetchGraphRequestData with both its attempts.   *)
(***************************************************************************)
EXTENDS GraphMailbox

CONSTANTS
    Callers,
    FolderPage,      \* folders in a listing without $top: Graph's default, 10
    CaseFold,        \* names with the same CaseFold pass caseInsensitiveCompare
    AppNames,        \* the folder names the app asks for; a blank one is "matchy"
    EnvToken,        \* OUTLOOK_GRAPH_TOKEN, or 0
    MaxTokens,       \* bound on the tokens issued
    SavesMayFail     \* mailcart_token may succeed without writing the cache

Tokens == 0..MaxTokens

ASSUME BridgeAssumption ==
    /\ FolderPage \in Nat
    /\ CaseFold \in [Names -> Names]
    /\ AppNames \subseteq Names /\ AppNames # {}
    /\ MaxTokens \in Nat \ {0} /\ EnvToken \in Tokens

VARIABLES
    caller,    \* caller[b]: the operation under way in thread b, or its result
    cached,    \* the access token in graph_oauth.json
    issued,    \* the newest token
    expired,   \* tokens within 300 s of the expiry stored with them
    rejected   \* tokens Graph answers with 401

tokens == <<cached, issued, expired, rejected>>
bridgeVars == <<caller, tokens>>

Legs == {"none", "list", "create", "move", "message", "attachments", "file", "search"}
Pcs == {"idle", "resolve", "send", "refresh", "again", "done"}

\* outcome: what the operation returns; "bare" is a message without the
\* attachments, "blank" the payload of a message that could not be fetched.
Outcomes == {"none", "moved", "unmoved", "message", "bare", "blank",
             "opened", "unopened", "more", "last", "partial", "failed"}

CallerState ==
    [pc : Pcs, leg : Legs, id : Ids, name : Names, captured : Tokens,
     token : Tokens, tried : Tokens, folder : 0..MaxFolders,
     outcome : Outcomes, saved : BOOLEAN]

SomeId == CHOOSE i \in Ids : i.moves = 0
SomeName == CHOOSE n \in AppNames : TRUE

\* captured: the token MoveMessageToFolder reads before anything else; tried:
\* the token of the leg's first attempt, 0 in that attempt; saved: the refresh
\* has reached the cache file.
IdleCaller ==
    [pc |-> "idle", leg |-> "none", id |-> SomeId, name |-> SomeName,
     captured |-> 0, token |-> 0, tried |-> 0, folder |-> 0, outcome |-> "none",
     saved |-> FALSE]

BridgeInit ==
    /\ caller = [b \in Callers |-> IdleCaller]
    /\ cached \in {0, 1}
    /\ issued = 1
    /\ expired = {}
    /\ rejected = {}

-----------------------------------------------------------------------------
(* Tokens                                                                  *)

TokenFromCacheFile == IF cached \in expired THEN 0 ELSE cached

\* The cache before the environment.
ResolveGraphToken == IF TokenFromCacheFile # 0 THEN TokenFromCacheFile ELSE EnvToken

Set(b, r) == caller' = [caller EXCEPT ![b] = r]
CallerAt(b, pc) == caller[b].pc = pc

-----------------------------------------------------------------------------
(* What the operations do with the result of a leg                         *)

Leg(r, leg) == [r EXCEPT !.pc = "resolve", !.leg = leg, !.token = 0, !.tried = 0,
                         !.saved = FALSE]

\* Of a finished operation only the outcome remains.
Finish(outcome) == [IdleCaller EXCEPT !.pc = "done", !.outcome = outcome]

\* The move uses the token captured at the start.
MoveLeg(r, folder) == [Leg(r, "move") EXCEPT !.pc = "send", !.token = r.captured,
                                             !.folder = folder]

\* A listing that fails is read as one without the folder, attachments that
\* cannot be listed are none.
LegFailed(r) ==
    CASE r.leg = "list"        -> Leg(r, "create")
      [] r.leg = "create"      -> Finish("unmoved")
      [] r.leg = "move"        -> Finish("unmoved")
      [] r.leg = "message"     -> Finish("blank")
      [] r.leg = "attachments" -> Finish("bare")
      [] r.leg = "file"        -> Finish("unopened")
      [] OTHER                 -> Finish("failed")

-----------------------------------------------------------------------------
(* Entry points.  A missing token ends an operation before its first call. *)

BeginMove(b, id, name) ==
    LET token == ResolveGraphToken
        begun == [IdleCaller EXCEPT !.id = id, !.name = name, !.captured = token]
    IN  Set(b, IF token = 0 THEN Finish("unmoved") ELSE Leg(begun, "list"))

Begin(b, id, leg) == Set(b, Leg([IdleCaller EXCEPT !.id = id], leg))

StartOperation(b) ==
    /\ CallerAt(b, "idle") \/ CallerAt(b, "done")
    /\ \E m \in Messages : LET id == [message |-> m, moves |-> moves[m]] IN
        \/ \E name \in AppNames : BeginMove(b, id, name)
        \/ \E leg \in {"message", "file", "search"} : Begin(b, id, leg)
    /\ UNCHANGED <<tokens, mailbox>>

-----------------------------------------------------------------------------
(* One leg: FetchGraphGetData, FetchGraphRequestData                       *)

ResolveToken(b) ==
    /\ CallerAt(b, "resolve")
    /\ Set(b, IF ResolveGraphToken = 0 THEN LegFailed(caller[b])
              ELSE [caller[b] EXCEPT !.pc = "send", !.token = ResolveGraphToken])
    /\ UNCHANGED <<tokens, mailbox>>

\* The first 401 leads to a refresh, the second one ends the leg.
UnauthorizedLoops(b) ==   \* mutant: no limit on the attempts
    /\ CallerAt(b, "send")
    /\ caller[b].token \in rejected
    /\ Set(b, [caller[b] EXCEPT !.pc = IF caller[b].tried = 0 THEN "refresh" ELSE "again",
                                !.tried = caller[b].token])
    /\ UNCHANGED <<tokens, mailbox>>
Unauthorized(b) ==
    /\ CallerAt(b, "send")
    /\ caller[b].token \in rejected
    /\ Set(b, IF caller[b].tried = 0
              THEN [caller[b] EXCEPT !.pc = "refresh", !.tried = caller[b].token]
              ELSE LegFailed(caller[b]))
    /\ UNCHANGED <<tokens, mailbox>>

\* mailcart_token --force is missing or fails, or refreshes; then the new token
\* is in the cache file unless that could not be written.
AttemptRefreshGraphToken(b) ==
    /\ CallerAt(b, "refresh")
    /\ \/ /\ Set(b, LegFailed(caller[b]))
          /\ UNCHANGED <<cached, issued>>
       \/ /\ issued < MaxTokens
          /\ issued' = issued + 1
          /\ \E saved \in {TRUE} \cup (IF SavesMayFail THEN {FALSE} ELSE {}) :
                /\ cached' = IF saved THEN issued + 1 ELSE cached
                /\ Set(b, [caller[b] EXCEPT !.pc = "again", !.saved = saved])
    /\ UNCHANGED <<expired, rejected, mailbox>>

ResolveAgainAsBefore(b) ==   \* mutant: keeps the token it had
    /\ CallerAt(b, "again")
    /\ Set(b, [caller[b] EXCEPT !.pc = "send"])
    /\ UNCHANGED <<tokens, mailbox>>
ResolveAgain(b) ==
    /\ CallerAt(b, "again")
    /\ Set(b, IF ResolveGraphToken = 0 THEN LegFailed(caller[b])
              ELSE [caller[b] EXCEPT !.pc = "send", !.token = ResolveGraphToken])
    /\ UNCHANGED <<tokens, mailbox>>

\* Graph takes the token of b's request.
AcceptedFor(b, leg) ==
    CallerAt(b, "send") /\ caller[b].leg = leg /\ caller[b].token \notin rejected

\* A transport error, or a status of Graph that is none of those below.
FailingLeg(b) ==
    /\ CallerAt(b, "send")
    /\ Set(b, LegFailed(caller[b]))
    /\ UNCHANGED <<tokens, mailbox>>

\* The names FindMailFolderIdByName takes for the one asked for.
SameToApp(name) == {n \in Names : CaseFold[n] = CaseFold[name]}

\* It takes the first folder with such a name; a row without an id is no folder.
FindMailFolder(b) ==
    /\ AcceptedFor(b, "list")
    /\ LET found == {f \in Listing(FolderPage) : folders[f] \in SameToApp(caller[b].name)}
       IN  \/ \E f \in found : (\A g \in found : f <= g) /\ Set(b, MoveLeg(caller[b], f))
           \/ Set(b, Leg(caller[b], "create"))
    /\ UNCHANGED <<tokens, mailbox>>

CreateMailFolder(b) ==
    /\ AcceptedFor(b, "create")
    /\ CreateFolder(caller[b].name)
    /\ \/ Set(b, MoveLeg(caller[b], Len(folders) + 1))
       \/ Set(b, LegFailed(caller[b]))
    /\ UNCHANGED tokens

MailFolderConflicts(b) ==
    /\ AcceptedFor(b, "create")
    /\ Taken(caller[b].name)
    /\ Set(b, LegFailed(caller[b]))
    /\ UNCHANGED <<tokens, mailbox>>

PostMoveAnyAnswer(b) ==   \* mutant: any answer counts as a success
    /\ AcceptedFor(b, "move")
    /\ MoveMessageTo(caller[b].id, caller[b].folder) \/ UNCHANGED mailbox
    /\ Set(b, Finish("moved"))
    /\ UNCHANGED tokens
PostMove(b) ==
    /\ AcceptedFor(b, "move")
    /\ MoveMessageTo(caller[b].id, caller[b].folder)
    /\ \/ Set(b, Finish("moved"))
       \/ Set(b, LegFailed(caller[b]))
    /\ UNCHANGED tokens

\* The message has been moved by somebody else, or the folder is gone.
NotFound(b) ==
    /\ \/ \E leg \in {"message", "attachments", "file"} :
              AcceptedFor(b, leg) /\ ~IsCurrent(caller[b].id)
       \/ AcceptedFor(b, "move") /\ ~CanMove(caller[b].id, caller[b].folder)
    /\ Set(b, LegFailed(caller[b]))
    /\ UNCHANGED <<tokens, mailbox>>

GetMessagePayload(b) ==
    /\ AcceptedFor(b, "message")
    /\ IsCurrent(caller[b].id)
    /\ Set(b, Leg(caller[b], "attachments"))
    /\ UNCHANGED <<tokens, mailbox>>

GetAttachments(b) ==
    /\ AcceptedFor(b, "attachments")
    /\ IsCurrent(caller[b].id)
    /\ Set(b, Finish("message"))
    /\ UNCHANGED <<tokens, mailbox>>

\* The file is written and opened, or one of the two fails.
OpenAttachmentFile(b) ==
    /\ AcceptedFor(b, "file")
    /\ IsCurrent(caller[b].id)
    /\ \E outcome \in {"opened", "unopened"} : Set(b, Finish(outcome))
    /\ UNCHANGED <<tokens, mailbox>>

\* A page with a cursor, the last page, or one whose cursor is not trusted.
GetSearchPage(b) ==
    /\ AcceptedFor(b, "search")
    /\ \E outcome \in {"more", "last", "partial"} : Set(b, Finish(outcome))
    /\ UNCHANGED <<tokens, mailbox>>

CallerStep(b) ==
    \/ ResolveToken(b) \/ Unauthorized(b) \/ AttemptRefreshGraphToken(b)
    \/ ResolveAgain(b) \/ FailingLeg(b) \/ FindMailFolder(b) \/ CreateMailFolder(b)
    \/ MailFolderConflicts(b) \/ PostMove(b) \/ NotFound(b) \/ GetMessagePayload(b)
    \/ GetAttachments(b) \/ OpenAttachmentFile(b) \/ GetSearchPage(b)

-----------------------------------------------------------------------------
(* The other users of the token                                            *)

Trouble == issued - 1 + Cardinality(expired) + Cardinality(rejected)

\* The API server refreshes, a token comes near its expiry, Graph revokes one.
OthersRefresh ==
    /\ issued < MaxTokens
    /\ issued' = issued + 1
    /\ cached' = issued + 1
    /\ UNCHANGED <<caller, expired, rejected, mailbox>>

TokenExpires ==
    /\ \E t \in (1..issued) \ expired : expired' = expired \cup {t}
    /\ UNCHANGED <<caller, cached, issued, rejected, mailbox>>

TokenRejected ==
    /\ \E t \in (1..issued) \ rejected : rejected' = rejected \cup {t}
    /\ UNCHANGED <<caller, cached, issued, expired, mailbox>>

World == OthersRefresh \/ TokenExpires \/ TokenRejected
=============================================================================
