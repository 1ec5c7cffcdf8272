----------------------------- MODULE GraphToken -----------------------------
(***************************************************************************)
(* The OAuth session shared by every program of mailcart: the class        *)
(* GraphTokenManager of cpp_core/src/token.cpp, driven by the request      *)
(* pipeline of cpp_core/src/graph.cpp (worker threads of mailcart_api,     *)
(* which share ONE manager without a mutex) and by the one-shot program    *)
(* mailcart_token.  Processes meet in the cache file graph_oauth.json, in  *)
(* Microsoft's token endpoint and in Graph.                                *)
(*                                                                         *)
(* A token is the number of the grant that issued it; 0 is the empty       *)
(* string.  The field exp of a session names the grant whose expiry time   *)
(* expires_at holds, so that "the expiry is that of the access token"      *)
(* reads exp = access.  Time is the set stale of the grants whose expiry   *)
(* is no longer beyond now + kRefreshBufferSeconds.                        *)
(***************************************************************************)
EXTENDS Naturals

CONSTANTS
    Procs,            \* operating system processes
    Servers,          \* those that run mailcart_api; the others run mailcart_token
    Threads,          \* threads of all processes
    ProcOf,           \* the process of each thread
    MaxGrants,        \* bound on the grants ever issued
    Seeds,            \* grants 1..Seeds were issued before the model starts
    InitCaches,       \* what graph_oauth.json may hold at the start
    EnvAccess,        \* OUTLOOK_GRAPH_TOKEN, or 0
    PsaAccess,        \* access token stored in 1Password, or 0
    PsaRefresh,       \* refresh token stored in 1Password, or 0
    Jwts,             \* the access tokens whose exp claim can be decoded
    RotationRevokes,  \* using a refresh token revokes it at the provider
    ResponseMayBeLost,\* the token endpoint may act and its answer not arrive
    PersistMayFail,   \* writing the cache file may fail (silently)
    PsaMayFail,       \* a 1psa lookup may fail and degrade to ""
    MayCrash          \* processes that may be killed

Grants == 1..MaxGrants
Tokens == 0..MaxGrants
Session == [access : Tokens, refresh : Tokens, exp : Tokens]

\* A disengaged std::optional<TokenSession>, a missing or unusable cache file.
NoSession == [access |-> 0, refresh |-> 0, exp |-> 0]

ASSUME GraphTokenAssumption ==
    /\ Servers \subseteq Procs
    /\ ProcOf \in [Threads -> Procs]
    /\ MaxGrants \in Nat
    /\ Seeds \in 0..MaxGrants
    /\ InitCaches \subseteq Session
    /\ {EnvAccess, PsaAccess, PsaRefresh} \subseteq Tokens
    /\ Jwts \subseteq Grants
    /\ MayCrash \subseteq Procs

\* The file is only written by Persist (and its Python predecessor), with the
\* expiry of the token it holds.
ASSUME InitCachesAssumption == \A c \in InitCaches : c.exp = c.access

\* What the environment, 1Password and the file hold at the start has been
\* issued before.
ASSUME SeedsAssumption ==
    /\ {EnvAccess, PsaAccess, PsaRefresh} \subseteq 0..Seeds
    /\ \A c \in InitCaches : c.access <= Seeds /\ c.refresh <= Seeds

VARIABLES
    session_,  \* session_[p]: the manager's in-memory session in process p
    cache,     \* the content of graph_oauth.json
    th,        \* th[t]: control state of thread t
    up,        \* up[p]: the server p is listening
    issued,    \* number of grants issued so far
    revoked,   \* refresh tokens the token endpoint no longer accepts
    stale,     \* grants whose access token is within 300 s of its expiry
    dead       \* access tokens Graph answers with 401

vars == <<session_, cache, th, up, issued, revoked, stale, dead>>

Ops == {"none", "startup", "request", "health", "get", "force"}
Vias == {"none", "cached", "booted", "load", "get", "retry", "force"}
Pcs == {"idle", "load", "readCache", "boot", "post", "store", "persist",
        "restore", "listen", "send", "reset", "select", "selectCache"}

\* cur is the local session variable, tok the bearer token of the Graph call,
\* rej the token the first attempt was refused with (0 in attempt 0), via the
\* code that waits for the result, posts the calls to the token endpoint.
ThreadState == [pc : Pcs, op : Ops, via : Vias, attempt : {0, 1},
                cur : Session, tok : Tokens, rej : Tokens, posts : Nat]

Idle == [pc |-> "idle", op |-> "none", via |-> "none", attempt |-> 0,
         cur |-> NoSession, tok |-> 0, rej |-> 0, posts |-> 0]

Init ==
    /\ session_ = [p \in Procs |-> NoSession]
    /\ cache \in InitCaches
    /\ th = [t \in Threads |-> Idle]
    /\ up = [p \in Procs |-> FALSE]
    /\ issued = Seeds
    /\ revoked = {}
    /\ stale = {}
    /\ dead = {}

-----------------------------------------------------------------------------
(* Sessions                                                                *)

IsValid(s) == s.access # 0 /\ s.exp # 0 /\ s.exp \notin stale

FirstOf(a, b) == IF a # 0 THEN a ELSE b

\* The access token comes from the environment before the cache and 1Password,
\* the expiry from the cache if it has one: it need not be of the same token.
BootstrapSession(cached, psaRefresh, psaAccess) ==
    LET access == FirstOf(EnvAccess, FirstOf(cached.access, psaAccess))
    IN  [access  |-> access,
         refresh |-> FirstOf(cached.refresh, psaRefresh),
         exp     |-> FirstOf(cached.exp, IF access \in Jwts THEN access ELSE 0)]

\* ReadPsaField of a field that holds v: a failing 1psa yields "".
PsaLookup(v) == IF PsaMayFail THEN {0, v} ELSE {v}

-----------------------------------------------------------------------------
(* Unsynchronised access to session_.  A thread whose next step writes     *)
(* session_ may be writing right now, field by field: what another thread  *)
(* of the process reads or leaves behind at that moment is any mixture.    *)

Pending(u) == IF th[u].pc = "reset" THEN NoSession ELSE th[u].cur

Writers(t) == {u \in Threads \ {t} : /\ ProcOf[u] = ProcOf[t]
                                     /\ th[u].pc \in {"store", "restore", "reset"}}

Mixtures(S) == {[access |-> a.access, refresh |-> r.refresh, exp |-> e.exp] :
                a, r, e \in S}

\* What thread t may see in session_, and what it may leave there storing s.
Reads(t) == Mixtures({session_[ProcOf[t]]} \cup {Pending(u) : u \in Writers(t)})
Stores(t, s) == Mixtures({s} \cup {Pending(u) : u \in Writers(t)})

-----------------------------------------------------------------------------
(* Continuations: the state of a thread r once a callee has returned.      *)

GotToken(r, access) ==
    CASE r.op = "request" -> [r EXCEPT !.pc = "send", !.tok = access,
                                       !.via = "none", !.cur = NoSession]
      [] r.op = "startup" -> [Idle EXCEPT !.pc = "listen", !.op = "startup"]
      [] OTHER            -> Idle

CallRefresh(r, s, via) ==
    IF s.refresh = 0 THEN Idle
    ELSE [r EXCEPT !.pc = "post", !.cur = s, !.via = via]

\* Load returned s: TokenStatus reports, --force refreshes once more,
\* GetAccessToken hands out a valid token or refreshes.
LoadReturned(r, s) ==
    CASE r.op = "health" -> Idle
      [] r.op = "force"  -> CallRefresh(r, s, "force")
      [] OTHER           -> IF IsValid(s) THEN GotToken(r, s.access)
                            ELSE CallRefresh(r, s, "get")

RefreshReturned(r) ==
    CASE r.via = "load"  -> [r EXCEPT !.pc = "restore"]
      [] r.via = "get"   -> GotToken(r, r.cur.access)
      [] r.via = "retry" -> [r EXCEPT !.pc = "load", !.via = "none",
                                      !.cur = NoSession]
      [] OTHER           -> Idle

\* The session Load returns or, failing that, the one it has refreshed.
AfterBootstrapUnchecked(r, b) ==   \* mutant: trusts any access token
    IF b.access # 0 THEN [r EXCEPT !.pc = "store", !.cur = b, !.via = "booted"]
    ELSE CallRefresh(r, b, "load")
AfterBootstrap(r, b) ==
    IF IsValid(b) THEN [r EXCEPT !.pc = "store", !.cur = b, !.via = "booted"]
    ELSE CallRefresh(r, b, "load")

\* The session made of grant g and the refresh token new by a refresh of old.
GrantedKeepsExpiry(g, new, old) ==    \* mutant: expires_at not updated
    [access |-> g, refresh |-> new, exp |-> old.exp]
GrantedIgnoresRotation(g, new, old) == \* mutant: the rotated token is dropped
    [access |-> g, refresh |-> old.refresh, exp |-> g]
GrantedSession(g, new, old) ==
    [access |-> g, refresh |-> new, exp |-> g]

\* The first authentication failure leads to one refresh and one more
\* attempt, the second one to the error "Graph auth failed".
RejectedRetriesAtOnce(r) ==   \* mutant: retries without a refresh
    IF r.attempt = 0
    THEN [r EXCEPT !.pc = "load", !.attempt = 1, !.rej = r.tok, !.tok = 0]
    ELSE Idle
RejectedRetriesForever(r) ==  \* mutant: no limit on the attempts
    [r EXCEPT !.pc = "reset", !.attempt = 1, !.rej = r.tok, !.tok = 0]
RejectedCounts(r) ==          \* mutant: a third attempt
    IF r.attempt <= 1
    THEN [r EXCEPT !.pc = "reset", !.attempt = @ + 1, !.rej = r.tok, !.tok = 0]
    ELSE Idle
AfterRejection(r) ==
    IF r.attempt = 0
    THEN [r EXCEPT !.pc = "reset", !.attempt = 1, !.rej = r.tok, !.tok = 0]
    ELSE Idle

Become(t, r) == th' = [th EXCEPT ![t] = r]
At(t, pc) == th[t].pc = pc
World == <<issued, revoked, stale, dead>>

-----------------------------------------------------------------------------
(* Entry points                                                            *)

\* A process starts: mailcart_api resolves a token before it listens if
\* OUTLOOK_GRAPH_CLIENT_ID is set, mailcart_token validates (get) or
\* refreshes (--force) the cache and ends.
StartProcess(t) ==
    LET p == ProcOf[t] IN
    /\ ~up[p]
    /\ \A u \in Threads : ProcOf[u] = p => At(u, "idle")
    /\ IF p \in Servers
       THEN \E pc \in {"load", "listen"} :
                Become(t, [Idle EXCEPT !.pc = pc, !.op = "startup"])
       ELSE \E op \in {"get", "force"} :
                Become(t, [Idle EXCEPT !.pc = "load", !.op = op])
    /\ session_' = [session_ EXCEPT ![p] = NoSession]
    /\ UNCHANGED <<cache, up, World>>

\* The server listens, or exits because the TLS files are missing or the port
\* is taken.
Listen(t) ==
    /\ At(t, "listen")
    /\ \E listening \in BOOLEAN : up' = [up EXCEPT ![ProcOf[t]] = listening]
    /\ Become(t, Idle)
    /\ UNCHANGED <<session_, cache, World>>

\* A worker thread takes an HTTP request: one Graph call, or /health with a
\* valid write token.
StartHandler(t) ==
    /\ up[ProcOf[t]]
    /\ At(t, "idle")
    /\ \E op \in {"request", "health"} :
           Become(t, [Idle EXCEPT !.pc = "load", !.op = op])
    /\ UNCHANGED <<session_, cache, up, World>>

-----------------------------------------------------------------------------
(* GraphTokenManager::Load                                                 *)

\* The check and the copy of session_ are two reads.
LoadMemory(t) ==
    /\ At(t, "load")
    /\ \E checked, copied \in Reads(t) :
           Become(t, IF IsValid(checked) THEN LoadReturned(th[t], copied)
                     ELSE [th[t] EXCEPT !.pc = "readCache"])
    /\ UNCHANGED <<session_, cache, up, World>>

LoadCache(t) ==
    /\ At(t, "readCache")
    /\ Become(t, IF IsValid(cache)
                 THEN [th[t] EXCEPT !.pc = "store", !.cur = cache, !.via = "cached"]
                 ELSE [th[t] EXCEPT !.pc = "boot", !.cur = cache])
    /\ UNCHANGED <<session_, cache, up, World>>

LoadBootstrap(t) ==
    /\ At(t, "boot")
    /\ \E pr \in PsaLookup(PsaRefresh), pa \in PsaLookup(PsaAccess) :
           Become(t, AfterBootstrap(th[t], BootstrapSession(th[t].cur, pr, pa)))
    /\ UNCHANGED <<session_, cache, up, World>>

\* session_ = ... in Load and in Refresh.
StoreSession(t) ==
    /\ At(t, "store")
    /\ \E s \in Stores(t, th[t].cur) :
           session_' = [session_ EXCEPT ![ProcOf[t]] = s]
    /\ Become(t, IF th[t].via = "cached" THEN LoadReturned(th[t], th[t].cur)
                 ELSE [th[t] EXCEPT !.pc = "persist"])
    /\ UNCHANGED <<cache, up, World>>

\* What Persist is asked to write.
PersistedMemory(t) == session_[ProcOf[t]]  \* mutant: its default, session_
Persisted(t) == th[t].cur

\* The temporary file is renamed over the cache, or nothing happens.
Persist(t) ==
    /\ At(t, "persist")
    /\ cache' \in {Persisted(t)} \cup (IF PersistMayFail THEN {cache} ELSE {})
    /\ Become(t, IF th[t].via = "booted" THEN LoadReturned(th[t], th[t].cur)
                 ELSE RefreshReturned(th[t]))
    /\ UNCHANGED <<session_, up, World>>

\* Load assigns the session Refresh returned once more.
RestoreSession(t) ==
    /\ At(t, "restore")
    /\ \E s \in Stores(t, th[t].cur) :
           session_' = [session_ EXCEPT ![ProcOf[t]] = s]
    /\ Become(t, LoadReturned(th[t], th[t].cur))
    /\ UNCHANGED <<cache, up, World>>

-----------------------------------------------------------------------------
(* GraphTokenManager::Refresh                                              *)

\* Refresh(true) without an argument starts from memory, else from the cache,
\* else from the environment and 1Password.
SelectMemory(t) ==
    /\ At(t, "select")
    /\ \E s \in Reads(t) :
           Become(t, IF s = NoSession THEN [th[t] EXCEPT !.pc = "selectCache"]
                     ELSE CallRefresh(th[t], s, "retry"))
    /\ UNCHANGED <<session_, cache, up, World>>

SelectCache(t) ==
    /\ At(t, "selectCache")
    /\ \E pr \in PsaLookup(PsaRefresh), pa \in PsaLookup(PsaAccess) :
           Become(t, CallRefresh(th[t],
                         IF cache # NoSession THEN cache
                         ELSE BootstrapSession(NoSession, pr, pa), "retry"))
    /\ UNCHANGED <<session_, cache, up, World>>

\* The endpoint honours the refresh token.  The answer may leave out a new
\* refresh token unless the old one was revoked; the access token may be so
\* short-lived that it is stale at once.
RefreshGranted(t) ==
    LET old == th[t].cur.refresh
        g   == issued + 1
    IN
    /\ At(t, "post")
    /\ g \in Grants
    /\ old \notin revoked
    /\ issued' = g
    /\ revoked' = IF RotationRevokes THEN revoked \cup {old} ELSE revoked
    /\ stale' \in {stale, stale \cup {g}}
    /\ \E new \in {g} \cup (IF RotationRevokes THEN {} ELSE {old}) :
           Become(t, [th[t] EXCEPT !.pc = "store", !.posts = @ + 1,
                                   !.cur = GrantedSession(g, new, @)])
    /\ UNCHANGED <<session_, cache, up, dead>>

\* The endpoint grants and revokes, its answer is lost.
RefreshLost(t) ==
    /\ ResponseMayBeLost
    /\ At(t, "post")
    /\ issued + 1 \in Grants
    /\ th[t].cur.refresh \notin revoked
    /\ issued' = issued + 1
    /\ revoked' = IF RotationRevokes THEN revoked \cup {th[t].cur.refresh} ELSE revoked
    /\ Become(t, Idle)
    /\ UNCHANGED <<session_, cache, up, stale, dead>>

\* No client id, a transport error, a status >= 400 or an unusable payload:
\* the exception leaves session_ and the cache alone and ends the operation.
RefreshFailedRetries(t) ==  \* mutant: a failed refresh starts over
    /\ At(t, "post")
    /\ Become(t, [th[t] EXCEPT !.pc = "load"])
    /\ UNCHANGED <<session_, cache, up, World>>
RefreshFailed(t) ==
    /\ At(t, "post")
    /\ Become(t, Idle)
    /\ UNCHANGED <<session_, cache, up, World>>

-----------------------------------------------------------------------------
(* GraphClient::Request                                                    *)

\* Any answer but an authentication failure ends the request, with a result
\* or with an error.
GraphAnswered(t) ==
    /\ At(t, "send")
    /\ Become(t, Idle)
    /\ UNCHANGED <<session_, cache, up, World>>

GraphRejected(t) ==
    /\ At(t, "send")
    /\ th[t].tok \in dead
    /\ Become(t, AfterRejection(th[t]))
    /\ UNCHANGED <<session_, cache, up, World>>

InvalidateErases(t) ==  \* mutant: the cache file is emptied as well
    /\ At(t, "reset")
    /\ session_' = [session_ EXCEPT ![ProcOf[t]] = NoSession]
    /\ cache' = NoSession
    /\ Become(t, [th[t] EXCEPT !.pc = "select"])
    /\ UNCHANGED <<up, World>>
Invalidate(t) ==
    /\ At(t, "reset")
    /\ \E s \in Stores(t, NoSession) :
           session_' = [session_ EXCEPT ![ProcOf[t]] = s]
    /\ Become(t, [th[t] EXCEPT !.pc = "select"])
    /\ UNCHANGED <<cache, up, World>>

-----------------------------------------------------------------------------
(* The environment                                                         *)

\* The expiry of grant g comes within 300 seconds.
Lapse(g) ==
    /\ g <= issued
    /\ stale' = stale \cup {g}
    /\ UNCHANGED <<session_, cache, th, up, issued, revoked, dead>>

\* Graph stops accepting the access token of grant g (expired or revoked).
GraphDrops(g) ==
    /\ g <= issued
    /\ dead' = dead \cup {g}
    /\ UNCHANGED <<session_, cache, th, up, issued, revoked, stale>>

\* A process dies: its memory is gone, the file stays.
Crash(p) ==
    /\ p \in MayCrash
    /\ session_' = [session_ EXCEPT ![p] = NoSession]
    /\ th' = [t \in Threads |-> IF ProcOf[t] = p THEN Idle ELSE th[t]]
    /\ up' = [up EXCEPT ![p] = FALSE]
    /\ UNCHANGED <<cache, World>>

-----------------------------------------------------------------------------

\* What a running operation does next.
Advance(t) ==
    \/ Listen(t)
    \/ LoadMemory(t) \/ LoadCache(t) \/ LoadBootstrap(t)
    \/ StoreSession(t) \/ Persist(t) \/ RestoreSession(t)
    \/ SelectMemory(t) \/ SelectCache(t)
    \/ RefreshGranted(t) \/ RefreshLost(t) \/ RefreshFailed(t)
    \/ GraphAnswered(t) \/ GraphRejected(t) \/ Invalidate(t)

Next ==
    \/ \E t \in Threads : StartProcess(t) \/ StartHandler(t) \/ Advance(t)
    \/ \E g \in Grants : Lapse(g) \/ GraphDrops(g)
    \/ \E p \in Procs : Crash(p)

Spec == Init /\ [][Next]_vars

\* The operating system schedules every runnable thread; the HTTP calls it
\* blocks in have a limit of 25 s, and 1psa is assumed to end.
FairSpec == Spec /\ \A t \in Threads : WF_vars(Advance(t))
-----------------------------------------------------------------------------
(* Properties                                                              *)

\* Every variable has its type.
TypeOK ==
    /\ session_ \in [Procs -> Session]
    /\ cache \in Session
    /\ th \in [Threads -> ThreadState]
    /\ up \in [Procs -> BOOLEAN]
    /\ issued \in 0..MaxGrants
    /\ revoked \in SUBSET Tokens
    /\ stale \in SUBSET Grants
    /\ dead \in SUBSET Grants

Paired(s) == s.exp = s.access

\* The expiry in the shared cache file is that of the access token beside it,
\* whatever the threads of a server do to session_ at the same time: nobody
\* is made to trust a dead token, or to refresh a live one, by a mixture.
CachePaired == Paired(cache)

\* Why: what waits to be stored or persisted is paired, and an expiry that
\* LoadBootstrap takes over from the cache has already been found stale, so a
\* bootstrapped session with a foreign expiry is never valid.
PairingInv ==
    /\ CachePaired
    /\ \A t \in Threads :
        /\ th[t].pc = "boot" => th[t].cur.exp \in stale \cup {0}
        /\ th[t].pc \in {"store", "persist", "restore"} => Paired(th[t].cur)

\* The same of the in-memory sessions; true of processes whose manager is
\* used by one thread at a time.
MemoryPaired == \A p \in Procs : Paired(session_[p])

\* The one retry after an authentication failure is worth making: it is sent
\* with another token than the one Graph has just refused.
RetryUsesNewToken ==
    \A t \in Threads : At(t, "send") /\ th[t].attempt = 1 => th[t].tok # th[t].rej

\* Load, GetAccessToken and the retry each may refresh, but one operation
\* never calls the token endpoint more than five times (twice for the command
\* line program and the startup check, once for /health).
RefreshBudget ==
    \A t \in Threads : th[t].posts <= CASE th[t].op = "request" -> 5
                                        [] th[t].op = "health"  -> 1
                                        [] OTHER                -> 2

\* The account is never locked out: at every moment a refresh token the
\* endpoint accepts is in the cache file or in 1Password, unless a thread is
\* between the answer of the endpoint and the end of Persist.
LineageKept ==
    \/ \E t \in Threads : th[t].pc \in {"store", "persist"}
    \/ {cache.refresh, PsaRefresh} \ (revoked \cup {0}) # {}

\* No interleaving of writers replaces a cached session that can be refreshed
\* by one that cannot.
CacheKeepsRefresh == [][cache.refresh # 0 => cache'.refresh # 0]_vars

\* Every operation ends: no chain of fallbacks goes round in a circle.
OperationsEnd == \A t \in Threads : ~At(t, "idle") ~> At(t, "idle")

=============================================================================
