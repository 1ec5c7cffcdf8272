----------------------- MODULE GraphTokenLineage_proofs -----------------------
(* What becomes of the tokens: proofs about GraphToken that follow a token  *)
(* from the endpoint to the cache, for any number of processes, threads and *)
(* grants.  Every step of a running operation is first described field by   *)
(* field (Turn), so that the invariants below need not open the actions.    *)
EXTENDS GraphToken_proofs

-----------------------------------------------------------------------------
(* Where an operation goes on, field by field                              *)

\* x is a thread without a request, and r goes on as x with the same attempt.
Rest(x) == /\ x.pc \in {"idle", "listen"} /\ x.attempt = 0 /\ x.via = "none"
           /\ x.tok = 0 /\ x.rej = 0 /\ x.cur = NoSession
Same(r, x) == x.attempt = r.attempt /\ x.tok = r.tok /\ x.rej = r.rej

Posts(r, x, s, via) ==
    /\ s.refresh # 0
    /\ x.pc = "post" /\ x.cur = s /\ x.via = via /\ Same(r, x)

Sends(r, x, a) ==
    /\ x.pc = "send" /\ x.tok = a /\ x.cur = NoSession /\ x.via = "none"
    /\ x.attempt = r.attempt /\ x.rej = r.rej

\* The continuations: an operation ends, posts to the token endpoint, sends to
\* Graph, or goes on.
LEMMA IdleRests == Rest(Idle)
  BY DEF Rest, Idle

LEMMA CallRefreshPosts ==
    ASSUME NEW r \in ThreadState, NEW s, NEW via
    PROVE  \/ Rest(CallRefresh(r, s, via))
           \/ Posts(r, CallRefresh(r, s, via), s, via)
  <1>1. CASE s.refresh = 0
    BY <1>1, IdleRests DEF CallRefresh
  <1>2. CASE s.refresh # 0
    BY <1>2 DEF CallRefresh, Posts, Same, ThreadState
  <1>3. QED
    BY <1>1, <1>2

LEMMA GotTokenSends ==
    ASSUME NEW r \in ThreadState, NEW a
    PROVE  Rest(GotToken(r, a)) \/ Sends(r, GotToken(r, a), a)
  <1>1. CASE r.op = "request"
    BY <1>1 DEF GotToken, Sends, ThreadState
  <1>2. CASE r.op = "startup"
    BY <1>2 DEF GotToken, Rest, Idle
  <1>3. CASE r.op # "request" /\ r.op # "startup"
    BY <1>3, IdleRests DEF GotToken
  <1>4. QED
    BY <1>1, <1>2, <1>3

LEMMA LoadReturnedGoesOn ==
    ASSUME NEW r \in ThreadState, NEW s
    PROVE  LET x == LoadReturned(r, s) IN
           \/ Rest(x) \/ Sends(r, x, s.access)
           \/ Posts(r, x, s, "get") \/ Posts(r, x, s, "force")
  <1>1. CASE r.op = "health"
    BY <1>1, IdleRests DEF LoadReturned
  <1>2. CASE r.op = "force"
    BY <1>2, CallRefreshPosts DEF LoadReturned
  <1>3. CASE r.op # "health" /\ r.op # "force"
    BY <1>3, CallRefreshPosts, GotTokenSends DEF LoadReturned
  <1>4. QED
    BY <1>1, <1>2, <1>3

LEMMA RefreshReturnedGoesOn ==
    ASSUME NEW r \in ThreadState
    PROVE  LET x == RefreshReturned(r) IN
           \/ Rest(x)
           \/ r.via = "get" /\ Sends(r, x, r.cur.access)
           \/ r.via = "load" /\ x.pc = "restore" /\ x.cur = r.cur /\ Same(r, x) /\ x.via = "load"
           \/ r.via = "retry" /\ x.pc = "load" /\ x.cur = NoSession /\ Same(r, x) /\ x.via = "none"
  <1>1. CASE r.via = "load"
    BY <1>1 DEF RefreshReturned, Same, ThreadState
  <1>2. CASE r.via = "get"
    BY <1>2, GotTokenSends DEF RefreshReturned
  <1>3. CASE r.via = "retry"
    BY <1>3 DEF RefreshReturned, Same, ThreadState
  <1>4. CASE r.via \notin {"load", "get", "retry"}
    BY <1>4, IdleRests DEF RefreshReturned
  <1>5. QED
    BY <1>1, <1>2, <1>3, <1>4

-----------------------------------------------------------------------------
(* What a step of a running operation does, field by field.  r is the      *)
(* thread before, x the thread after the step.                             *)

Quiet == UNCHANGED <<session_, cache, issued, revoked>>

\* Load returned the session s.
Returns(r, x, s) == \/ Sends(r, x, s.access)
                    \/ Posts(r, x, s, "get") \/ Posts(r, x, s, "force")

Keeps(r, x, pc) == x.pc = pc /\ x.cur = r.cur /\ x.via = r.via /\ Same(r, x)

Ends(t, r, x) == Quiet /\ Rest(x) /\ r.pc \notin {"store", "persist", "restore"}
LosesAnswer(t, r, x) ==
    /\ ResponseMayBeLost /\ r.pc = "post" /\ Rest(x) /\ UNCHANGED <<session_, cache>>
    /\ issued' = issued + 1 /\ revoked' \in {revoked, revoked \cup {r.cur.refresh}}
    /\ revoked \subseteq revoked'
Remembers(t, r, x) ==
    Quiet /\ r.pc = "load" /\ \E s \in Reads(t) : Returns(r, x, s)
Misses(t, r, x) == Quiet /\ r.pc = "load" /\ Keeps(r, x, "readCache")
FindsCached(t, r, x) ==
    /\ Quiet /\ r.pc = "readCache" /\ IsValid(cache)
    /\ x.pc = "store" /\ x.cur = cache /\ x.via = "cached" /\ Same(r, x)
FindsStale(t, r, x) ==
    /\ Quiet /\ r.pc = "readCache" /\ ~IsValid(cache)
    /\ x.pc = "boot" /\ x.cur = cache /\ x.via = r.via /\ Same(r, x)
Boots(t, r, x) ==
    /\ Quiet /\ r.pc = "boot"
    /\ \E pr \in PsaLookup(PsaRefresh), pa \in PsaLookup(PsaAccess) :
         LET b == BootstrapSession(r.cur, pr, pa) IN
         \/ IsValid(b) /\ x.pc = "store" /\ x.cur = b /\ x.via = "booted" /\ Same(r, x)
         \/ ~IsValid(b) /\ Posts(r, x, b, "load")
StoresIt(t, r, x) ==
    /\ r.pc = "store" /\ UNCHANGED <<cache, issued, revoked>>
    /\ \E s \in Stores(t, r.cur) : session_' = [session_ EXCEPT ![ProcOf[t]] = s]
    /\ \/ r.via = "cached" /\ (Rest(x) \/ Returns(r, x, r.cur))
       \/ r.via # "cached" /\ Keeps(r, x, "persist")
Persists(t, r, x) ==
    /\ r.pc = "persist" /\ UNCHANGED <<session_, issued, revoked>>
    /\ cache' = r.cur \/ (PersistMayFail /\ cache' = cache)
    /\ \/ Rest(x)
       \/ r.via = "booted" /\ Returns(r, x, r.cur)
       \/ r.via = "get" /\ Sends(r, x, r.cur.access)
       \/ r.via = "load" /\ Keeps(r, x, "restore")
       \/ r.via = "retry" /\ x.pc = "load" /\ x.cur = NoSession /\ Same(r, x) /\ x.via = "none"
Restores(t, r, x) ==
    /\ r.pc = "restore" /\ UNCHANGED <<cache, issued, revoked>>
    /\ \E s \in Stores(t, r.cur) : session_' = [session_ EXCEPT ![ProcOf[t]] = s]
    /\ Rest(x) \/ Returns(r, x, r.cur)
SelectsMemory(t, r, x) ==
    /\ Quiet /\ r.pc = "select"
    /\ \/ Keeps(r, x, "selectCache")
       \/ \E s \in Reads(t) : s # NoSession /\ Posts(r, x, s, "retry")
SelectsCache(t, r, x) ==
    /\ Quiet /\ r.pc = "selectCache"
    /\ \/ Posts(r, x, cache, "retry")
       \/ /\ cache = NoSession
          /\ \E pr \in PsaLookup(PsaRefresh), pa \in PsaLookup(PsaAccess) :
                 Posts(r, x, BootstrapSession(NoSession, pr, pa), "retry")
IsGranted(t, r, x) ==
    /\ r.pc = "post" /\ UNCHANGED <<session_, cache>>
    /\ r.cur.refresh \notin revoked
    /\ issued' = issued + 1
    /\ revoked' = IF RotationRevokes THEN revoked \cup {r.cur.refresh} ELSE revoked
    /\ x.pc = "store" /\ x.via = r.via /\ Same(r, x)
    /\ x.cur.access = issued + 1 /\ x.cur.exp = issued + 1
    /\ x.cur.refresh = issued + 1 \/ (~RotationRevokes /\ x.cur.refresh = r.cur.refresh)
IsRejected(t, r, x) ==
    /\ Quiet /\ r.pc = "send" /\ r.tok \in dead
    /\ x.pc = "reset" /\ x.cur = r.cur /\ x.via = r.via
    /\ x.attempt = 1 /\ x.rej = r.tok /\ x.tok = 0
Invalidates(t, r, x) ==
    /\ r.pc = "reset" /\ UNCHANGED <<cache, issued, revoked>>
    /\ \E s \in Stores(t, NoSession) : session_' = [session_ EXCEPT ![ProcOf[t]] = s]
    /\ Keeps(r, x, "select")

Turn(t, r, x) ==
    \/ Ends(t, r, x) \/ LosesAnswer(t, r, x) \/ Remembers(t, r, x) \/ Misses(t, r, x)
    \/ FindsCached(t, r, x) \/ FindsStale(t, r, x) \/ Boots(t, r, x) \/ StoresIt(t, r, x)
    \/ Persists(t, r, x) \/ Restores(t, r, x) \/ SelectsMemory(t, r, x)
    \/ SelectsCache(t, r, x) \/ IsGranted(t, r, x) \/ IsRejected(t, r, x)
    \/ Invalidates(t, r, x)

\* Every step of a running operation is a turn of its thread, and of no other.
LEMMA AdvanceIsTurn ==
    ASSUME TypeOK, NEW t \in Threads, Advance(t)
    PROVE  /\ \A u \in Threads \ {t} : th'[u] = th[u]
           /\ Turn(t, th[t], th'[t])
  <1> DEFINE r == th[t]
             x == th'[t]
  <1>r. r \in ThreadState /\ r.cur \in Session /\ th \in [Threads -> ThreadState]
    BY DEF TypeOK, ThreadState
  <1>b. ASSUME NEW y, Become(t, y)
        PROVE  x = y /\ \A u \in Threads \ {t} : th'[u] = th[u]
    BY <1>r, <1>b DEF Become
  <1> USE DEF World, At
  <1> HIDE DEF x
  <1>1. CASE Listen(t)
    BY <1>1, <1>b, IdleRests DEF Listen, Turn, Ends, Quiet, x
  <1>2. CASE LoadMemory(t)
    <2>1. PICK c \in Reads(t), s \in Reads(t) :
              Become(t, IF IsValid(c) THEN LoadReturned(r, s)
                        ELSE [r EXCEPT !.pc = "readCache"])
      BY <1>2 DEF LoadMemory
    <2>2. Quiet /\ r.pc = "load"
      BY <1>2 DEF LoadMemory, Quiet
    <2>3. Keeps(r, [r EXCEPT !.pc = "readCache"], "readCache")
      BY <1>r DEF Keeps, Same, ThreadState
    <2>4. LET y == LoadReturned(r, s) IN Rest(y) \/ Returns(r, y, s)
      BY <1>r, LoadReturnedGoesOn DEF Returns
    <2>5. QED
      BY <2>1, <2>2, <2>3, <2>4, <1>b DEF Turn, Ends, Remembers, Misses, x
  <1>3. CASE LoadCache(t)
    <2> DEFINE y == [r EXCEPT !.pc = "store", !.cur = cache, !.via = "cached"]
               z == [r EXCEPT !.pc = "boot", !.cur = cache]
    <2>1. y.pc = "store" /\ y.cur = cache /\ y.via = "cached" /\ Same(r, y)
      BY <1>r DEF Same, ThreadState
    <2>2. z.pc = "boot" /\ z.cur = cache /\ z.via = r.via /\ Same(r, z)
      BY <1>r DEF Same, ThreadState
    <2>3. Become(t, IF IsValid(cache) THEN y ELSE z) /\ Quiet /\ r.pc = "readCache"
      BY <1>3 DEF LoadCache, Quiet
    <2> HIDE DEF y, z
    <2>4. QED
      BY <2>1, <2>2, <2>3, <1>b DEF Turn, FindsCached, FindsStale, x
  <1>4. CASE LoadBootstrap(t)
    <2>1. PICK pr \in PsaLookup(PsaRefresh), pa \in PsaLookup(PsaAccess) :
            Become(t, AfterBootstrap(r, BootstrapSession(r.cur, pr, pa)))
      BY <1>4 DEF LoadBootstrap
    <2> DEFINE b == BootstrapSession(r.cur, pr, pa)
               y == [r EXCEPT !.pc = "store", !.cur = b, !.via = "booted"]
    <2>2. Quiet /\ r.pc = "boot"
      BY <1>4 DEF LoadBootstrap, Quiet
    <2>3. y.pc = "store" /\ y.cur = b /\ y.via = "booted" /\ Same(r, y)
      BY <1>r DEF Same, ThreadState
    <2>4. Rest(CallRefresh(r, b, "load")) \/ Posts(r, CallRefresh(r, b, "load"), b, "load")
      BY <1>r, CallRefreshPosts
    <2>5. Become(t, IF IsValid(b) THEN y ELSE CallRefresh(r, b, "load"))
      BY <2>1 DEF AfterBootstrap
    <2> HIDE DEF y, b
    <2>6. Rest(x) \/ (IsValid(b) /\ x.pc = "store" /\ x.cur = b /\ x.via = "booted" /\ Same(r, x))
                  \/ (~IsValid(b) /\ Posts(r, x, b, "load"))
      BY <2>3, <2>4, <2>5, <1>b
    <2>7. Turn(t, r, x)
      BY <2>2, <2>6 DEF Turn, Ends, Boots, b
    <2>8. QED
      BY <2>5, <2>7, <1>b DEF x
  <1>5. CASE StoreSession(t)
    <2>1. Keeps(r, [r EXCEPT !.pc = "persist"], "persist")
      BY <1>r DEF Keeps, Same, ThreadState
    <2>2. LET y == LoadReturned(r, r.cur) IN Rest(y) \/ Returns(r, y, r.cur)
      BY <1>r, LoadReturnedGoesOn DEF Returns
    <2>3. QED
      BY <1>5, <2>1, <2>2, <1>b DEF StoreSession, Turn, StoresIt, x
  <1>6. CASE Persist(t)
    <2>1. LET y == LoadReturned(r, r.cur) IN Rest(y) \/ Returns(r, y, r.cur)
      BY <1>r, LoadReturnedGoesOn DEF Returns
    <2>2. LET y == RefreshReturned(r) IN
           \/ Rest(y)
           \/ r.via = "get" /\ Sends(r, y, r.cur.access)
           \/ r.via = "load" /\ Keeps(r, y, "restore")
           \/ r.via = "retry" /\ y.pc = "load" /\ y.cur = NoSession /\ Same(r, y) /\ y.via = "none"
      BY <1>r, RefreshReturnedGoesOn DEF Keeps
    <2>3. cache' = r.cur \/ (PersistMayFail /\ cache' = cache)
      <3>1. cache' \in {r.cur} \cup (IF PersistMayFail THEN {cache} ELSE {})
        BY <1>6 DEF Persist, Persisted
      <3>2. CASE PersistMayFail
        BY <3>1, <3>2
      <3>3. CASE ~PersistMayFail
        BY <3>1, <3>3
      <3>4. QED
        BY <3>2, <3>3
    <2>4. Become(t, IF r.via = "booted" THEN LoadReturned(r, r.cur) ELSE RefreshReturned(r))
      BY <1>6 DEF Persist
    <2>5. r.pc = "persist" /\ UNCHANGED <<session_, issued, revoked>>
      BY <1>6 DEF Persist
    <2> DEFINE y == IF r.via = "booted" THEN LoadReturned(r, r.cur) ELSE RefreshReturned(r)
    <2>6. \/ Rest(y)
          \/ r.via = "booted" /\ Returns(r, y, r.cur)
          \/ r.via = "get" /\ Sends(r, y, r.cur.access)
          \/ r.via = "load" /\ Keeps(r, y, "restore")
          \/ r.via = "retry" /\ y.pc = "load" /\ y.cur = NoSession /\ Same(r, y) /\ y.via = "none"
      BY <2>1, <2>2
    <2> HIDE DEF y
    <2>7. Persists(t, r, y)
      BY <2>3, <2>5, <2>6 DEF Persists
    <2>8. QED
      BY <2>4, <2>7, <1>b DEF Turn, x, y
  <1>7. CASE RestoreSession(t)
    <2>1. LET y == LoadReturned(r, r.cur) IN Rest(y) \/ Returns(r, y, r.cur)
      BY <1>r, LoadReturnedGoesOn DEF Returns
    <2>2. QED
      BY <1>7, <2>1, <1>b DEF RestoreSession, Turn, Restores, x
  <1>8. CASE SelectMemory(t)
    <2>1. PICK s \in Reads(t) :
              Become(t, IF s = NoSession THEN [r EXCEPT !.pc = "selectCache"]
                        ELSE CallRefresh(r, s, "retry"))
      BY <1>8 DEF SelectMemory
    <2>2. Keeps(r, [r EXCEPT !.pc = "selectCache"], "selectCache")
      BY <1>r DEF Keeps, Same, ThreadState
    <2>3. Rest(CallRefresh(r, s, "retry")) \/ Posts(r, CallRefresh(r, s, "retry"), s, "retry")
      BY <1>r, CallRefreshPosts
    <2>4. Quiet /\ r.pc = "select"
      BY <1>8 DEF SelectMemory, Quiet
    <2>5. QED
      BY <2>1, <2>2, <2>3, <2>4, <1>b DEF Turn, Ends, SelectsMemory, x
  <1>9. CASE SelectCache(t)
    <2>1. PICK pr \in PsaLookup(PsaRefresh), pa \in PsaLookup(PsaAccess) :
              Become(t, CallRefresh(r, IF cache # NoSession THEN cache
                               ELSE BootstrapSession(NoSession, pr, pa), "retry"))
      BY <1>9 DEF SelectCache
    <2>2. Quiet /\ r.pc = "selectCache"
      BY <1>9 DEF SelectCache, Quiet
    <2>3. \A s : LET y == CallRefresh(r, s, "retry") IN Rest(y) \/ Posts(r, y, s, "retry")
      BY <1>r, CallRefreshPosts
    <2>4. CASE cache # NoSession
      BY <2>1, <2>2, <2>3, <2>4, <1>b DEF Turn, Ends, SelectsCache, x
    <2>5. CASE cache = NoSession
      BY <2>1, <2>2, <2>3, <2>5, <1>b DEF Turn, Ends, SelectsCache, x
    <2>6. QED
      BY <2>4, <2>5
  <1>10. CASE RefreshGranted(t)
    <2> DEFINE y(s) == [r EXCEPT !.pc = "store", !.posts = @ + 1, !.cur = s]
    <2>1. PICK new : /\ new = issued + 1 \/ (~RotationRevokes /\ new = r.cur.refresh)
                     /\ Become(t, y([access |-> issued + 1, refresh |-> new, exp |-> issued + 1]))
      BY <1>10 DEF RefreshGranted, GrantedSession
    <2> DEFINE s == [access |-> issued + 1, refresh |-> new, exp |-> issued + 1]
    <2>2. s.access = issued + 1 /\ s.exp = issued + 1 /\ s.refresh = new
      OBVIOUS
    <2> HIDE DEF s
    <2>3. y(s).pc = "store" /\ y(s).cur = s /\ y(s).via = r.via /\ Same(r, y(s))
      BY <1>r DEF Same, ThreadState
    <2>4. x = y(s) /\ \A u \in Threads \ {t} : th'[u] = th[u]
      BY <2>1, <1>b DEF s
    <2> HIDE DEF y
    <2>5. /\ r.pc = "post" /\ UNCHANGED <<session_, cache>>
          /\ r.cur.refresh \notin revoked /\ issued' = issued + 1
          /\ revoked' = IF RotationRevokes THEN revoked \cup {r.cur.refresh} ELSE revoked
      BY <1>10 DEF RefreshGranted
    <2>6. IsGranted(t, r, x)
      BY <2>1, <2>2, <2>3, <2>4, <2>5 DEF IsGranted
    <2>7. QED
      BY <2>4, <2>6 DEF Turn, x
  <1>11. CASE RefreshLost(t)
    <2>1. LosesAnswer(t, r, Idle)
      BY <1>11, IdleRests DEF RefreshLost, LosesAnswer
    <2>2. QED
      BY <1>11, <2>1, <1>b DEF RefreshLost, Turn, x
  <1>12. CASE RefreshFailed(t)
    BY <1>12, <1>b, IdleRests DEF RefreshFailed, Turn, Ends, Quiet, x
  <1>13. CASE GraphAnswered(t)
    BY <1>13, <1>b, IdleRests DEF GraphAnswered, Turn, Ends, Quiet, x
  <1>14. CASE GraphRejected(t)
    <2> DEFINE y == [r EXCEPT !.pc = "reset", !.attempt = 1, !.rej = r.tok, !.tok = 0]
    <2>1. /\ y.pc = "reset" /\ y.cur = r.cur /\ y.via = r.via
          /\ y.attempt = 1 /\ y.rej = r.tok /\ y.tok = 0
      BY <1>r DEF ThreadState
    <2>2. Become(t, IF r.attempt = 0 THEN y ELSE Idle) /\ Quiet /\ r.pc = "send" /\ r.tok \in dead
      BY <1>14 DEF GraphRejected, AfterRejection, Quiet
    <2> HIDE DEF y
    <2>3. QED
      BY <2>1, <2>2, <1>b, IdleRests DEF Turn, Ends, IsRejected, x
  <1>15. CASE Invalidate(t)
    <2>1. Keeps(r, [r EXCEPT !.pc = "select"], "select")
      BY <1>r DEF Keeps, Same, ThreadState
    <2>2. QED
      BY <1>15, <2>1, <1>b DEF Invalidate, Turn, Invalidates, x
  <1>16. QED
    BY <1>1, <1>2, <1>3, <1>4, <1>5, <1>6, <1>7, <1>8, <1>9, <1>10, <1>11,
       <1>12, <1>13, <1>14, <1>15 DEF Advance

-----------------------------------------------------------------------------
(* The cache keeps its refresh token                                       *)

\* 1Password always answers with a refresh token.
PsaHasRefresh == ~PsaMayFail /\ PsaRefresh # 0

\* Whatever thread r is about to write to the cache, or to refresh, can be refreshed.
CarriesRefresh(r) ==
    /\ r.pc = "boot" => r.cur.refresh # 0 \/ PsaHasRefresh
    /\ r.pc = "store" /\ r.via # "cached" => r.cur.refresh # 0
    /\ r.pc \in {"post", "persist"} => r.cur.refresh # 0

RefreshableInv ==
    /\ cache.refresh # 0 \/ PsaHasRefresh
    /\ \A t \in Threads : CarriesRefresh(th[t])

\* There is no refresh token anywhere.
NoRefreshInv ==
    /\ cache.refresh = 0
    /\ \A p \in Procs : session_[p].refresh = 0
    /\ \A t \in Threads : th[t].cur.refresh = 0 /\ th[t].pc # "post"

\* LoadBootstrap only lacks a refresh token if both of its sources do.
LEMMA BootstrapKeepsRefresh ==
    ASSUME NEW c \in Session, c.refresh # 0 \/ PsaHasRefresh,
           NEW pr \in PsaLookup(PsaRefresh), NEW pa
    PROVE  BootstrapSession(c, pr, pa).refresh # 0
  <1>1. CASE c.refresh # 0
    BY <1>1 DEF BootstrapSession, FirstOf
  <1>2. CASE c.refresh = 0
    <2>1. PsaHasRefresh
      BY <1>2
    <2>2. pr = PsaRefresh
      BY <2>1 DEF PsaHasRefresh, PsaLookup
    <2>3. QED
      BY <1>2, <2>1, <2>2 DEF BootstrapSession, FirstOf, PsaHasRefresh
  <1>3. QED
    BY <1>1, <1>2

\* No turn puts a session without a refresh token on its way to the cache.
LEMMA TurnCarriesRefresh ==
    ASSUME TypeOK, RefreshableInv, NEW t \in Threads, NEW x, Turn(t, th[t], x)
    PROVE  CarriesRefresh(x) /\ (cache' = cache \/ cache'.refresh # 0)
  <1> DEFINE r == th[t]
  <1>r. /\ r.cur \in Session /\ CarriesRefresh(r)
        /\ cache \in Session /\ (cache.refresh # 0 \/ PsaHasRefresh)
    BY DEF TypeOK, ThreadState, RefreshableInv
  <1> HIDE DEF r
  <1>m. \A s, via : Posts(r, x, s, via) => CarriesRefresh(x)
    BY DEF Posts, CarriesRefresh
  <1>n. \A s : Returns(r, x, s) => CarriesRefresh(x)
    BY DEF Returns, Posts, Sends, CarriesRefresh
  <1>o. Rest(x) => CarriesRefresh(x)
    BY DEF Rest, CarriesRefresh
  <1>1. CASE Ends(t, r, x) \/ LosesAnswer(t, r, x)
    BY <1>1, <1>o DEF Ends, LosesAnswer, Quiet
  <1>2. CASE Remembers(t, r, x) \/ Misses(t, r, x)
    BY <1>2, <1>n DEF Remembers, Misses, Keeps, Quiet, CarriesRefresh
  <1>3. CASE FindsCached(t, r, x) \/ FindsStale(t, r, x)
    BY <1>3, <1>r DEF FindsCached, FindsStale, Quiet, CarriesRefresh
  <1>4. CASE Boots(t, r, x)
    <2>1. PICK pr \in PsaLookup(PsaRefresh), pa \in PsaLookup(PsaAccess) :
            LET b == BootstrapSession(r.cur, pr, pa) IN
            \/ IsValid(b) /\ x.pc = "store" /\ x.cur = b /\ x.via = "booted" /\ Same(r, x)
            \/ ~IsValid(b) /\ Posts(r, x, b, "load")
      BY <1>4 DEF Boots
    <2>2. BootstrapSession(r.cur, pr, pa).refresh # 0
      BY <1>4, <1>r, BootstrapKeepsRefresh DEF Boots, CarriesRefresh
    <2>3. CarriesRefresh(x)
      BY <2>1, <2>2, <1>m DEF CarriesRefresh
    <2>4. QED
      BY <1>4, <2>3 DEF Boots, Quiet
  <1>5. CASE StoresIt(t, r, x)
    BY <1>5, <1>r, <1>n, <1>o DEF StoresIt, Keeps, CarriesRefresh
  <1>6. CASE Persists(t, r, x)
    <2>1. r.cur.refresh # 0
      BY <1>6, <1>r DEF Persists, CarriesRefresh
    <2>2. CarriesRefresh(x)
      BY <1>6, <1>n, <1>o DEF Persists, Sends, Keeps, CarriesRefresh
    <2>3. QED
      BY <1>6, <2>1, <2>2 DEF Persists
  <1>7. CASE Restores(t, r, x)
    BY <1>7, <1>n, <1>o DEF Restores
  <1>8. CASE SelectsMemory(t, r, x) \/ SelectsCache(t, r, x)
    BY <1>8, <1>m DEF SelectsMemory, SelectsCache, Keeps, Quiet, CarriesRefresh
  <1>9. CASE IsGranted(t, r, x)
    <2>1. issued + 1 # 0
      BY DEF TypeOK
    <2>2. x.cur.refresh # 0
      BY <1>9, <1>r, <2>1 DEF IsGranted, CarriesRefresh
    <2>3. QED
      BY <1>9, <2>2 DEF IsGranted, CarriesRefresh
  <1>10. CASE IsRejected(t, r, x) \/ Invalidates(t, r, x)
    BY <1>10 DEF IsRejected, Invalidates, Keeps, Quiet, CarriesRefresh
  <1>11. QED
    BY <1>1, <1>2, <1>3, <1>4, <1>5, <1>6, <1>7, <1>8, <1>9, <1>10 DEF Turn, r

\* A step that starts an operation, or kills one, or that the environment takes.
LEMMA OtherSteps ==
    ASSUME TypeOK, [Next]_vars, \A t \in Threads : ~Advance(t)
    PROVE  /\ UNCHANGED <<cache, issued, revoked>>
           /\ \A t \in Threads :
                \/ th'[t] = th[t]
                \/ th'[t] = Idle /\ ProcOf[t] \in MayCrash
                \/ /\ th[t].pc = "idle"
                   /\ \E pc \in {"load", "listen"}, op \in Ops :
                         th'[t] = [Idle EXCEPT !.pc = pc, !.op = op]
           /\ \A p \in Procs :
                \/ session_'[p] = session_[p]
                \/ /\ session_'[p] = NoSession /\ p \in MayCrash
                   /\ \A t \in Threads : ProcOf[t] = p => th'[t] = Idle
                \/ /\ session_'[p] = NoSession
                   /\ \A t \in Threads : ProcOf[t] = p => th[t].pc = "idle"
                   /\ \E t \in Threads : ProcOf[t] = p /\
                        \E pc \in {"load", "listen"}, op \in Ops :
                            th'[t] = [Idle EXCEPT !.pc = pc, !.op = op]
  <1> USE DEF TypeOK, World, Become, At
  <1> DEFINE Others(t) ==
               \/ th'[t] = th[t]
               \/ th'[t] = Idle /\ ProcOf[t] \in MayCrash
               \/ /\ th[t].pc = "idle"
                  /\ \E pc \in {"load", "listen"}, op \in Ops :
                        th'[t] = [Idle EXCEPT !.pc = pc, !.op = op]
             Wiped(p) ==
               \/ session_'[p] = session_[p]
               \/ /\ session_'[p] = NoSession /\ p \in MayCrash
                  /\ \A t \in Threads : ProcOf[t] = p => th'[t] = Idle
               \/ /\ session_'[p] = NoSession
                  /\ \A t \in Threads : ProcOf[t] = p => th[t].pc = "idle"
                  /\ \E t \in Threads : ProcOf[t] = p /\
                       \E pc \in {"load", "listen"}, op \in Ops :
                           th'[t] = [Idle EXCEPT !.pc = pc, !.op = op]
             Goal == /\ UNCHANGED <<cache, issued, revoked>>
                     /\ \A t \in Threads : Others(t)
                     /\ \A p \in Procs : Wiped(p)
  <1>1. ASSUME NEW t \in Threads, StartProcess(t) PROVE Goal
    <2>1. \E op \in Ops, pc \in {"load", "listen"} :
              Become(t, [Idle EXCEPT !.pc = pc, !.op = op])
      BY <1>1 DEF StartProcess, Ops
    <2>2. th[t].pc = "idle"
      BY <1>1 DEF StartProcess
    <2>3. \A u \in Threads : Others(u)
      BY <2>1, <2>2
    <2>4. \A p \in Procs : Wiped(p)
      <3>1. \E op \in Ops, pc \in {"load", "listen"} :
                th'[t] = [Idle EXCEPT !.pc = pc, !.op = op]
        BY <2>1
      <3>2. /\ session_' = [session_ EXCEPT ![ProcOf[t]] = NoSession]
            /\ \A u \in Threads : ProcOf[u] = ProcOf[t] => th[u].pc = "idle"
        BY <1>1 DEF StartProcess
      <3>3. ASSUME NEW p \in Procs, p = ProcOf[t] PROVE Wiped(p)
        BY <3>1, <3>2, <3>3
      <3>4. ASSUME NEW p \in Procs, p # ProcOf[t] PROVE Wiped(p)
        BY <3>2, <3>4
      <3>5. QED
        BY <3>3, <3>4
    <2>5. QED
      BY <1>1, <2>3, <2>4 DEF StartProcess
  <1>2. ASSUME NEW t \in Threads, StartHandler(t) PROVE Goal
    <2>1. \E op \in Ops : Become(t, [Idle EXCEPT !.pc = "load", !.op = op])
      BY <1>2 DEF StartHandler, Ops
    <2>2. th[t].pc = "idle"
      BY <1>2 DEF StartHandler
    <2>3. \A u \in Threads : Others(u)
      BY <2>1, <2>2
    <2>4. QED
      BY <1>2, <2>3 DEF StartHandler
  <1>3. ASSUME NEW g \in Grants, Lapse(g) \/ GraphDrops(g) PROVE Goal
    BY <1>3 DEF Lapse, GraphDrops
  <1>4. ASSUME NEW p \in Procs, Crash(p) PROVE Goal
    BY <1>4 DEF Crash
  <1>5. CASE UNCHANGED vars
    BY <1>5 DEF vars
  <1>6. QED
    BY <1>1, <1>2, <1>3, <1>4, <1>5 DEF Next

\* A thread that has just been started, or has just ended, has nothing to write.
LEMMA StartedIsQuiet ==
    ASSUME NEW x, \/ x = Idle
                  \/ \E pc \in {"load", "listen"}, op \in Ops :
                         x = [Idle EXCEPT !.pc = pc, !.op = op]
    PROVE  /\ x.pc \in {"idle", "load", "listen"} /\ x.via = "none"
           /\ x.attempt = 0 /\ x.tok = 0 /\ x.rej = 0 /\ x.cur = NoSession
  <1>1. CASE x = Idle
    BY <1>1 DEF Idle
  <1>2. ASSUME NEW pc \in {"load", "listen"}, NEW op, x = [Idle EXCEPT !.pc = pc, !.op = op]
        PROVE  /\ x.pc = pc /\ x.via = "none"
               /\ x.attempt = 0 /\ x.tok = 0 /\ x.rej = 0 /\ x.cur = NoSession
    BY <1>2 DEF Idle
  <1>3. QED
    BY <1>1, <1>2

LEMMA NextRefreshable ==
    ASSUME TypeOK, RefreshableInv, [Next]_vars
    PROVE  RefreshableInv' /\ (cache.refresh # 0 => cache'.refresh # 0)
  <1>1. ASSUME NEW t \in Threads, Advance(t)
        PROVE  RefreshableInv' /\ (cache.refresh # 0 => cache'.refresh # 0)
    <2>1. /\ CarriesRefresh(th'[t]) /\ (cache' = cache \/ cache'.refresh # 0)
          /\ \A u \in Threads \ {t} : th'[u] = th[u]
      BY <1>1, AdvanceIsTurn, TurnCarriesRefresh
    <2>2. QED
      BY <2>1 DEF RefreshableInv, CarriesRefresh, PsaHasRefresh
  <1>2. CASE \A t \in Threads : ~Advance(t)
    <2>1. UNCHANGED cache
      BY <1>2, OtherSteps
    <2>2. ASSUME NEW t \in Threads PROVE CarriesRefresh(th'[t])
      <3>1. CASE th'[t] = th[t]
        BY <3>1 DEF RefreshableInv
      <3>2. CASE th'[t].pc \in {"idle", "load", "listen"}
        BY <3>2 DEF CarriesRefresh
      <3>3. QED
        BY <1>2, <3>1, <3>2, OtherSteps, StartedIsQuiet
    <2>3. QED
      BY <2>1, <2>2 DEF RefreshableInv, CarriesRefresh, PsaHasRefresh
  <1>3. QED
    BY <1>1, <1>2

\* From nothing a step makes no refresh token, unless 1Password has one.
LEMMA TurnFindsNoRefresh ==
    ASSUME TypeOK, NoRefreshInv, PsaRefresh = 0, ~PsaMayFail,
           NEW t \in Threads, NEW x, Turn(t, th[t], x)
    PROVE  /\ x.cur.refresh = 0 /\ x.pc # "post" /\ cache'.refresh = 0
           /\ \A p \in Procs : session_'[p].refresh = 0
  <1> DEFINE r == th[t]
  <1>r. /\ r.cur.refresh = 0 /\ r.pc # "post" /\ cache.refresh = 0
        /\ \A p \in Procs : session_[p].refresh = 0
    BY DEF NoRefreshInv
  <1>p. ProcOf[t] \in Procs /\ session_ \in [Procs -> Session]
    BY GraphTokenAssumption DEF TypeOK
  <1>n. NoSession.refresh = 0
    BY DEF NoSession
  <1>u. \A u \in Threads : Pending(u).refresh = 0
    BY <1>n DEF Pending, NoRefreshInv
  <1>a. \A s \in Reads(t) : s.refresh = 0
    BY <1>r, <1>p, <1>u DEF Reads, Mixtures, Writers
  <1>s. ASSUME NEW s, s.refresh = 0, NEW z \in Stores(t, s) PROVE z.refresh = 0
    BY <1>s, <1>u DEF Stores, Mixtures, Writers
  <1>b. ASSUME NEW c, c.refresh = 0, NEW pr \in PsaLookup(PsaRefresh), NEW pa
        PROVE  BootstrapSession(c, pr, pa).refresh = 0
    BY <1>b DEF BootstrapSession, FirstOf, PsaLookup
  <1>x. \A s, via : s.refresh = 0 => ~Posts(r, x, s, via)
    BY DEF Posts
  <1>y. \A s : s.refresh = 0 /\ Returns(r, x, s) => x.cur.refresh = 0 /\ x.pc # "post"
    BY <1>n, <1>x DEF Returns, Sends
  <1>z. Rest(x) => x.cur.refresh = 0 /\ x.pc # "post"
    BY <1>n DEF Rest
  <1> HIDE DEF r
  <1>1. CASE Ends(t, r, x)
    BY <1>1, <1>r, <1>z DEF Ends, Quiet
  <1>2. CASE LosesAnswer(t, r, x)
    BY <1>2, <1>r, <1>z DEF LosesAnswer
  <1>3. CASE Remembers(t, r, x) \/ Misses(t, r, x)
    BY <1>3, <1>r, <1>a, <1>y DEF Remembers, Misses, Keeps, Quiet
  <1>4. CASE FindsCached(t, r, x) \/ FindsStale(t, r, x)
    BY <1>4, <1>r DEF FindsCached, FindsStale, Quiet
  <1>5. CASE Boots(t, r, x)
    <2>1. PICK pr \in PsaLookup(PsaRefresh), pa \in PsaLookup(PsaAccess) :
            LET b == BootstrapSession(r.cur, pr, pa) IN
            \/ IsValid(b) /\ x.pc = "store" /\ x.cur = b /\ x.via = "booted" /\ Same(r, x)
            \/ ~IsValid(b) /\ Posts(r, x, b, "load")
      BY <1>5 DEF Boots
    <2>2. BootstrapSession(r.cur, pr, pa).refresh = 0
      BY <1>r, <1>b
    <2>3. x.cur.refresh = 0 /\ x.pc # "post"
      BY <2>1, <2>2, <1>x
    <2>4. QED
      BY <1>5, <2>3, <1>r DEF Boots, Quiet
  <1>6. ASSUME NEW s, s.refresh = 0,
               \E z \in Stores(t, s) : session_' = [session_ EXCEPT ![ProcOf[t]] = z]
        PROVE  \A p \in Procs : session_'[p].refresh = 0
    <2>1. PICK z : z.refresh = 0 /\ session_' = [session_ EXCEPT ![ProcOf[t]] = z]
      BY <1>6, <1>s
    <2>2. QED
      BY <1>r, <1>p, <2>1
  <1>7. CASE StoresIt(t, r, x)
    BY <1>7, <1>r, <1>y, <1>z, <1>6 DEF StoresIt, Keeps
  <1>8. CASE Persists(t, r, x)
    <2>1. cache'.refresh = 0 /\ UNCHANGED session_
      BY <1>8, <1>r DEF Persists
    <2>2. x.cur.refresh = 0 /\ x.pc # "post"
      BY <1>8, <1>r, <1>y, <1>z, <1>n DEF Persists, Sends, Keeps
    <2>3. QED
      BY <1>r, <2>1, <2>2
  <1>9. CASE Restores(t, r, x)
    BY <1>9, <1>r, <1>y, <1>z, <1>6 DEF Restores
  <1>10. CASE SelectsMemory(t, r, x)
    BY <1>10, <1>r, <1>a, <1>x DEF SelectsMemory, Keeps, Quiet
  <1>11. CASE SelectsCache(t, r, x)
    BY <1>11, <1>r, <1>b, <1>x, <1>n DEF SelectsCache, Quiet
  <1>12. CASE IsGranted(t, r, x)
    BY <1>12, <1>r DEF IsGranted
  <1>13. CASE IsRejected(t, r, x)
    BY <1>13, <1>r DEF IsRejected, Quiet
  <1>14. CASE Invalidates(t, r, x)
    BY <1>14, <1>r, <1>n, <1>6 DEF Invalidates, Keeps
  <1>15. QED
    BY <1>1, <1>2, <1>3, <1>4, <1>5, <1>7, <1>8, <1>9, <1>10, <1>11, <1>12,
       <1>13, <1>14 DEF Turn, r

LEMMA NextNoRefresh ==
    ASSUME TypeOK, NoRefreshInv, PsaRefresh = 0, ~PsaMayFail, [Next]_vars
    PROVE  NoRefreshInv'
  <1>n. NoSession.refresh = 0
    BY DEF NoSession
  <1>1. ASSUME NEW t \in Threads, Advance(t) PROVE NoRefreshInv'
    <2>1. /\ Turn(t, th[t], th'[t]) /\ \A u \in Threads \ {t} : th'[u] = th[u]
      BY <1>1, AdvanceIsTurn
    <2>2. QED
      BY <2>1, TurnFindsNoRefresh DEF NoRefreshInv
  <1>2. CASE \A t \in Threads : ~Advance(t)
    <2>1. cache'.refresh = 0 /\ \A p \in Procs : session_'[p].refresh = 0
      BY <1>2, <1>n, OtherSteps DEF NoRefreshInv
    <2>2. ASSUME NEW t \in Threads PROVE th'[t].cur.refresh = 0 /\ th'[t].pc # "post"
      <3>1. CASE th'[t] = th[t]
        BY <3>1 DEF NoRefreshInv
      <3>2. CASE th'[t].pc \in {"idle", "load", "listen"} /\ th'[t].cur = NoSession
        BY <3>2, <1>n
      <3>3. QED
        BY <1>2, <3>1, <3>2, OtherSteps, StartedIsQuiet
    <2>3. QED
      BY <2>1, <2>2 DEF NoRefreshInv
  <1>3. QED
    BY <1>1, <1>2

\* If 1psa does not fail, or a cache with a refresh token is there from the
\* start, Persist (token.cpp) never replaces a cached session that can be
\* refreshed by one that cannot, in however many processes and threads.
THEOREM RefreshTokenIsKept ==
    ASSUME ~PsaMayFail \/ (\A c \in InitCaches : c.refresh # 0)
    PROVE  Spec => CacheKeepsRefresh
  <1> DEFINE Inv == RefreshableInv \/ (NoRefreshInv /\ PsaRefresh = 0 /\ ~PsaMayFail)
  <1>1. Init => Inv
    <2> SUFFICES ASSUME Init PROVE Inv
      OBVIOUS
    <2>1. \A t \in Threads : CarriesRefresh(th[t]) /\ th[t].cur.refresh = 0 /\ th[t].pc # "post"
      BY DEF Init, CarriesRefresh, Idle, NoSession
    <2>2. \A p \in Procs : session_[p].refresh = 0
      BY DEF Init, NoSession
    <2>3. CASE cache.refresh # 0 \/ PsaHasRefresh
      BY <2>1, <2>3 DEF RefreshableInv
    <2>4. CASE cache.refresh = 0 /\ ~PsaHasRefresh
      BY <2>1, <2>2, <2>4 DEF NoRefreshInv, PsaHasRefresh, Init
    <2>5. QED
      BY <2>3, <2>4
  <1>2. TypeOK /\ Inv /\ [Next]_vars => Inv'
    BY NextRefreshable, NextNoRefresh
  <1>3. TypeOK /\ Inv /\ [Next]_vars => [cache.refresh # 0 => cache'.refresh # 0]_vars
    BY NextRefreshable DEF NoRefreshInv
  <1>4. QED
    BY <1>1, <1>2, <1>3, TypeCorrect, PTL DEF Spec, CacheKeepsRefresh

-----------------------------------------------------------------------------
(* A refresh token that works is never lost                                *)

OneThreadPerProcess == \A t, u \in Threads : ProcOf[t] = ProcOf[u] => t = u

\* LoadBootstrap never finds a session that is valid as it is: the cache has
\* an expiry that is judged first, or the tokens beside it have none.
BootstrapRefreshes ==
    \/ \A c \in InitCaches : c.access # 0
    \/ {EnvAccess, PsaAccess} \cap Jwts = {}

\* What waits for its bootstrap has an expiry if the cache started with one.
HasAccess(r) ==
    /\ r.pc = "boot" => r.cur.exp # 0
    /\ r.pc \in {"store", "persist"} => r.cur.access # 0
AccessInv ==
    (\A c \in InitCaches : c.access # 0) =>
        cache.access # 0 /\ \A t \in Threads : HasAccess(th[t])

\* A thread that holds a grant nobody else has seen yet.
HoldsGrant(r) == r.pc \in {"store", "persist"} /\ r.via # "cached"
HoldsRight(r) ==
    /\ r.pc \in {"post", "store", "persist"} => r.via # "booted"
    /\ r.pc \in {"post", "persist"} => r.via # "cached"
    /\ r.pc = "boot" => Paired(r.cur)
GrantInv == \A t \in Threads : HoldsRight(th[t])

\* A thread that shares its manager with nobody reads what is there.
LEMMA OneThreadReads ==
    ASSUME OneThreadPerProcess, TypeOK, NEW t \in Threads
    PROVE  Reads(t) = {session_[ProcOf[t]]}
  <1>1. {Pending(u) : u \in Writers(t)} = {}
    BY DEF Writers, OneThreadPerProcess
  <1>2. session_[ProcOf[t]] \in Session
    BY GraphTokenAssumption DEF TypeOK
  <1>3. QED
    BY <1>1, <1>2, MixturesSingleton DEF Reads

\* An expiry that LoadBootstrap takes over is stale already, and none is decoded.
LEMMA BootstrapIsInvalid ==
    ASSUME TypeOK, BootstrapRefreshes, PairingInv, AccessInv, GrantInv,
           NEW t \in Threads, th[t].pc = "boot",
           NEW pr, NEW pa \in PsaLookup(PsaAccess)
    PROVE  ~IsValid(BootstrapSession(th[t].cur, pr, pa))
  <1> DEFINE c == th[t].cur
             b == BootstrapSession(c, pr, pa)
  <1>1. c.exp \in stale \cup {0} /\ c.exp = c.access
    BY DEF PairingInv, GrantInv, HoldsRight, Paired
  <1>2. CASE c.exp # 0
    <2>1. b.exp = c.exp
      BY <1>2 DEF BootstrapSession, FirstOf
    <2>2. QED
      BY <1>1, <1>2, <2>1 DEF IsValid
  <1>3. CASE c.exp = 0
    <2>1. {EnvAccess, PsaAccess} \cap Jwts = {}
      BY <1>3 DEF BootstrapRefreshes, AccessInv, HasAccess
    <2>2. 0 \notin Jwts
      BY GraphTokenAssumption DEF Grants
    <2>3. pa \in {0, PsaAccess}
      BY DEF PsaLookup
    <2>4. b.access \in {0, EnvAccess, PsaAccess}
      BY <1>1, <1>3, <2>3 DEF BootstrapSession, FirstOf
    <2>5. b.exp = 0
      BY <1>3, <2>1, <2>2, <2>4 DEF BootstrapSession, FirstOf
    <2>6. QED
      BY <2>5 DEF IsValid
  <1>4. QED
    BY <1>2, <1>3

\* Sessions with an access token lead to sessions with an access token.
LEMMA TurnAccess ==
    ASSUME TypeOK, PairingInv, AccessInv, \A c \in InitCaches : c.access # 0,
           NEW t \in Threads, NEW x, Turn(t, th[t], x)
    PROVE  HasAccess(x) /\ cache'.access # 0
  <1> DEFINE r == th[t]
  <1>r. HasAccess(r) /\ cache.access # 0 /\ cache.exp = cache.access
    BY DEF AccessInv, PairingInv, CachePaired, Paired
  <1> HIDE DEF r
  <1>m. \A s, via : Posts(r, x, s, via) => HasAccess(x)
    BY DEF Posts, HasAccess
  <1>n. \A s : Returns(r, x, s) => HasAccess(x)
    BY DEF Returns, Posts, Sends, HasAccess
  <1>o. Rest(x) => HasAccess(x)
    BY DEF Rest, HasAccess
  <1>1. CASE Ends(t, r, x) \/ LosesAnswer(t, r, x)
    BY <1>1, <1>o, <1>r DEF Ends, LosesAnswer, Quiet
  <1>2. CASE Remembers(t, r, x) \/ Misses(t, r, x)
    BY <1>2, <1>n, <1>r DEF Remembers, Misses, Keeps, Quiet, HasAccess
  <1>3. CASE FindsCached(t, r, x) \/ FindsStale(t, r, x)
    BY <1>3, <1>r DEF FindsCached, FindsStale, Quiet, HasAccess
  <1>4. CASE Boots(t, r, x)
    <2>1. \E b : \/ IsValid(b) /\ x.pc = "store" /\ x.cur = b /\ x.via = "booted" /\ Same(r, x)
                 \/ ~IsValid(b) /\ Posts(r, x, b, "load")
      BY <1>4 DEF Boots
    <2>2. HasAccess(x)
      BY <2>1, <1>m DEF HasAccess, IsValid
    <2>3. QED
      BY <1>4, <2>2, <1>r DEF Boots, Quiet
  <1>5. CASE StoresIt(t, r, x)
    BY <1>5, <1>r, <1>n, <1>o DEF StoresIt, Keeps, HasAccess
  <1>6. CASE Persists(t, r, x)
    <2>1. r.cur.access # 0
      BY <1>6, <1>r DEF Persists, HasAccess
    <2>2. HasAccess(x)
      BY <1>6, <1>n, <1>o DEF Persists, Sends, Keeps, HasAccess
    <2>3. QED
      BY <1>6, <1>r, <2>1, <2>2 DEF Persists
  <1>7. CASE Restores(t, r, x)
    BY <1>7, <1>n, <1>o, <1>r DEF Restores
  <1>8. CASE SelectsMemory(t, r, x) \/ SelectsCache(t, r, x)
    BY <1>8, <1>m, <1>r DEF SelectsMemory, SelectsCache, Keeps, Quiet, HasAccess
  <1>9. CASE IsGranted(t, r, x)
    <2>1. issued + 1 # 0
      BY DEF TypeOK
    <2>2. QED
      BY <1>9, <1>r, <2>1 DEF IsGranted, HasAccess
  <1>10. CASE IsRejected(t, r, x) \/ Invalidates(t, r, x)
    BY <1>10, <1>r DEF IsRejected, Invalidates, Keeps, Quiet, HasAccess
  <1>11. QED
    BY <1>1, <1>2, <1>3, <1>4, <1>5, <1>6, <1>7, <1>8, <1>9, <1>10 DEF Turn, r

\* What a thread posts or persists was neither booted nor read from the cache.
LEMMA TurnGrant ==
    ASSUME TypeOK, PairingInv, BootstrapRefreshes, AccessInv, GrantInv,
           NEW t \in Threads, NEW x, Turn(t, th[t], x)
    PROVE  HoldsRight(x)
  <1> DEFINE r == th[t]
  <1>r. HoldsRight(r) /\ Paired(cache)
    BY DEF GrantInv, PairingInv, CachePaired
  <1>b. \A pr, pa : r.pc = "boot" /\ pa \in PsaLookup(PsaAccess) =>
            ~IsValid(BootstrapSession(r.cur, pr, pa))
    BY BootstrapIsInvalid
  <1> HIDE DEF r
  <1>m. \A s, via : Posts(r, x, s, via) /\ via \notin {"booted", "cached"} => HoldsRight(x)
    BY DEF Posts, HoldsRight
  <1>n. \A s : Returns(r, x, s) => HoldsRight(x)
    BY <1>m DEF Returns, Sends, HoldsRight
  <1>o. Rest(x) => HoldsRight(x)
    BY DEF Rest, HoldsRight
  <1>1. CASE Ends(t, r, x) \/ LosesAnswer(t, r, x)
    BY <1>1, <1>o DEF Ends, LosesAnswer
  <1>2. CASE Remembers(t, r, x) \/ Misses(t, r, x)
    BY <1>2, <1>n DEF Remembers, Misses, Keeps, HoldsRight
  <1>3. CASE FindsCached(t, r, x) \/ FindsStale(t, r, x)
    BY <1>3, <1>r DEF FindsCached, FindsStale, HoldsRight
  <1>4. CASE Boots(t, r, x)
    <2>1. \E b : Posts(r, x, b, "load")
      BY <1>4, <1>b DEF Boots
    <2>2. QED
      BY <2>1, <1>m
  <1>5. CASE StoresIt(t, r, x)
    BY <1>5, <1>r, <1>n, <1>o DEF StoresIt, Keeps, HoldsRight
  <1>6. CASE Persists(t, r, x)
    BY <1>6, <1>n, <1>o DEF Persists, Sends, Keeps, HoldsRight
  <1>7. CASE Restores(t, r, x)
    BY <1>7, <1>n, <1>o DEF Restores
  <1>8. CASE SelectsMemory(t, r, x) \/ SelectsCache(t, r, x)
    BY <1>8, <1>m DEF SelectsMemory, SelectsCache, Keeps, HoldsRight
  <1>9. CASE IsGranted(t, r, x)
    BY <1>9, <1>r DEF IsGranted, HoldsRight
  <1>10. CASE IsRejected(t, r, x) \/ Invalidates(t, r, x)
    BY <1>10 DEF IsRejected, Invalidates, Keeps, HoldsRight
  <1>11. QED
    BY <1>1, <1>2, <1>3, <1>4, <1>5, <1>6, <1>7, <1>8, <1>9, <1>10 DEF Turn, r

\* Both invariants are kept.
LEMMA NextGrant ==
    ASSUME BootstrapRefreshes, TypeOK, PairingInv, AccessInv, GrantInv, [Next]_vars
    PROVE  AccessInv' /\ GrantInv'
  <1>1. ASSUME NEW t \in Threads, Advance(t) PROVE AccessInv' /\ GrantInv'
    <2>1. /\ Turn(t, th[t], th'[t]) /\ \A u \in Threads \ {t} : th'[u] = th[u]
      BY <1>1, AdvanceIsTurn
    <2>2. HoldsRight(th'[t])
      BY <2>1, TurnGrant
    <2>3. (\A c \in InitCaches : c.access # 0) => HasAccess(th'[t]) /\ cache'.access # 0
      BY <2>1, TurnAccess
    <2>4. QED
      BY <2>1, <2>2, <2>3 DEF AccessInv, GrantInv
  <1>2. CASE \A t \in Threads : ~Advance(t)
    <2>1. UNCHANGED cache
      BY <1>2, OtherSteps
    <2>2. ASSUME NEW t \in Threads
          PROVE  th'[t] = th[t] \/ th'[t].pc \in {"idle", "load", "listen"}
      BY <1>2, OtherSteps, StartedIsQuiet
    <2>3. QED
      BY <2>1, <2>2 DEF AccessInv, GrantInv, HoldsRight, HasAccess
  <1>3. QED
    BY <1>1, <1>2

LEMMA InitGrant == Init => AccessInv /\ GrantInv
  BY DEF Init, AccessInv, GrantInv, HoldsRight, HasAccess, Idle

-----------------------------------------------------------------------------
Used == revoked \cup {0}

\* The refresh token the next session starts from, if none is on its way.
Root == IF cache.refresh # 0 THEN cache.refresh ELSE PsaRefresh

\* All refresh tokens are used up but one: that of the thread that holds a
\* grant or, if there is none, the root.
Behind(r) ==
    /\ ~HoldsGrant(r) => r.cur.refresh \in Used \cup {Root}
    /\ r.pc = "boot" /\ r.cur.refresh = 0 => PsaRefresh \in Used \cup {Root}
    /\ r.pc = "post" => r.cur.refresh # 0
    /\ HoldsGrant(r) =>
         /\ r.cur.refresh \notin Used /\ r.cur.refresh <= issued
         /\ Root \in Used

LineageInv ==
    /\ \A t \in Threads : Behind(th[t])
    /\ \A t, u \in Threads : HoldsGrant(th[t]) /\ HoldsGrant(th[u]) => t = u
    /\ \A p \in Procs :
         \/ session_[p].refresh \in Used \cup {Root}
         \/ \E t \in Threads : /\ HoldsGrant(th[t]) /\ ProcOf[t] = p
                               /\ session_[p].refresh = th[t].cur.refresh
    /\ (\A t \in Threads : ~HoldsGrant(th[t])) => Root \notin Used
    /\ Root <= issued /\ \A g \in revoked : g <= issued

\* Nothing is lost on the way to the cache, and nobody is killed.
NothingIsLost == ~ResponseMayBeLost /\ ~PersistMayFail /\ MayCrash = {}

\* A turn that brings no grant, nor brings one to the cache.
LEMMA OldTurn ==
    ASSUME OneThreadPerProcess, NothingIsLost,
           TypeOK, BootstrapRefreshes, PairingInv, AccessInv, GrantInv, LineageInv,
           NEW t \in Threads, NEW x, Turn(t, th[t], x),
           ~IsGranted(t, th[t], x), ~(Persists(t, th[t], x) /\ HoldsGrant(th[t]))
    PROVE  /\ UNCHANGED <<cache, issued, revoked>>
           /\ Behind(x) /\ (HoldsGrant(x) <=> HoldsGrant(th[t]))
           /\ \A p \in Procs : \/ session_'[p] = session_[p]
                               \/ session_'[p].refresh \in Used \cup {Root}
                               \/ /\ p = ProcOf[t] /\ HoldsGrant(x)
                                  /\ session_'[p].refresh = x.cur.refresh
  <1> DEFINE r == th[t]
             q == ProcOf[t]
             Goal == /\ UNCHANGED <<cache, issued, revoked>>
                     /\ Behind(x) /\ (HoldsGrant(x) <=> HoldsGrant(r))
                     /\ \A p \in Procs : \/ session_'[p] = session_[p]
                                         \/ session_'[p].refresh \in Used \cup {Root}
                                         \/ /\ p = ProcOf[t] /\ HoldsGrant(x)
                                            /\ session_'[p].refresh = x.cur.refresh
  <1>r. Behind(r) /\ HoldsRight(r) /\ r.cur \in Session
    BY DEF LineageInv, GrantInv, TypeOK, ThreadState
  <1>q. q \in Procs /\ session_ \in [Procs -> Session]
    BY GraphTokenAssumption DEF TypeOK
  <1>s. Reads(t) = {session_[q]} /\ Stores(t, r.cur) = {r.cur} /\ Stores(t, NoSession) = {NoSession}
    BY <1>r, OneThreadReads, OneThreadStores, NoSessionType DEF OneThreadPerProcess
  <1>h. ~HoldsGrant(r) => session_[q].refresh \in Used \cup {Root}
    BY <1>q DEF LineageInv, OneThreadPerProcess
  <1>0. 0 \in Used /\ NoSession.refresh = 0
    BY DEF Used, NoSession
  <1>c. cache.refresh \in Used \cup {Root}
    BY DEF Root, Used
  <1>b. \A pr, pa : r.pc = "boot" /\ pa \in PsaLookup(PsaAccess) =>
            ~IsValid(BootstrapSession(r.cur, pr, pa))
    BY BootstrapIsInvalid
  <1> SUFFICES Goal
    OBVIOUS
  <1> HIDE DEF r, q
  <1>m. \A s, via : /\ Posts(r, x, s, via) /\ s.refresh \in Used \cup {Root}
                    => Behind(x) /\ ~HoldsGrant(x)
    BY DEF Posts, Behind, HoldsGrant
  <1>n. \A s : Returns(r, x, s) /\ s.refresh \in Used \cup {Root}
                    => Behind(x) /\ ~HoldsGrant(x)
    <2>1. \A a : Sends(r, x, a) => Behind(x) /\ ~HoldsGrant(x)
      BY <1>0 DEF Sends, Behind, HoldsGrant
    <2>2. QED
      BY <1>m, <2>1 DEF Returns
  <1>o. Rest(x) => Behind(x) /\ ~HoldsGrant(x)
    BY <1>0 DEF Rest, Behind, HoldsGrant
  <1>k. ASSUME NEW pc \in Pcs \ {"boot", "post", "store", "persist"}, Keeps(r, x, pc),
               ~HoldsGrant(r)
        PROVE  Behind(x) /\ ~HoldsGrant(x)
    BY <1>k, <1>r DEF Keeps, Behind, HoldsGrant
  <1>p. ASSUME NEW s, session_' = [session_ EXCEPT ![q] = s], s.refresh \in Used \cup {Root}
        PROVE  \A p \in Procs : session_'[p] = session_[p]
                                \/ session_'[p].refresh \in Used \cup {Root}
    BY <1>p, <1>q
  <1>1. CASE Ends(t, r, x)
    <2>1. ~HoldsGrant(r)
      BY <1>1 DEF Ends, HoldsGrant
    <2>2. QED
      BY <1>1, <1>o, <2>1 DEF Ends, Quiet
  <1>2. CASE LosesAnswer(t, r, x)
    BY <1>2 DEF LosesAnswer, NothingIsLost
  <1>3. CASE Remembers(t, r, x) \/ Misses(t, r, x)
    <2>1. ~HoldsGrant(r)
      BY <1>3 DEF Remembers, Misses, HoldsGrant
    <2>2. QED
      BY <1>3, <2>1, <1>s, <1>h, <1>n, <1>k DEF Remembers, Misses, Quiet, Pcs
  <1>4. CASE FindsCached(t, r, x) \/ FindsStale(t, r, x)
    <2>1. ~HoldsGrant(r) /\ ~HoldsGrant(x)
      BY <1>4 DEF FindsCached, FindsStale, HoldsGrant
    <2>2. x.cur = cache /\ x.pc \in {"store", "boot"} /\ Quiet
      BY <1>4 DEF FindsCached, FindsStale
    <2>3. cache.refresh = 0 => PsaRefresh = Root
      BY DEF Root
    <2>4. QED
      BY <2>1, <2>2, <2>3, <1>c DEF Behind, Quiet
  <1>5. CASE Boots(t, r, x)
    <2>1. PICK pr \in PsaLookup(PsaRefresh), pa \in PsaLookup(PsaAccess) :
              Posts(r, x, BootstrapSession(r.cur, pr, pa), "load")
      BY <1>5, <1>b DEF Boots
    <2> DEFINE b == BootstrapSession(r.cur, pr, pa)
    <2>2. b.refresh \in {0, r.cur.refresh} \/ (r.cur.refresh = 0 /\ b.refresh = PsaRefresh)
      BY DEF BootstrapSession, FirstOf, PsaLookup
    <2>3. ~HoldsGrant(r) /\ r.pc = "boot" /\ Quiet
      BY <1>5 DEF Boots, HoldsGrant
    <2>4. b.refresh \in Used \cup {Root}
      BY <1>0, <1>r, <2>2, <2>3 DEF Behind
    <2>5. Behind(x) /\ ~HoldsGrant(x)
      BY <1>m, <2>1, <2>4
    <2>6. QED
      BY <2>3, <2>5 DEF Quiet
  <1>6. CASE StoresIt(t, r, x)
    <2>1. session_' = [session_ EXCEPT ![q] = r.cur] /\ UNCHANGED <<cache, issued, revoked>>
      BY <1>6, <1>s DEF StoresIt, q
    <2>2. CASE r.via = "cached"
      <3>1. ~HoldsGrant(r) /\ r.cur.refresh \in Used \cup {Root}
        BY <2>2, <1>r DEF HoldsGrant, Behind
      <3>2. Behind(x) /\ ~HoldsGrant(x)
        BY <1>6, <2>2, <3>1, <1>n, <1>o DEF StoresIt
      <3>3. QED
        BY <2>1, <3>1, <3>2, <1>p
    <2>3. CASE r.via # "cached"
      <3>1. x.cur = r.cur /\ x.pc = "persist" /\ x.via = r.via /\ r.pc = "store"
        BY <1>6, <2>3 DEF StoresIt, Keeps
      <3>2. HoldsGrant(r) /\ HoldsGrant(x)
        BY <2>3, <3>1 DEF HoldsGrant
      <3>3. Behind(x)
        BY <1>r, <3>1, <3>2 DEF Behind
      <3>4. \A p \in Procs : session_'[p] = session_[p] \/ (p = q /\ session_'[p] = x.cur)
        BY <1>q, <2>1, <3>1
      <3>5. QED
        BY <2>1, <3>2, <3>3, <3>4 DEF q
    <2>4. QED
      BY <2>2, <2>3
  <1>7. CASE Persists(t, r, x)
    BY <1>7, <1>r DEF Persists, HoldsGrant, HoldsRight, r
  <1>8. CASE Restores(t, r, x)
    <2>1. ~HoldsGrant(r) /\ session_' = [session_ EXCEPT ![q] = r.cur]
      BY <1>8, <1>s DEF Restores, HoldsGrant, q
    <2>2. r.cur.refresh \in Used \cup {Root}
      BY <2>1, <1>r DEF Behind
    <2>3. Behind(x) /\ ~HoldsGrant(x) /\ UNCHANGED <<cache, issued, revoked>>
      BY <1>8, <2>2, <1>n, <1>o DEF Restores
    <2>4. QED
      BY <2>1, <2>2, <2>3, <1>p
  <1>9. CASE SelectsMemory(t, r, x)
    <2>1. ~HoldsGrant(r)
      BY <1>9 DEF SelectsMemory, HoldsGrant
    <2>2. QED
      BY <1>9, <2>1, <1>s, <1>h, <1>m, <1>k DEF SelectsMemory, Quiet, Pcs
  <1>10. CASE SelectsCache(t, r, x)
    <2>1. ~HoldsGrant(r) /\ Quiet
      BY <1>10 DEF SelectsCache, HoldsGrant
    <2>2. CASE Posts(r, x, cache, "retry")
      BY <2>1, <2>2, <1>c, <1>m DEF Quiet
    <2>3. CASE cache = NoSession /\ \E pr \in PsaLookup(PsaRefresh), pa \in PsaLookup(PsaAccess) :
                 Posts(r, x, BootstrapSession(NoSession, pr, pa), "retry")
      <3>1. PICK pr \in PsaLookup(PsaRefresh), pa \in PsaLookup(PsaAccess) :
                 Posts(r, x, BootstrapSession(NoSession, pr, pa), "retry")
        BY <2>3
      <3>2. BootstrapSession(NoSession, pr, pa).refresh \in {0, PsaRefresh}
        BY <1>0 DEF BootstrapSession, FirstOf, PsaLookup
      <3>3. PsaRefresh = Root
        BY <2>3, <1>0 DEF Root
      <3>4. QED
        BY <2>1, <3>1, <3>2, <3>3, <1>0, <1>m DEF Quiet
    <2>4. QED
      BY <1>10, <2>2, <2>3 DEF SelectsCache
  <1>11. CASE IsGranted(t, r, x)
    BY <1>11 DEF r
  <1>12. CASE IsRejected(t, r, x)
    <2>1. ~HoldsGrant(r) /\ ~HoldsGrant(x) /\ Quiet /\ x.cur = r.cur /\ x.pc = "reset"
      BY <1>12 DEF IsRejected, HoldsGrant
    <2>2. QED
      BY <2>1, <1>r DEF Behind, Quiet
  <1>13. CASE Invalidates(t, r, x)
    <2>1. ~HoldsGrant(r) /\ session_' = [session_ EXCEPT ![q] = NoSession]
      BY <1>13, <1>s DEF Invalidates, HoldsGrant, q
    <2>2. QED
      BY <1>13, <2>1, <1>0, <1>k, <1>p DEF Invalidates, Pcs
  <1>14. QED
    BY <1>1, <1>2, <1>3, <1>4, <1>5, <1>6, <1>7, <1>8, <1>9, <1>10, <1>11,
       <1>12, <1>13 DEF Turn, r

\* What the set of used tokens was, it is; and nothing else was the root.
LEMMA NextLineage ==
    ASSUME OneThreadPerProcess, NothingIsLost, RotationRevokes,
           TypeOK, BootstrapRefreshes, PairingInv, AccessInv, GrantInv, LineageInv,
           [Next]_vars
    PROVE  LineageInv'
  <1>p. \A t \in Threads : ProcOf[t] \in Procs /\ th[t].cur \in Session
    BY GraphTokenAssumption DEF TypeOK, ThreadState
  <1>i. issued \in Nat /\ issued' \in Nat
    <2>1. TypeOK'
      BY NextType
    <2>2. QED
      BY <2>1, GraphTokenAssumption DEF TypeOK
  <1>1. ASSUME NEW t \in Threads, Turn(t, th[t], th'[t]),
               \A u \in Threads \ {t} : th'[u] = th[u],
               ~IsGranted(t, th[t], th'[t]), ~(Persists(t, th[t], th'[t]) /\ HoldsGrant(th[t]))
        PROVE  LineageInv'
    <2>1. /\ UNCHANGED <<cache, issued, revoked>>
          /\ Behind(th'[t]) /\ (HoldsGrant(th'[t]) <=> HoldsGrant(th[t]))
          /\ \A p \in Procs : \/ session_'[p] = session_[p]
                              \/ session_'[p].refresh \in Used \cup {Root}
                              \/ /\ p = ProcOf[t] /\ HoldsGrant(th'[t])
                                 /\ session_'[p].refresh = th'[t].cur.refresh
      BY <1>1, OldTurn
    <2>2. Used' = Used /\ Root' = Root
      BY <2>1 DEF Used, Root
    <2>3. \A u \in Threads : Behind(th'[u])
      BY <1>1, <2>1 DEF LineageInv
    <2>4. \A u \in Threads : (Behind(th[u]))' <=> Behind(th'[u])
      BY <2>1, <2>2 DEF Behind, HoldsGrant
    <2>5. \A u \in Threads : HoldsGrant(th'[u]) <=> HoldsGrant(th[u])
      BY <1>1, <2>1
    <2>6. ASSUME NEW p \in Procs
          PROVE \/ session_'[p].refresh \in Used \cup {Root}
                \/ \E u \in Threads : /\ HoldsGrant(th'[u]) /\ ProcOf[u] = p
                                      /\ session_'[p].refresh = th'[u].cur.refresh
      <3>1. CASE session_'[p] = session_[p]
        <4>1. CASE session_[p].refresh \in Used \cup {Root}
          BY <3>1, <4>1
        <4>2. CASE \E u \in Threads : /\ HoldsGrant(th[u]) /\ ProcOf[u] = p
                                      /\ session_[p].refresh = th[u].cur.refresh
          <5>1. PICK u \in Threads : /\ HoldsGrant(th[u]) /\ ProcOf[u] = p
                                      /\ session_[p].refresh = th[u].cur.refresh
            BY <4>2
          <5>2. CASE u # t
            BY <1>1, <3>1, <5>1, <5>2, <2>5
          <5>3. CASE u = t
            <6>1. th'[t].cur = th[t].cur
              <7>1. th[t].pc \in {"store", "persist"} /\ th[t].via # "cached"
                BY <5>1, <5>3 DEF HoldsGrant
              <7>2. th'[t].pc \in {"store", "persist"}
                BY <2>5, <5>1, <5>3 DEF HoldsGrant
              <7>3. StoresIt(t, th[t], th'[t])
                BY <1>1, <5>1, <5>3, <7>1, <7>2
                   DEF Turn, Ends, LosesAnswer, Remembers, Misses, FindsCached, FindsStale,
                       Boots, Persists, Restores, SelectsMemory, SelectsCache, IsGranted,
                       IsRejected, Invalidates, NothingIsLost
              <7>4. QED
                BY <7>1, <7>3 DEF StoresIt, Keeps
            <6>2. QED
              BY <3>1, <5>1, <5>3, <6>1, <2>5
          <5>4. QED
            BY <5>2, <5>3
        <4>3. QED
          BY <4>1, <4>2 DEF LineageInv
      <3>2. CASE session_'[p].refresh \in Used \cup {Root}
        BY <3>2
      <3>3. QED
        BY <2>1, <3>1, <3>2
    <2>7. QED
      BY <2>1, <2>2, <2>3, <2>4, <2>5, <2>6 DEF LineageInv, HoldsGrant
  \* The root is used for a grant: the thread alone holds what can be refreshed.
  <1>2. ASSUME NEW t \in Threads, \A u \in Threads \ {t} : th'[u] = th[u],
               IsGranted(t, th[t], th'[t])
        PROVE  LineageInv'
    <2> DEFINE r == th[t]
               x == th'[t]
    <2>1. /\ r.pc = "post" /\ UNCHANGED <<session_, cache>>
          /\ r.cur.refresh \notin revoked /\ issued' = issued + 1
          /\ revoked' = revoked \cup {r.cur.refresh}
          /\ x.pc = "store" /\ x.via = r.via /\ x.cur.refresh = issued + 1
      BY <1>2 DEF IsGranted
    <2>2. ~HoldsGrant(r) /\ HoldsGrant(x) /\ r.cur.refresh # 0 /\ r.cur.refresh \in Used \cup {Root}
      BY <2>1 DEF HoldsGrant, GrantInv, HoldsRight, LineageInv, Behind
    <2>3. r.cur.refresh = Root /\ Root \notin Used
      BY <2>1, <2>2 DEF Used
    <2>4. \A u \in Threads : ~HoldsGrant(th[u])
      BY <2>3 DEF LineageInv, Behind
    <2>5. Root' = Root /\ Used' = Used \cup {Root}
      BY <2>1, <2>3 DEF Root, Used
    <2>6. \A g \in Used' : g <= issued
      BY <1>i, <2>5 DEF LineageInv, Used
    <2>7. ASSUME NEW u \in Threads, u # t PROVE (Behind(th[u]))' /\ ~HoldsGrant(th'[u])
      <3>1. th'[u] = th[u] /\ ~HoldsGrant(th[u]) /\ Behind(th[u])
        BY <1>2, <2>4, <2>7 DEF LineageInv
      <3>2. QED
        BY <3>1, <2>5 DEF Behind, HoldsGrant
    <2>8. (Behind(th[t]))'
      <3>1. issued + 1 \notin Used' /\ issued + 1 <= issued'
        BY <1>i, <2>1, <2>6
      <3>2. QED
        BY <2>1, <2>2, <2>5, <3>1 DEF Behind, HoldsGrant
    <2>9. \A p \in Procs : session_'[p].refresh \in Used'
      BY <2>1, <2>4, <2>5 DEF LineageInv
    <2>10. Root' <= issued' /\ \A g \in revoked' : g <= issued'
      <3> HIDE DEF r
      <3>1. Root \in Nat /\ revoked \subseteq Nat
        <4>1. Tokens \subseteq Nat
          BY GraphTokenAssumption DEF Tokens
        <4>2. r.cur.refresh \in Tokens
          BY <1>p DEF Session, r
        <4>3. QED
          BY <2>3, <4>1, <4>2 DEF TypeOK
      <3>2. Root <= issued /\ \A g \in revoked : g <= issued
        BY DEF LineageInv
      <3>3. Root <= issued' /\ \A g \in revoked \cup {Root} : g <= issued'
        <4>1. ASSUME NEW g \in Nat, g <= issued PROVE g <= issued'
          BY <4>1, <1>i, <2>1
        <4>2. QED
          BY <4>1, <3>1, <3>2
      <3>4. QED
        BY <2>1, <2>3, <2>5, <3>3 DEF r
    <2>11. \A u \in Threads : (Behind(th[u]))' /\ (HoldsGrant(th'[u]) => u = t)
      BY <2>7, <2>8
    <2>12. HoldsGrant(th'[t])
      BY <2>2
    <2>13. QED
      BY <2>9, <2>10, <2>11, <2>12 DEF LineageInv, HoldsGrant
  \* The granted session becomes the cache, and its refresh token the root.
  <1>3. ASSUME NEW t \in Threads, \A u \in Threads \ {t} : th'[u] = th[u],
               Persists(t, th[t], th'[t]), HoldsGrant(th[t])
        PROVE  LineageInv'
    <2> DEFINE r == th[t]
               x == th'[t]
               k == r.cur.refresh
    <2>1. UNCHANGED <<session_, issued, revoked>> /\ cache' = r.cur /\ r.pc = "persist"
      BY <1>3 DEF Persists, NothingIsLost
    <2>2. k \notin Used /\ k <= issued /\ Root \in Used /\ k # 0
      BY <1>3 DEF LineageInv, Behind, Used
    <2>3. Root' = k /\ Used' = Used
      BY <2>1, <2>2 DEF Root, Used
    <2>4. /\ ~HoldsGrant(x) /\ x.cur.refresh \in {0, k} /\ x.pc # "boot"
          /\ x.pc = "post" => x.cur.refresh # 0
      <3>1. \A s, via : Posts(r, x, s, via) => x.pc = "post" /\ x.cur = s /\ s.refresh # 0
        BY DEF Posts
      <3>2. \A a : Sends(r, x, a) => x.pc = "send" /\ x.cur = NoSession
        BY DEF Sends
      <3>3. Rest(x) => x.pc \in {"idle", "listen"} /\ x.cur = NoSession
        BY DEF Rest
      <3>4. NoSession.refresh = 0
        BY DEF NoSession
      <3>5. \/ x.pc \in {"idle", "listen", "send", "load"} /\ x.cur = NoSession
            \/ x.pc = "restore" /\ x.cur = r.cur
            \/ x.pc = "post" /\ x.cur = r.cur /\ r.cur.refresh # 0
        BY <1>3, <3>1, <3>2, <3>3 DEF Persists, Returns, Keeps
      <3>6. QED
        BY <3>4, <3>5 DEF HoldsGrant
    <2>5. ASSUME NEW u \in Threads, u # t PROVE (Behind(th[u]))' /\ ~HoldsGrant(th'[u])
      <3>1. th'[u] = th[u] /\ ~HoldsGrant(th[u]) /\ Behind(th[u])
        BY <1>3, <2>5 DEF LineageInv
      <3>2. QED
        BY <3>1, <2>2, <2>3 DEF Behind, HoldsGrant
    <2>6. (Behind(th[t]))'
      BY <2>3, <2>4 DEF Behind, HoldsGrant, Used
    <2>7. ASSUME NEW p \in Procs PROVE session_'[p].refresh \in Used' \cup {Root'}
      <3>1. CASE session_[p].refresh \in Used \cup {Root}
        BY <3>1, <2>1, <2>2, <2>3
      <3>2. ASSUME NEW u \in Threads, HoldsGrant(th[u]), session_[p].refresh = th[u].cur.refresh
            PROVE  session_'[p].refresh \in Used' \cup {Root'}
        <4>1. u = t
          BY <1>3, <3>2 DEF LineageInv
        <4>2. QED
          BY <3>2, <4>1, <2>1, <2>3
      <3>3. QED
        BY <3>1, <3>2 DEF LineageInv
    <2>8. Root' <= issued' /\ (\A g \in revoked' : g <= issued') /\ Root' \notin Used'
      BY <2>1, <2>2, <2>3 DEF LineageInv
    <2>9. QED
      BY <2>4, <2>5, <2>6, <2>7, <2>8 DEF LineageInv, HoldsGrant
  <1>4. CASE \A t \in Threads : ~Advance(t)
    <2>1. UNCHANGED <<cache, issued, revoked>>
      BY <1>4, OtherSteps
    <2>2. Used' = Used /\ Root' = Root /\ 0 \in Used /\ NoSession.refresh = 0
      BY <2>1 DEF Used, Root, NoSession
    <2>3. ASSUME NEW t \in Threads
          PROVE  \/ th'[t] = th[t]
                 \/ /\ th'[t].pc \in {"idle", "load", "listen"} /\ th'[t].cur = NoSession
                    /\ th[t].pc = "idle"
      BY <1>4, OtherSteps, StartedIsQuiet DEF NothingIsLost
    <2>4. \A t \in Threads : (Behind(th[t]))' /\ (HoldsGrant(th'[t]) <=> HoldsGrant(th[t]))
      BY <2>1, <2>2, <2>3 DEF LineageInv, Behind, HoldsGrant
    <2>5. ASSUME NEW p \in Procs
          PROVE \/ session_'[p].refresh \in Used \cup {Root}
                \/ \E u \in Threads : /\ HoldsGrant(th'[u]) /\ ProcOf[u] = p
                                      /\ session_'[p].refresh = th'[u].cur.refresh
      <3>1. session_'[p] = session_[p] \/ session_'[p] = NoSession
        BY <1>4, OtherSteps
      <3>2. \A u \in Threads : HoldsGrant(th[u]) => th'[u] = th[u]
        BY <2>3 DEF HoldsGrant
      <3>3. QED
        BY <2>2, <3>1, <3>2 DEF LineageInv
    <2>6. QED
      BY <2>1, <2>2, <2>4, <2>5 DEF LineageInv, HoldsGrant
  <1>5. ASSUME NEW t \in Threads, Advance(t) PROVE LineageInv'
    BY <1>5, <1>1, <1>2, <1>3, AdvanceIsTurn
  <1>6. QED
    BY <1>4, <1>5

\* At the start the root is the refresh token of the file or of 1Password.
LEMMA InitLineage ==
    ASSUME Init, PsaRefresh # 0 \/ \A c \in InitCaches : c.refresh # 0
    PROVE  LineageInv
  <1>1. NoSession.refresh = 0 /\ Idle.pc = "idle" /\ Idle.cur = NoSession
    BY DEF NoSession, Idle
  <1>2. Used = {0} /\ \A t \in Threads : th[t] = Idle
    BY DEF Init, Used
  <1>3. Root # 0 /\ Root <= issued
    BY SeedsAssumption, GraphTokenAssumption DEF Init, Root
  <1>4. \A t \in Threads : ~HoldsGrant(th[t]) /\ Behind(th[t])
    BY <1>1, <1>2 DEF HoldsGrant, Behind
  <1>5. \A p \in Procs : session_[p].refresh \in Used
    BY <1>1, <1>2 DEF Init
  <1>6. QED
    BY <1>2, <1>3, <1>4, <1>5 DEF LineageInv, Init

\* With one thread per process and no failure between the endpoint and the cache
\* file, Refresh and Persist (token.cpp) never lose the last refresh token that
\* works, whichever process refreshes when, and whether or not the provider
\* rotates them.  Each hypothesis is needed: TLC finds the token lost without it.
THEOREM LineageIsKept ==
    ASSUME OneThreadPerProcess, NothingIsLost, BootstrapRefreshes,
           PsaRefresh # 0 \/ \A c \in InitCaches : c.refresh # 0
    PROVE  Spec => []LineageKept
  <1>1. CASE RotationRevokes
    <2>1. Init => AccessInv /\ GrantInv /\ LineageInv
      BY InitGrant, InitLineage
    <2>2. TypeOK /\ PairingInv /\ AccessInv /\ GrantInv /\ LineageInv /\ [Next]_vars
              => (AccessInv /\ GrantInv /\ LineageInv)'
      BY <1>1, NextGrant, NextLineage
    <2>3. LineageInv => LineageKept
      <3>1. SUFFICES ASSUME LineageInv, \A t \in Threads : th[t].pc \notin {"store", "persist"}
                     PROVE  {cache.refresh, PsaRefresh} \ (revoked \cup {0}) # {}
        BY DEF LineageKept
      <3>2. Root \notin revoked \cup {0}
        BY <3>1 DEF LineageInv, HoldsGrant, Used
      <3>3. QED
        BY <3>2 DEF Root
    <2>4. QED
      BY <2>1, <2>2, <2>3, PairingInvariant, PTL DEF Spec
  \* Nothing is ever revoked.
  <1>2. CASE ~RotationRevokes
    <2> DEFINE Inv == /\ revoked = {}
                      /\ PsaRefresh # 0 \/ (RefreshableInv /\ cache.refresh # 0)
    <2>1. Init => Inv
      BY DEF Init, RefreshableInv, CarriesRefresh, Idle
    <2>2. TypeOK /\ Inv /\ [Next]_vars => Inv'
      <3> SUFFICES ASSUME TypeOK, Inv, [Next]_vars PROVE Inv'
        OBVIOUS
      <3>1. revoked' = revoked
        <4>1. ASSUME NEW t \in Threads, Advance(t) PROVE revoked' = revoked
          <5>1. Turn(t, th[t], th'[t])
            BY <4>1, AdvanceIsTurn
          <5>2. QED
            BY <5>1, <1>2
               DEF Turn, Ends, LosesAnswer, Remembers, Misses, FindsCached, FindsStale,
                   Boots, StoresIt, Persists, Restores, SelectsMemory, SelectsCache, IsGranted,
                   IsRejected, Invalidates, NothingIsLost, Quiet
        <4>2. QED
          BY <4>1, OtherSteps
      <3>2. RefreshableInv => RefreshableInv' /\ (cache.refresh # 0 => cache'.refresh # 0)
        BY NextRefreshable
      <3>3. QED
        BY <3>1, <3>2
    <2>3. Inv => LineageKept
      BY DEF LineageKept
    <2>4. QED
      BY <2>1, <2>2, <2>3, TypeCorrect, PTL DEF Spec
  <1>3. QED
    BY <1>1, <1>2

-----------------------------------------------------------------------------
(* The retry is sent with a new token                                      *)

\* A thread that is about to store or to write its session.
Writes(r) == r.pc \in {"store", "persist", "restore"}

\* The access tokens a thread has in its hands.
Memory(t) == session_[ProcOf[t]].access
Knows(t, a) == \/ a \in {0, cache.access, Memory(t), th[t].tok, th[t].rej}
               \/ Writes(th[t]) /\ a = th[t].cur.access

\* In attempt 1, once the retry has refreshed, the refused token is gone from
\* the memory m of the process and from the cache c.
Refreshed(r) == /\ r.pc \notin {"reset", "select", "selectCache"}
                /\ ~(r.via = "retry" /\ r.pc \in {"post", "store", "persist"})
Worth(r, m, c) ==
    r.attempt = 1 =>
        /\ Writes(r) => r.cur.access # r.rej
        /\ r.pc = "send" => r.tok # r.rej
        /\ Refreshed(r) => c # r.rej /\ m # r.rej

RetryInv ==
    \A t \in Threads :
        /\ Worth(th[t], Memory(t), cache.access)
        /\ \A a : Knows(t, a) => a \in 0..issued
        /\ th[t].pc = "persist" => session_[ProcOf[t]] = th[t].cur
        \* a granted token is its thread's own until it is in the cache
        /\ HoldsGrant(th[t]) => \A u \in Threads \ {t} : ~Knows(u, th[t].cur.access)

\* Hypotheses of all the lemmas below.
Settled == /\ TypeOK /\ BootstrapRefreshes /\ PairingInv /\ AccessInv /\ GrantInv
           /\ OneThreadPerProcess /\ ~PersistMayFail

\* Memory after a turn, and what can have become of the cache.
LEMMA TurnWrites ==
    ASSUME Settled, NEW t \in Threads, NEW x, Turn(t, th[t], x),
           th[t].pc = "persist" => session_[ProcOf[t]] = th[t].cur
    PROVE  /\ \A p \in Procs \ {ProcOf[t]} : session_'[p] = session_[p]
           /\ session_'[ProcOf[t]] \in
                  IF th[t].pc \in {"store", "restore"} THEN {th[t].cur}
                  ELSE {session_[ProcOf[t]], NoSession}
           /\ cache' = cache \/ (HoldsGrant(th[t]) /\ cache' = th[t].cur)
           /\ x.pc = "persist" => session_'[ProcOf[t]] = x.cur
           /\ issued' \in {issued, issued + 1}
  <1> DEFINE r == th[t]
             q == ProcOf[t]
             Goal == /\ \A p \in Procs \ {q} : session_'[p] = session_[p]
                     /\ session_'[q] \in IF r.pc \in {"store", "restore"} THEN {r.cur}
                                         ELSE {session_[q], NoSession}
                     /\ cache' = cache \/ (HoldsGrant(r) /\ cache' = r.cur)
                     /\ x.pc = "persist" => session_'[q] = x.cur
                     /\ issued' \in {issued, issued + 1}
  <1>q. q \in Procs /\ session_ \in [Procs -> Session] /\ r.cur \in Session
    BY GraphTokenAssumption DEF Settled, TypeOK, ThreadState
  <1>s. Stores(t, r.cur) = {r.cur} /\ Stores(t, NoSession) = {NoSession}
    BY <1>q, OneThreadStores, NoSessionType DEF OneThreadPerProcess, Settled
  <1>p. \A s : session_' = [session_ EXCEPT ![q] = s]
            => session_'[q] = s /\ \A p \in Procs \ {q} : session_'[p] = session_[p]
    BY <1>q
  <1>h. r.pc = "persist" => HoldsGrant(r)
    BY DEF HoldsGrant, Settled, GrantInv, HoldsRight
  <1> SUFFICES Goal
    OBVIOUS
  <1> HIDE DEF r, q
  <1>o. Rest(x) => x.pc # "persist"
    BY DEF Rest
  <1>n. \A s : Returns(r, x, s) => x.pc # "persist"
    BY DEF Returns, Sends, Posts
  <1>m. \A s, via : Posts(r, x, s, via) => x.pc # "persist"
    BY DEF Posts
  <1>1. CASE Ends(t, r, x) \/ LosesAnswer(t, r, x)
    <2>1. r.pc \notin {"store", "restore"}
      BY <1>1 DEF Ends, LosesAnswer
    <2>2. QED
      BY <1>1, <1>o, <2>1 DEF Ends, LosesAnswer, Quiet
  <1>2. CASE Remembers(t, r, x) \/ Misses(t, r, x)
    BY <1>2, <1>n DEF Remembers, Misses, Keeps, Quiet
  <1>3. CASE FindsCached(t, r, x) \/ FindsStale(t, r, x)
    BY <1>3 DEF FindsCached, FindsStale, Quiet
  <1>4. CASE Boots(t, r, x)
    BY <1>4, <1>m DEF Boots, Quiet
  <1>5. CASE StoresIt(t, r, x)
    <2>1. session_' = [session_ EXCEPT ![q] = r.cur]
      BY <1>5, <1>s DEF StoresIt, q
    <2>2. x.pc = "persist" => x.cur = r.cur
      BY <1>5, <1>n, <1>o DEF StoresIt, Keeps
    <2>3. r.pc = "store" /\ UNCHANGED <<cache, issued>>
      BY <1>5 DEF StoresIt
    <2>4. session_'[q] = r.cur /\ \A p \in Procs \ {q} : session_'[p] = session_[p]
      BY <2>1, <1>p
    <2>5. QED
      BY <2>2, <2>3, <2>4
  <1>6. CASE Persists(t, r, x)
    BY <1>6, <1>h, <1>n, <1>o DEF Persists, Sends, Keeps, Settled
  <1>7. CASE Restores(t, r, x)
    <2>1. session_' = [session_ EXCEPT ![q] = r.cur]
      BY <1>7, <1>s DEF Restores, q
    <2>2. r.pc = "restore" /\ UNCHANGED <<cache, issued>> /\ x.pc # "persist"
      BY <1>7, <1>n, <1>o DEF Restores
    <2>3. QED
      BY <2>1, <2>2, <1>p
  <1>8. CASE SelectsMemory(t, r, x) \/ SelectsCache(t, r, x)
    BY <1>8, <1>m DEF SelectsMemory, SelectsCache, Keeps, Quiet
  <1>9. CASE IsGranted(t, r, x)
    BY <1>9 DEF IsGranted
  <1>10. CASE IsRejected(t, r, x)
    BY <1>10 DEF IsRejected, Quiet
  <1>11. CASE Invalidates(t, r, x)
    <2>1. session_' = [session_ EXCEPT ![q] = NoSession]
      BY <1>11, <1>s DEF Invalidates, q
    <2>2. r.pc = "reset" /\ UNCHANGED <<cache, issued>> /\ x.pc # "persist"
      BY <1>11 DEF Invalidates, Keeps
    <2>3. QED
      BY <2>1, <2>2, <1>p
  <1>12. QED
    BY <1>1, <1>2, <1>3, <1>4, <1>5, <1>6, <1>7, <1>8, <1>9, <1>10, <1>11 DEF Turn, r

\* What a thread has in its hands after a turn it had before, or was just granted.
LEMMA TurnLearns ==
    ASSUME Settled, NEW t \in Threads, NEW x, Turn(t, th[t], x)
    PROVE  /\ Knows(t, x.tok) /\ Knows(t, x.rej)
           /\ Writes(x) => \/ Knows(t, x.cur.access)
                           \/ /\ IsGranted(t, th[t], x)
                              /\ x.cur.access = issued + 1 /\ issued' = issued + 1
  <1> DEFINE r == th[t]
             Goal == /\ Knows(t, x.tok) /\ Knows(t, x.rej)
                     /\ Writes(x) => \/ Knows(t, x.cur.access)
                                     \/ /\ IsGranted(t, r, x)
                                        /\ x.cur.access = issued + 1 /\ issued' = issued + 1
  <1>s. \A s \in Reads(t) : Knows(t, s.access)
    BY OneThreadReads DEF Settled, Knows, Memory
  <1>k. /\ Knows(t, 0) /\ Knows(t, r.tok) /\ Knows(t, r.rej) /\ Knows(t, cache.access)
        /\ Writes(r) => Knows(t, r.cur.access)
    BY DEF Knows
  <1>b. \A pr, pa : r.pc = "boot" /\ pa \in PsaLookup(PsaAccess) =>
            ~IsValid(BootstrapSession(r.cur, pr, pa))
    BY BootstrapIsInvalid DEF Settled
  <1> SUFFICES Goal
    OBVIOUS
  <1> HIDE DEF r
  <1>o. Rest(x) => Goal
    BY <1>k DEF Rest, Writes
  <1>n. \A s : Returns(r, x, s) /\ Knows(t, s.access) => Goal
    BY <1>k DEF Returns, Sends, Posts, Same, Writes
  <1>m. \A s, via : Posts(r, x, s, via) => Goal
    BY <1>k DEF Posts, Same, Writes
  <1>1. CASE Ends(t, r, x) \/ LosesAnswer(t, r, x)
    BY <1>1, <1>o DEF Ends, LosesAnswer
  <1>2. CASE Remembers(t, r, x) \/ Misses(t, r, x)
    BY <1>2, <1>k, <1>s, <1>n DEF Remembers, Misses, Keeps, Same, Writes
  <1>3. CASE FindsCached(t, r, x) \/ FindsStale(t, r, x)
    BY <1>3, <1>k DEF FindsCached, FindsStale, Same
  <1>4. CASE Boots(t, r, x)
    BY <1>4, <1>b, <1>m DEF Boots
  <1>5. CASE StoresIt(t, r, x)
    BY <1>5, <1>k, <1>n, <1>o DEF StoresIt, Keeps, Same, Writes
  <1>6. CASE Persists(t, r, x)
    <2>1. Knows(t, r.cur.access)
      BY <1>6, <1>k DEF Persists, Writes
    <2>2. r.via = "get" /\ Sends(r, x, r.cur.access) => Goal
      BY <1>k, <2>1 DEF Sends, Writes
    <2>3. QED
      BY <1>6, <1>k, <1>n, <1>o, <2>1, <2>2 DEF Persists, Keeps, Same, Writes
  <1>7. CASE Restores(t, r, x)
    BY <1>7, <1>k, <1>n, <1>o DEF Restores, Writes
  <1>8. CASE SelectsMemory(t, r, x) \/ SelectsCache(t, r, x)
    BY <1>8, <1>k, <1>m DEF SelectsMemory, SelectsCache, Keeps, Same, Writes
  <1>9. CASE IsGranted(t, r, x)
    BY <1>9, <1>k DEF IsGranted, Same
  <1>10. CASE IsRejected(t, r, x) \/ Invalidates(t, r, x)
    BY <1>10, <1>k DEF IsRejected, Invalidates, Keeps, Same, Writes
  <1>11. QED
    BY <1>1, <1>2, <1>3, <1>4, <1>5, <1>6, <1>7, <1>8, <1>9, <1>10 DEF Turn, r

\* The attempt stays worth making in a turn of its own thread.
LEMMA TurnIsWorth ==
    ASSUME Settled, NEW t \in Threads, NEW x, Turn(t, th[t], x), RetryInv
    PROVE  Worth(x, session_'[ProcOf[t]].access, cache'.access)
  <1> DEFINE r == th[t]
             q == ProcOf[t]
             m == session_'[q].access
             Goal == Worth(x, m, cache'.access)
  <1>r. /\ Worth(r, session_[q].access, cache.access)
        /\ r.pc = "persist" => session_[q] = r.cur
        /\ r.rej \in 0..issued
    BY DEF RetryInv, Memory, Knows
  <1>i. issued \in Nat /\ r.rej \in Nat /\ r.attempt \in {0, 1}
    BY GraphTokenAssumption DEF Settled, TypeOK, ThreadState, Tokens
  <1>w. /\ session_'[q] \in IF r.pc \in {"store", "restore"} THEN {r.cur}
                            ELSE {session_[q], NoSession}
        /\ cache' = cache \/ (HoldsGrant(r) /\ cache' = r.cur)
    BY <1>r, TurnWrites
  <1>b. \A pr, pa : r.pc = "boot" /\ pa \in PsaLookup(PsaAccess) =>
            ~IsValid(BootstrapSession(r.cur, pr, pa))
    BY BootstrapIsInvalid DEF Settled
  <1>s. Reads(t) = {session_[q]}
    BY OneThreadReads DEF Settled
  <1> SUFFICES Goal
    OBVIOUS
  <1> HIDE DEF r, q
  <1>z. Rest(x) => Goal
    BY DEF Rest, Worth
  <1>1. CASE Ends(t, r, x) \/ LosesAnswer(t, r, x)
    BY <1>1, <1>z DEF Ends, LosesAnswer
  \* The refused token is gone, and the next one is taken from what is there.
  <1>x. ASSUME Refreshed(r), UNCHANGED <<session_, cache>>, NEW s,
               s.access \in {session_[q].access, cache.access}, Returns(r, x, s)
        PROVE  Goal
    <2>1. r.attempt = 1 => /\ session_[q].access # r.rej /\ cache.access # r.rej
                           /\ s.access # r.rej
      BY <1>x, <1>r DEF Worth
    <2>2. x.attempt = r.attempt /\ x.rej = r.rej /\ ~Writes(x)
          /\ (x.pc = "send" => x.tok = s.access)
      BY <1>x DEF Returns, Sends, Posts, Same, Writes
    <2>3. QED
      BY <1>x, <2>1, <2>2 DEF Worth
  <1>2. CASE Remembers(t, r, x)
    <2>1. Refreshed(r)
      BY <1>2 DEF Remembers, Refreshed
    <2>2. QED
      BY <1>2, <1>s, <1>x, <2>1 DEF Remembers, Quiet
  <1>y. ASSUME Refreshed(r), UNCHANGED <<session_, cache>>, Same(r, x), x.pc # "send",
               Writes(x) => x.cur.access = cache.access
        PROVE  Goal
    <2>1. r.attempt = 1 => session_[q].access # r.rej /\ cache.access # r.rej
      BY <1>y, <1>r DEF Worth
    <2>2. QED
      BY <1>y, <2>1 DEF Worth, Same
  <1>3. CASE Misses(t, r, x) \/ FindsCached(t, r, x) \/ FindsStale(t, r, x)
    <2>1. Refreshed(r) /\ UNCHANGED <<session_, cache>> /\ Same(r, x) /\ x.pc # "send"
      BY <1>3 DEF Misses, Keeps, FindsCached, FindsStale, Refreshed, Quiet
    <2>2. Writes(x) => x.cur.access = cache.access
      BY <1>3 DEF Misses, Keeps, FindsCached, FindsStale, Writes
    <2>3. QED
      BY <1>y, <2>1, <2>2
  <1>4. CASE Boots(t, r, x)
    <2>1. Refreshed(r) /\ UNCHANGED <<session_, cache>> /\ \E s : Posts(r, x, s, "load")
      BY <1>4, <1>b DEF Boots, Refreshed, Quiet
    <2>2. QED
      BY <1>y, <2>1 DEF Posts, Writes
  \* What the thread stores or writes is not the refused token.
  <1>5. CASE StoresIt(t, r, x) \/ Restores(t, r, x)
    <2>1. r.attempt = 1 => r.cur.access # r.rej
      BY <1>5, <1>r DEF StoresIt, Restores, Worth, Writes
    <2>2. m = r.cur.access /\ UNCHANGED cache
      BY <1>5, <1>w DEF StoresIt, Restores
    <2>3. ASSUME Returns(r, x, r.cur), Refreshed(r) PROVE Goal
      <3>1. x.attempt = r.attempt /\ x.rej = r.rej /\ ~Writes(x)
            /\ (x.pc = "send" => x.tok = r.cur.access)
        BY <2>3 DEF Returns, Sends, Posts, Same, Writes
      <3>2. r.attempt = 1 => cache.access # r.rej
        BY <2>3, <1>r DEF Worth
      <3>3. QED
        BY <2>1, <2>2, <3>1, <3>2 DEF Worth
    <2>4. ASSUME Keeps(r, x, "persist"), r.pc = "store" PROVE Goal
      <3>1. x.attempt = r.attempt /\ x.rej = r.rej /\ x.pc = "persist" /\ x.cur = r.cur
            /\ (Refreshed(x) => Refreshed(r))
        BY <2>4 DEF Keeps, Same, Refreshed
      <3>2. r.attempt = 1 /\ Refreshed(r) => cache.access # r.rej
        BY <1>r DEF Worth
      <3>3. QED
        BY <2>1, <2>2, <3>1, <3>2 DEF Worth
    <2>5. QED
      BY <1>5, <1>z, <2>3, <2>4 DEF StoresIt, Restores, Refreshed
  <1>6. CASE Persists(t, r, x)
    <2>1. r.attempt = 1 => r.cur.access # r.rej
      BY <1>6, <1>r DEF Persists, Worth, Writes
    <2>2. cache' = r.cur /\ m = r.cur.access
      BY <1>6, <1>r DEF Persists, Settled
    <2>3. \/ Rest(x)
          \/ /\ x.attempt = r.attempt /\ x.rej = r.rej
             /\ x.pc = "send" => x.tok = r.cur.access
             /\ Writes(x) => x.cur = r.cur
      BY <1>6 DEF Persists, Returns, Sends, Posts, Keeps, Same, Writes
    <2>4. QED
      BY <1>z, <2>1, <2>2, <2>3 DEF Worth
  <1>7. CASE SelectsMemory(t, r, x) \/ SelectsCache(t, r, x)
    <2>1. x.pc \in {"selectCache"} \/ (x.pc = "post" /\ x.via = "retry")
      BY <1>7 DEF SelectsMemory, SelectsCache, Keeps, Posts
    <2>2. QED
      BY <2>1 DEF Worth, Writes, Refreshed
  <1>8. CASE IsGranted(t, r, x)
    <2>1. x.cur.access = issued + 1 /\ x.pc = "store" /\ x.via = r.via /\ Same(r, x)
          /\ UNCHANGED <<session_, cache>> /\ r.pc = "post"
      BY <1>8 DEF IsGranted
    <2>2. x.cur.access # x.rej
      BY <1>i, <1>r, <2>1 DEF Same
    <2>3. Refreshed(x) => Refreshed(r)
      BY <2>1 DEF Refreshed
    <2>4. QED
      BY <1>r, <2>1, <2>2, <2>3 DEF Worth, Same
  <1>9. CASE IsRejected(t, r, x) \/ Invalidates(t, r, x)
    BY <1>9 DEF IsRejected, Invalidates, Keeps, Worth, Writes, Refreshed
  <1>10. QED
    BY <1>1, <1>2, <1>3, <1>4, <1>5, <1>6, <1>7, <1>8, <1>9 DEF Turn, r

\* A grant comes from the endpoint or has been held before.
LEMMA TurnKeepsGrant ==
    ASSUME Settled, NEW t \in Threads, NEW x, Turn(t, th[t], x), HoldsGrant(x),
           ~IsGranted(t, th[t], x)
    PROVE  HoldsGrant(th[t]) /\ x.cur = th[t].cur /\ UNCHANGED cache
  <1>1. x.pc \in {"store", "persist"} /\ x.via # "cached"
    BY DEF HoldsGrant
  <1>2. \A pr, pa : th[t].pc = "boot" /\ pa \in PsaLookup(PsaAccess) =>
            ~IsValid(BootstrapSession(th[t].cur, pr, pa))
    BY BootstrapIsInvalid DEF Settled
  <1>3. ~Boots(t, th[t], x)
    BY <1>1, <1>2 DEF Boots, Posts
  <1>4. StoresIt(t, th[t], x)
    BY <1>1, <1>3
       DEF Turn, Ends, LosesAnswer, Remembers, Misses, FindsCached, FindsStale, Persists,
           Restores, SelectsMemory, SelectsCache, IsRejected, Invalidates, Returns, Posts,
           Sends, Rest, Keeps
  <1>5. QED
    BY <1>1, <1>4 DEF StoresIt, Keeps, Returns, Posts, Sends, Rest, HoldsGrant

\* The refused token is not written back: not by the thread that was refused,
\* and not by another that has been granted a token since.
LEMMA NextRetry ==
    ASSUME Settled, RetryInv, [Next]_vars
    PROVE  RetryInv'
  <1>p. \A t \in Threads : ProcOf[t] \in Procs
    BY GraphTokenAssumption
  <1>i. issued \in Nat /\ th \in [Threads -> ThreadState]
    BY GraphTokenAssumption DEF Settled, TypeOK
  <1>1. ASSUME NEW t \in Threads, Turn(t, th[t], th'[t]),
               \A u \in Threads \ {t} : th'[u] = th[u]
        PROVE  RetryInv'
    <2> DEFINE r == th[t]
               x == th'[t]
    <2>1. /\ \A p \in Procs \ {ProcOf[t]} : session_'[p] = session_[p]
          /\ session_'[ProcOf[t]] \in IF r.pc \in {"store", "restore"} THEN {r.cur}
                                      ELSE {session_[ProcOf[t]], NoSession}
          /\ cache' = cache \/ (HoldsGrant(r) /\ cache' = r.cur)
          /\ x.pc = "persist" => session_'[ProcOf[t]] = x.cur
          /\ issued' \in {issued, issued + 1}
      BY <1>1, TurnWrites DEF RetryInv
    <2>2. /\ Knows(t, x.tok) /\ Knows(t, x.rej)
          /\ Writes(x) => \/ Knows(t, x.cur.access)
                          \/ /\ IsGranted(t, r, x)
                             /\ x.cur.access = issued + 1 /\ issued' = issued + 1
      BY <1>1, TurnLearns
    <2>3. Knows(t, cache'.access) /\ Knows(t, session_'[ProcOf[t]].access)
      <3>1. HoldsGrant(r) => Knows(t, r.cur.access)
        BY DEF HoldsGrant, Knows, Writes
      <3>2. r.pc \in {"store", "restore"} => Knows(t, r.cur.access)
        BY DEF Knows, Writes
      <3>3. /\ Knows(t, NoSession.access) /\ Knows(t, cache.access)
            /\ Knows(t, session_[ProcOf[t]].access)
        BY DEF Knows, Memory, NoSession
      <3>4. QED
        BY <2>1, <3>1, <3>2, <3>3
    <2>4. \A a : (Knows(t, a))' => Knows(t, a) \/ (a = issued + 1 /\ issued' = issued + 1)
      <3>1. \A a : (Knows(t, a))' =>
                \/ a \in {0, cache'.access, session_'[ProcOf[t]].access, x.tok, x.rej}
                \/ Writes(x) /\ a = x.cur.access
        BY DEF Knows, Memory, Writes
      <3>2. Knows(t, 0)
        BY DEF Knows
      <3>3. QED
        BY <2>2, <2>3, <3>1, <3>2
    <2>5. ASSUME NEW u \in Threads \ {t}
          PROVE  /\ th'[u] = th[u] /\ session_'[ProcOf[u]] = session_[ProcOf[u]]
                 /\ \A a : (Knows(u, a))' => Knows(u, a) \/ a = cache'.access
      <3>1. th'[u] = th[u] /\ session_'[ProcOf[u]] = session_[ProcOf[u]]
        BY <1>1, <1>p, <2>1 DEF Settled, OneThreadPerProcess
      <3>2. \A a : (Knows(u, a))' =>
                \/ a \in {0, cache'.access, session_'[ProcOf[u]].access, th'[u].tok, th'[u].rej}
                \/ Writes(th'[u]) /\ a = th'[u].cur.access
        BY DEF Knows, Memory, Writes
      <3>3. QED
        BY <3>1, <3>2 DEF Knows, Memory
    <2>6. \A u \in Threads : \A a : Knows(u, a) => a \in 0..issued
      BY DEF RetryInv
    <2>7. ASSUME NEW u \in Threads PROVE (Worth(th[u], Memory(u), cache.access))'
      <3>1. CASE u = t
        BY <1>1, <3>1, TurnIsWorth DEF Memory, Worth, Writes, Refreshed
      <3>2. CASE u # t
        <4>1. Worth(th[u], session_[ProcOf[u]].access, cache.access)
          BY DEF RetryInv, Memory
        <4>2. cache' = cache \/ cache'.access # th[u].rej
          <5>1. HoldsGrant(r) => th[u].rej # r.cur.access
            BY <3>2 DEF RetryInv, Knows
          <5>2. QED
            BY <2>1, <5>1
        <4>3. QED
          BY <3>2, <2>5, <4>1, <4>2 DEF Memory, Worth, Writes, Refreshed
      <3>3. QED
        BY <3>1, <3>2
    <2>8. ASSUME NEW u \in Threads, NEW a, (Knows(u, a))' PROVE a \in 0..issued'
      <3>1. Knows(u, a) \/ Knows(t, a) \/ (a = issued + 1 /\ issued' = issued + 1)
        BY <2>3, <2>4, <2>5, <2>8
      <3>2. CASE Knows(u, a) \/ Knows(t, a)
        <4>1. a \in 0..issued
          BY <3>2, <2>6
        <4>2. QED
          BY <4>1, <2>1, <1>i
      <3>3. QED
        BY <1>i, <3>1, <3>2
    <2>9. ASSUME NEW u \in Threads, th'[u].pc = "persist"
          PROVE  session_'[ProcOf[u]] = th'[u].cur
      BY <2>1, <2>5, <2>9 DEF RetryInv
    <2>10. ASSUME NEW u \in Threads, HoldsGrant(th'[u]), NEW k, k = th'[u].cur.access,
                  NEW v \in Threads \ {u}, (Knows(v, k))'
           PROVE  FALSE
      <3>1. CASE u # t
        <4>1. HoldsGrant(th[u]) /\ k = th[u].cur.access /\ Knows(u, k)
          BY <3>1, <2>5, <2>10 DEF HoldsGrant, Knows, Writes
        <4>2. \A w \in Threads \ {u} : ~Knows(w, k)
          BY <4>1 DEF RetryInv
        <4>3. k \in 0..issued
          BY <4>1, <2>6
        <4>4. Knows(v, k) \/ Knows(t, k) \/ k = issued + 1
          BY <2>3, <2>4, <2>5, <2>10
        <4>5. QED
          BY <1>i, <3>1, <4>2, <4>3, <4>4
      <3>2. CASE u = t
        <4>1. Writes(x) /\ HoldsGrant(x)
          BY <2>10, <3>2 DEF HoldsGrant, Writes
        <4>2. Knows(v, k) \/ k = cache'.access
          BY <2>5, <2>10, <3>2
        <4>3. CASE IsGranted(t, r, x)
          <5>1. k = issued + 1 /\ cache' = cache
            BY <2>2, <2>10, <3>2, <4>1, <4>3 DEF IsGranted
          <5>2. Knows(v, k)
            BY <4>2, <5>1 DEF Knows
          <5>3. QED
            BY <1>i, <2>6, <5>1, <5>2
        <4>4. CASE ~IsGranted(t, r, x)
          <5>1. HoldsGrant(r) /\ x.cur = r.cur /\ cache' = cache
            BY <1>1, <4>1, <4>4, TurnKeepsGrant
          <5>2. Knows(v, k)
            BY <4>2, <5>1 DEF Knows
          <5>3. QED
            BY <2>10, <3>2, <5>1, <5>2 DEF RetryInv
        <4>5. QED
          BY <4>3, <4>4
      <3>3. QED
        BY <3>1, <3>2
    <2>11. QED
      BY <2>7, <2>8, <2>9, <2>10 DEF RetryInv, HoldsGrant, Knows, Memory, Writes
  <1>2. CASE \A t \in Threads : ~Advance(t)
    <2>1. UNCHANGED <<cache, issued>>
      BY <1>2, OtherSteps DEF Settled
    <2>2. ASSUME NEW t \in Threads
          PROVE  \/ th'[t] = th[t]
                 \/ /\ th'[t].pc \in {"idle", "load", "listen"} /\ th'[t].attempt = 0
                    /\ th'[t].tok = 0 /\ th'[t].rej = 0
      BY <1>2, OtherSteps, StartedIsQuiet DEF Settled
    <2>3. ASSUME NEW t \in Threads
          PROVE  \/ session_'[ProcOf[t]] = session_[ProcOf[t]]
                 \/ /\ session_'[ProcOf[t]] = NoSession
                    /\ th'[t].pc \in {"idle", "load", "listen"} /\ th'[t].attempt = 0
      <3>1. \/ session_'[ProcOf[t]] = session_[ProcOf[t]]
            \/ session_'[ProcOf[t]] = NoSession /\ th'[t] = Idle
            \/ /\ session_'[ProcOf[t]] = NoSession
               /\ \E u \in Threads : ProcOf[u] = ProcOf[t] /\
                    \E pc \in {"load", "listen"}, op \in Ops :
                        th'[u] = [Idle EXCEPT !.pc = pc, !.op = op]
        <4>1. TypeOK /\ ProcOf[t] \in Procs
          BY <1>p DEF Settled
        <4>2. LET p == ProcOf[t] IN
              \/ session_'[p] = session_[p]
              \/ /\ session_'[p] = NoSession
                 /\ \A u \in Threads : ProcOf[u] = p => th'[u] = Idle
              \/ /\ session_'[p] = NoSession
                 /\ \E u \in Threads : ProcOf[u] = p /\
                      \E pc \in {"load", "listen"}, op \in Ops :
                          th'[u] = [Idle EXCEPT !.pc = pc, !.op = op]
          BY <1>2, <4>1, OtherSteps
        <4>3. QED
          BY <4>2
      <3>2. \A u \in Threads : ProcOf[u] = ProcOf[t] => u = t
        BY DEF Settled, OneThreadPerProcess
      <3>3. CASE session_'[ProcOf[t]] = session_[ProcOf[t]]
        BY <3>3
      <3>4. CASE session_'[ProcOf[t]] = NoSession /\ th'[t] = Idle
        BY <3>4, StartedIsQuiet
      <3>5. CASE /\ session_'[ProcOf[t]] = NoSession
                 /\ \E u \in Threads : ProcOf[u] = ProcOf[t] /\
                      \E pc \in {"load", "listen"}, op \in Ops :
                          th'[u] = [Idle EXCEPT !.pc = pc, !.op = op]
        <4>1. \E pc \in {"load", "listen"}, op \in Ops :
                  th'[t] = [Idle EXCEPT !.pc = pc, !.op = op]
          BY <3>2, <3>5
        <4>2. th'[t].pc \in {"idle", "load", "listen"} /\ th'[t].attempt = 0
          BY ONLY <4>1, StartedIsQuiet
        <4>3. QED
          BY <3>5, <4>2
      <3>6. QED
        BY <3>1, <3>3, <3>4, <3>5
    <2>4. ASSUME NEW t \in Threads, NEW a, (Knows(t, a))' PROVE Knows(t, a)
      <3>1. \/ a \in {0, cache'.access, session_'[ProcOf[t]].access, th'[t].tok, th'[t].rej}
            \/ Writes(th'[t]) /\ a = th'[t].cur.access
        BY <2>4 DEF Knows, Memory, Writes
      <3>2. NoSession.access = 0
        BY DEF NoSession
      <3>3. QED
        BY <2>1, <2>2, <2>3, <3>1, <3>2 DEF Knows, Memory, Writes
    <2>5. ASSUME NEW t \in Threads PROVE (Worth(th[t], Memory(t), cache.access))'
      <3>1. CASE th'[t] = th[t] /\ session_'[ProcOf[t]] = session_[ProcOf[t]]
        <4>1. Worth(th[t], session_[ProcOf[t]].access, cache.access)
          BY DEF RetryInv, Memory
        <4>2. QED
          BY <3>1, <4>1, <2>1 DEF Memory, Worth, Writes, Refreshed
      <3>2. CASE th'[t].attempt = 0
        BY <3>2 DEF Worth
      <3>3. QED
        BY <2>2, <2>3, <3>1, <3>2
    <2>6. ASSUME NEW t \in Threads, HoldsGrant(th'[t])
          PROVE  HoldsGrant(th[t]) /\ th'[t] = th[t]
      BY <2>2, <2>6 DEF HoldsGrant
    <2>7. ASSUME NEW t \in Threads, NEW a, (Knows(t, a))' PROVE a \in 0..issued'
      BY <2>1, <2>4, <2>7 DEF RetryInv
    <2>8. ASSUME NEW t \in Threads, th'[t].pc = "persist"
          PROVE  session_'[ProcOf[t]] = th'[t].cur
      BY <2>2, <2>3, <2>8 DEF RetryInv
    <2>9. ASSUME NEW t \in Threads, HoldsGrant(th'[t]), NEW k, k = th'[t].cur.access,
                 NEW u \in Threads \ {t}, (Knows(u, k))'
          PROVE  FALSE
      BY <2>4, <2>6, <2>9 DEF RetryInv
    <2>10. QED
      BY <2>5, <2>7, <2>8, <2>9 DEF RetryInv, HoldsGrant, Knows, Memory, Writes
  <1>3. QED
    BY <1>1, <1>2, AdvanceIsTurn DEF Settled

LEMMA InitRetry == Init => RetryInv
  <1> SUFFICES ASSUME Init PROVE RetryInv
    OBVIOUS
  <1>1. \A t \in Threads : ProcOf[t] \in Procs /\ th[t] = Idle
    BY GraphTokenAssumption DEF Init
  <1>2. Idle.pc = "idle" /\ Idle.attempt = 0 /\ Idle.tok = 0 /\ Idle.rej = 0
    BY DEF Idle
  <1>3. NoSession.access = 0
    BY DEF NoSession
  <1>4. issued \in Nat /\ 0 \in 0..issued /\ cache.access \in 0..issued
    BY SeedsAssumption, GraphTokenAssumption DEF Init, Session, Tokens
  <1>5. ASSUME NEW t \in Threads, NEW a, Knows(t, a) PROVE a \in 0..issued
    BY <1>1, <1>2, <1>3, <1>4, <1>5 DEF Knows, Memory, Writes, Init
  <1>6. QED
    BY <1>1, <1>2, <1>5 DEF RetryInv, Worth, HoldsGrant

\* With one thread per process and a writable cache file, the retry of
\* GraphClient::Request (graph.cpp) is never sent with the token that was just
\* refused, though processes crash, answers get lost and other processes refresh.
\* Each hypothesis is needed here as well.
THEOREM RetriesAreWorthwhile ==
    ASSUME OneThreadPerProcess, ~PersistMayFail, BootstrapRefreshes
    PROVE  Spec => []RetryUsesNewToken
  <1>1. Init => AccessInv /\ GrantInv /\ RetryInv
    BY InitGrant, InitRetry
  <1>2. TypeOK /\ PairingInv /\ AccessInv /\ GrantInv /\ RetryInv /\ [Next]_vars
            => (AccessInv /\ GrantInv /\ RetryInv)'
    BY NextGrant, NextRetry DEF Settled
  <1>3. RetryInv => RetryUsesNewToken
    BY DEF RetryInv, Worth, RetryUsesNewToken, At
  <1>4. QED
    BY <1>1, <1>2, <1>3, PairingInvariant, PTL DEF Spec

=============================================================================
