-------------------------- MODULE GraphToken_proofs --------------------------
(* Proofs about GraphToken, for any number of processes, threads and grants. *)
EXTENDS GraphToken, TLAPS

-----------------------------------------------------------------------------
(* Lemmas about the operators                                              *)

\* Every mixture of sessions is a session.
LEMMA MixturesType ==
    ASSUME NEW S \in SUBSET Session
    PROVE  Mixtures(S) \subseteq Session
  BY DEF Mixtures, Session

\* A quiet manager is read and written as a whole.
LEMMA MixturesSingleton ==
    ASSUME NEW s \in Session
    PROVE  Mixtures({s}) = {s}
  BY DEF Mixtures, Session

LEMMA NoSessionType == NoSession \in Session
  BY GraphTokenAssumption DEF NoSession, Session, Tokens

LEMMA IdleType == Idle \in ThreadState
  BY NoSessionType, GraphTokenAssumption
     DEF Idle, ThreadState, Pcs, Ops, Vias, Tokens

\* What 1Password answers is a token.
LEMMA PsaLookupType ==
    ASSUME NEW v \in Tokens
    PROVE  PsaLookup(v) \subseteq Tokens
  BY GraphTokenAssumption DEF PsaLookup, Tokens

LEMMA BootstrapType ==
    ASSUME NEW c \in Session, NEW pr \in Tokens, NEW pa \in Tokens
    PROVE  BootstrapSession(c, pr, pa) \in Session
  BY GraphTokenAssumption
     DEF BootstrapSession, Session, FirstOf, Tokens, Grants

\* The continuations lead from thread states to thread states.
LEMMA CallRefreshType ==
    ASSUME NEW r \in ThreadState, NEW s \in Session, NEW via \in Vias
    PROVE  CallRefresh(r, s, via) \in ThreadState
  BY IdleType DEF CallRefresh, ThreadState, Pcs

LEMMA GotTokenType ==
    ASSUME NEW r \in ThreadState, NEW a \in Tokens
    PROVE  GotToken(r, a) \in ThreadState
  <1>1. CASE r.op = "request"
    BY <1>1, NoSessionType DEF GotToken, ThreadState, Pcs, Vias
  <1>2. CASE r.op = "startup"
    BY <1>2, IdleType DEF GotToken, ThreadState, Pcs, Ops
  <1>3. CASE r.op # "request" /\ r.op # "startup"
    BY <1>3, IdleType DEF GotToken
  <1>4. QED
    BY <1>1, <1>2, <1>3

LEMMA LoadReturnedType ==
    ASSUME NEW r \in ThreadState, NEW s \in Session
    PROVE  LoadReturned(r, s) \in ThreadState
  <1>1. s.access \in Tokens /\ {"force", "get"} \subseteq Vias
    BY DEF Session, Vias
  <1>2. /\ CallRefresh(r, s, "force") \in ThreadState
        /\ CallRefresh(r, s, "get") \in ThreadState
        /\ GotToken(r, s.access) \in ThreadState
    BY <1>1, CallRefreshType, GotTokenType
  <1>3. QED
    BY <1>2, IdleType DEF LoadReturned

LEMMA RefreshReturnedType ==
    ASSUME NEW r \in ThreadState
    PROVE  RefreshReturned(r) \in ThreadState
  <1>1. r.cur.access \in Tokens
    BY DEF ThreadState, Session
  <1>2. GotToken(r, r.cur.access) \in ThreadState
    BY <1>1, GotTokenType
  <1>3. [r EXCEPT !.pc = "restore"] \in ThreadState
    BY DEF ThreadState, Pcs
  <1>4. [r EXCEPT !.pc = "load", !.via = "none", !.cur = NoSession] \in ThreadState
    BY NoSessionType DEF ThreadState, Pcs, Vias
  <1>5. QED
    BY <1>2, <1>3, <1>4, IdleType DEF RefreshReturned

\* A thread that was granted the session s, and one that was refused.
LEMMA GrantedType ==
    ASSUME NEW r \in ThreadState, NEW s \in Session
    PROVE  [r EXCEPT !.pc = "store", !.posts = @ + 1, !.cur = s] \in ThreadState
  <1>1. r.posts + 1 \in Nat
    BY DEF ThreadState
  <1>2. QED
    BY <1>1 DEF ThreadState, Pcs

LEMMA RejectedType ==
    ASSUME NEW r \in ThreadState
    PROVE  [r EXCEPT !.pc = "reset", !.attempt = 1, !.rej = r.tok, !.tok = 0]
              \in ThreadState
  <1>1. 0 \in Tokens /\ r.tok \in Tokens
    BY GraphTokenAssumption DEF Tokens, ThreadState
  <1>2. QED
    BY <1>1 DEF ThreadState, Pcs

\* What a thread may see or leave in session_ is a session.
LEMMA AccessType ==
    ASSUME TypeOK, NEW t \in Threads, NEW s \in Session
    PROVE  Reads(t) \subseteq Session /\ Stores(t, s) \subseteq Session
  <1>1. \A u \in Threads : Pending(u) \in Session
    BY NoSessionType DEF TypeOK, ThreadState, Pending
  <1>2. session_[ProcOf[t]] \in Session
    BY GraphTokenAssumption DEF TypeOK
  <1>3. Writers(t) \subseteq Threads
    BY DEF Writers
  <1>4. QED
    BY <1>1, <1>2, <1>3, MixturesType DEF Reads, Stores

-----------------------------------------------------------------------------
(* Type correctness                                                        *)

\* Giving a thread a new state of the right type keeps th typed.
LEMMA BecomeType ==
    ASSUME TypeOK, NEW t \in Threads, NEW r \in ThreadState, Become(t, r)
    PROVE  th' \in [Threads -> ThreadState]
  BY DEF TypeOK, Become

LEMMA AdvanceType ==
    ASSUME TypeOK, NEW t \in Threads, Advance(t)
    PROVE  TypeOK'
  <1> USE DEF TypeOK, World, At
  <1> DEFINE r == th[t]
  <1>r. r \in ThreadState /\ r.cur \in Session /\ ProcOf[t] \in Procs
    BY GraphTokenAssumption DEF ThreadState
  <1>1. CASE Listen(t)
    BY <1>1, IdleType, BecomeType DEF Listen
  <1>2. CASE LoadMemory(t)
    <2>1. PICK checked \in Reads(t), copied \in Reads(t) :
              Become(t, IF IsValid(checked) THEN LoadReturned(r, copied)
                        ELSE [r EXCEPT !.pc = "readCache"])
      BY <1>2 DEF LoadMemory
    <2>2. copied \in Session
      BY AccessType, NoSessionType
    <2>3. [r EXCEPT !.pc = "readCache"] \in ThreadState
      BY <1>r DEF ThreadState, Pcs
    <2>4. QED
      BY <1>2, <1>r, <2>1, <2>2, <2>3, LoadReturnedType, BecomeType DEF LoadMemory
  <1>3. CASE LoadCache(t)
    <2>1. /\ [r EXCEPT !.pc = "store", !.cur = cache, !.via = "cached"] \in ThreadState
          /\ [r EXCEPT !.pc = "boot", !.cur = cache] \in ThreadState
      BY <1>r DEF ThreadState, Pcs, Vias
    <2>2. QED
      BY <1>3, <2>1, BecomeType DEF LoadCache
  <1>4. CASE LoadBootstrap(t)
    <2>1. PICK pr \in PsaLookup(PsaRefresh), pa \in PsaLookup(PsaAccess) :
            Become(t, AfterBootstrap(r, BootstrapSession(r.cur, pr, pa)))
      BY <1>4 DEF LoadBootstrap
    <2>2. BootstrapSession(r.cur, pr, pa) \in Session
      BY <1>r, PsaLookupType, BootstrapType, GraphTokenAssumption
    <2>3. [r EXCEPT !.pc = "store", !.cur = BootstrapSession(r.cur, pr, pa),
                    !.via = "booted"] \in ThreadState
      BY <1>r, <2>2 DEF ThreadState, Pcs, Vias
    <2>4. CallRefresh(r, BootstrapSession(r.cur, pr, pa), "load") \in ThreadState
      BY <1>r, <2>2, CallRefreshType DEF Vias
    <2>5. QED
      BY <1>4, <2>1, <2>3, <2>4, BecomeType DEF LoadBootstrap, AfterBootstrap
  <1>5. CASE StoreSession(t)
    <2>1. session_' \in [Procs -> Session]
      BY <1>5, <1>r, AccessType DEF StoreSession
    <2>2. [r EXCEPT !.pc = "persist"] \in ThreadState
      BY <1>r DEF ThreadState, Pcs
    <2>3. QED
      BY <1>5, <1>r, <2>1, <2>2, LoadReturnedType, BecomeType DEF StoreSession
  <1>6. CASE Persist(t)
    <2>1. cache' \in Session
      BY <1>6, <1>r DEF Persist, Persisted
    <2>2. QED
      BY <1>6, <1>r, <2>1, LoadReturnedType, RefreshReturnedType, BecomeType DEF Persist, Persisted
  <1>7. CASE RestoreSession(t)
    <2>1. session_' \in [Procs -> Session]
      BY <1>7, <1>r, AccessType DEF RestoreSession
    <2>2. QED
      BY <1>7, <1>r, <2>1, LoadReturnedType, BecomeType DEF RestoreSession
  <1>8. CASE SelectMemory(t)
    <2>1. PICK s \in Reads(t) :
              Become(t, IF s = NoSession THEN [r EXCEPT !.pc = "selectCache"]
                        ELSE CallRefresh(r, s, "retry"))
      BY <1>8 DEF SelectMemory
    <2>2. s \in Session
      BY AccessType, NoSessionType
    <2>3. [r EXCEPT !.pc = "selectCache"] \in ThreadState
      BY <1>r DEF ThreadState, Pcs
    <2>4. CallRefresh(r, s, "retry") \in ThreadState
      BY <1>r, <2>2, CallRefreshType DEF Vias
    <2>5. QED
      BY <1>8, <2>1, <2>3, <2>4, BecomeType DEF SelectMemory
  <1>9. CASE SelectCache(t)
    <2>1. PICK pr \in PsaLookup(PsaRefresh), pa \in PsaLookup(PsaAccess) :
              Become(t, CallRefresh(r, IF cache # NoSession THEN cache
                               ELSE BootstrapSession(NoSession, pr, pa), "retry"))
      BY <1>9 DEF SelectCache
    <2>2. BootstrapSession(NoSession, pr, pa) \in Session
      BY NoSessionType, PsaLookupType, BootstrapType, GraphTokenAssumption
    <2>3. CallRefresh(r, IF cache # NoSession THEN cache
                ELSE BootstrapSession(NoSession, pr, pa), "retry") \in ThreadState
      BY <1>r, <2>2, CallRefreshType DEF Vias
    <2>4. QED
      BY <1>9, <2>1, <2>3, BecomeType DEF SelectCache
  <1>10. CASE RefreshGranted(t)
    <2> DEFINE g == issued + 1
    <2>1. g \in Grants /\ g \in 0..MaxGrants /\ r.cur.refresh \in Tokens
      BY <1>10, <1>r DEF RefreshGranted, Grants, Session, Tokens
    <2>2. PICK new \in {g, r.cur.refresh} :
              Become(t, [r EXCEPT !.pc = "store", !.posts = @ + 1,
                                  !.cur = [access |-> g, refresh |-> new, exp |-> g]])
      BY <1>10 DEF RefreshGranted, GrantedSession
    <2>3. [access |-> g, refresh |-> new, exp |-> g] \in Session
      BY <2>1 DEF Session, Tokens
    <2>4. [r EXCEPT !.pc = "store", !.posts = @ + 1,
                    !.cur = [access |-> g, refresh |-> new, exp |-> g]] \in ThreadState
      BY <1>r, <2>3, GrantedType
    <2>5. th' \in [Threads -> ThreadState]
      BY <2>2, <2>4, BecomeType
    <2>6. revoked' \subseteq Tokens /\ stale' \subseteq Grants
      BY <1>10, <2>1 DEF RefreshGranted
    <2>7. QED
      BY <1>10, <2>1, <2>5, <2>6 DEF RefreshGranted
  <1>11. CASE RefreshLost(t)
    <2>1. issued' \in 0..MaxGrants
      BY <1>11 DEF RefreshLost, Grants
    <2> r.cur.refresh \in Tokens
      BY <1>r DEF Session
    <2>2. revoked' \subseteq Tokens
      BY <1>11 DEF RefreshLost
    <2>3. QED
      BY <1>11, <2>1, <2>2, IdleType, BecomeType DEF RefreshLost
  <1>12. CASE RefreshFailed(t)
    BY <1>12, IdleType, BecomeType DEF RefreshFailed
  <1>13. CASE GraphAnswered(t)
    BY <1>13, IdleType, BecomeType DEF GraphAnswered
  <1>14. CASE GraphRejected(t)
    <2>1. [r EXCEPT !.pc = "reset", !.attempt = 1, !.rej = r.tok, !.tok = 0]
            \in ThreadState
      BY <1>r, RejectedType
    <2>2. QED
      BY <1>14, <2>1, IdleType, BecomeType DEF GraphRejected, AfterRejection
  <1>15. CASE Invalidate(t)
    <2>1. session_' \in [Procs -> Session]
      BY <1>15, <1>r, AccessType, NoSessionType DEF Invalidate
    <2>2. [r EXCEPT !.pc = "select"] \in ThreadState
      BY <1>r DEF ThreadState, Pcs
    <2>3. QED
      BY <1>15, <2>1, <2>2, BecomeType DEF Invalidate
  <1>16. QED
    BY <1>1, <1>2, <1>3, <1>4, <1>5, <1>6, <1>7, <1>8, <1>9, <1>10, <1>11,
       <1>12, <1>13, <1>14, <1>15 DEF Advance

LEMMA NextType == TypeOK /\ [Next]_vars => TypeOK'
  <1> SUFFICES ASSUME TypeOK, [Next]_vars PROVE TypeOK'
    OBVIOUS
  <1> USE DEF TypeOK, World, At
  <1>1. ASSUME NEW t \in Threads, StartProcess(t) PROVE TypeOK'
    <2>1. session_' \in [Procs -> Session]
      BY <1>1, NoSessionType DEF StartProcess
    <2>2. \A pc \in {"load", "listen"}, op \in {"startup", "get", "force"} :
              [Idle EXCEPT !.pc = pc, !.op = op] \in ThreadState
      BY IdleType DEF ThreadState, Pcs, Ops
    <2>3. QED
      BY <1>1, <2>1, <2>2, BecomeType DEF StartProcess
  <1>2. ASSUME NEW t \in Threads, StartHandler(t) PROVE TypeOK'
    <2>1. \A op \in {"request", "health"} :
              [Idle EXCEPT !.pc = "load", !.op = op] \in ThreadState
      BY IdleType DEF ThreadState, Pcs, Ops
    <2>2. QED
      BY <1>2, <2>1, BecomeType DEF StartHandler
  <1>3. ASSUME NEW t \in Threads, Advance(t) PROVE TypeOK'
    BY <1>3, AdvanceType
  <1>4. ASSUME NEW g \in Grants, Lapse(g) \/ GraphDrops(g) PROVE TypeOK'
    BY <1>4 DEF Lapse, GraphDrops
  <1>5. ASSUME NEW p \in Procs, Crash(p) PROVE TypeOK'
    BY <1>5, NoSessionType, IdleType DEF Crash
  <1>6. CASE UNCHANGED vars
    BY <1>6 DEF vars
  <1>7. QED
    BY <1>1, <1>2, <1>3, <1>4, <1>5, <1>6 DEF Next

LEMMA InitType == Init => TypeOK
  BY GraphTokenAssumption, NoSessionType, IdleType DEF Init, TypeOK

\* Type correctness of every reachable state.
THEOREM TypeCorrect == Spec => []TypeOK
  BY InitType, NextType, PTL DEF Spec

-----------------------------------------------------------------------------
(* The cache never pairs a token with the expiry of another one            *)

\* Where the continuations lead.
LEMMA CallRefreshPc ==
    ASSUME NEW r \in ThreadState, NEW s \in Session, NEW via \in Vias
    PROVE  CallRefresh(r, s, via).pc \in {"idle", "post"}
  BY DEF CallRefresh, Idle, ThreadState

LEMMA GotTokenPc ==
    ASSUME NEW r \in ThreadState, NEW a \in Tokens
    PROVE  GotToken(r, a).pc \in {"idle", "send", "listen"}
  <1>1. CASE r.op = "request"
    BY <1>1 DEF GotToken, ThreadState
  <1>2. CASE r.op = "startup"
    BY <1>2 DEF GotToken, Idle
  <1>3. CASE r.op # "request" /\ r.op # "startup"
    BY <1>3 DEF GotToken, Idle
  <1>4. QED
    BY <1>1, <1>2, <1>3

LEMMA LoadReturnedPc ==
    ASSUME NEW r \in ThreadState, NEW s \in Session
    PROVE  LoadReturned(r, s).pc \in {"idle", "post", "send", "listen"}
  <1>1. s.access \in Tokens /\ {"force", "get"} \subseteq Vias
    BY DEF Session, Vias
  <1>2. /\ CallRefresh(r, s, "force").pc \in {"idle", "post"}
        /\ CallRefresh(r, s, "get").pc \in {"idle", "post"}
        /\ GotToken(r, s.access).pc \in {"idle", "send", "listen"}
        /\ Idle.pc = "idle"
    BY <1>1, CallRefreshPc, GotTokenPc DEF Idle
  <1>3. QED
    BY <1>2 DEF LoadReturned

\* Only Load, which keeps the session, leads to an assignment.
LEMMA RefreshReturnedPc ==
    ASSUME NEW r \in ThreadState
    PROVE  /\ RefreshReturned(r).pc \in {"idle", "send", "listen", "load", "restore"}
           /\ RefreshReturned(r).pc = "restore" => RefreshReturned(r).cur = r.cur
  <1>1. GotToken(r, r.cur.access).pc \in {"idle", "send", "listen"}
    BY GotTokenPc DEF ThreadState, Session
  <1>2. /\ [r EXCEPT !.pc = "restore"].pc = "restore"
        /\ [r EXCEPT !.pc = "restore"].cur = r.cur
        /\ [r EXCEPT !.pc = "load", !.via = "none", !.cur = NoSession].pc = "load"
        /\ Idle.pc = "idle"
    BY DEF ThreadState, Idle
  <1>3. QED
    BY <1>1, <1>2 DEF RefreshReturned

\* A bootstrapped session is valid only if its expiry is that of its token:
\* the expiry it would take over from the cache is stale.
LEMMA BootstrapPaired ==
    ASSUME NEW c \in Session, NEW pr, NEW pa, c.exp \in stale \cup {0},
           IsValid(BootstrapSession(c, pr, pa))
    PROVE  Paired(BootstrapSession(c, pr, pa))
  BY DEF BootstrapSession, IsValid, Paired, FirstOf

\* A step of thread t preserves the invariant if it keeps the cache paired,
\* takes t to a paired state and does not rejuvenate any token.
LEMMA BecomePaired ==
    ASSUME TypeOK, PairingInv, NEW t \in Threads, NEW r, Become(t, r),
           r.pc = "boot" => r.cur.exp \in stale \cup {0},
           r.pc \in {"store", "persist", "restore"} => Paired(r.cur),
           Paired(cache'), stale \subseteq stale'
    PROVE  PairingInv'
  <1>1. th'[t] = r /\ \A u \in Threads \ {t} : th'[u] = th[u]
    BY DEF TypeOK, Become
  <1>2. QED
    BY <1>1 DEF PairingInv, CachePaired, Paired

LEMMA AdvancePaired ==
    ASSUME TypeOK, PairingInv, NEW t \in Threads, Advance(t)
    PROVE  PairingInv'
  <1> DEFINE r == th[t]
  <1>r. /\ r \in ThreadState /\ r.cur \in Session /\ cache \in Session
        /\ Paired(cache)
        /\ r.pc = "boot" => r.cur.exp \in stale \cup {0}
        /\ r.pc \in {"store", "persist", "restore"} => Paired(r.cur)
    BY DEF TypeOK, ThreadState, PairingInv, CachePaired
  <1>i. Idle.pc = "idle"
    BY DEF Idle
  <1> USE DEF At, World
  <1>1. CASE Listen(t)
    BY <1>1, <1>r, <1>i, BecomePaired DEF Listen
  <1>2. CASE LoadMemory(t)
    <2>1. PICK checked \in Reads(t), copied \in Reads(t) :
              Become(t, IF IsValid(checked) THEN LoadReturned(r, copied)
                        ELSE [r EXCEPT !.pc = "readCache"])
      BY <1>2 DEF LoadMemory
    <2>2. copied \in Session
      BY AccessType, NoSessionType
    <2>3. [r EXCEPT !.pc = "readCache"].pc = "readCache"
      BY <1>r DEF ThreadState
    <2>4. QED
      BY <1>2, <1>r, <2>1, <2>2, <2>3, LoadReturnedPc, BecomePaired DEF LoadMemory
  <1>3. CASE LoadCache(t)
    <2>1. /\ [r EXCEPT !.pc = "store", !.cur = cache, !.via = "cached"].pc = "store"
          /\ [r EXCEPT !.pc = "store", !.cur = cache, !.via = "cached"].cur = cache
          /\ [r EXCEPT !.pc = "boot", !.cur = cache].pc = "boot"
          /\ [r EXCEPT !.pc = "boot", !.cur = cache].cur = cache
      BY <1>r DEF ThreadState
    <2>2. ~IsValid(cache) => cache.exp \in stale \cup {0}
      BY <1>r DEF IsValid, Paired
    <2>3. QED
      BY <1>3, <1>r, <2>1, <2>2, BecomePaired DEF LoadCache
  <1>4. CASE LoadBootstrap(t)
    <2>1. PICK pr \in PsaLookup(PsaRefresh), pa \in PsaLookup(PsaAccess) :
            Become(t, AfterBootstrap(r, BootstrapSession(r.cur, pr, pa)))
      BY <1>4 DEF LoadBootstrap
    <2> DEFINE b == BootstrapSession(r.cur, pr, pa)
    <2>2. b \in Session
      BY <1>r, PsaLookupType, BootstrapType, GraphTokenAssumption
    <2>3. CallRefresh(r, b, "load").pc \in {"idle", "post"}
      BY <1>r, <2>2, CallRefreshPc DEF Vias
    <2>4. IsValid(b) => Paired(b)
      BY <1>4, <1>r, BootstrapPaired DEF LoadBootstrap
    <2>5. /\ [r EXCEPT !.pc = "store", !.cur = b, !.via = "booted"].pc = "store"
          /\ [r EXCEPT !.pc = "store", !.cur = b, !.via = "booted"].cur = b
      BY <1>r DEF ThreadState
    <2>6. cache' = cache /\ stale' = stale
      BY <1>4 DEF LoadBootstrap
    <2> HIDE DEF b
    <2>7. QED
      BY <1>r, <2>1, <2>3, <2>4, <2>5, <2>6, BecomePaired DEF AfterBootstrap, b
  <1>5. CASE StoreSession(t)
    <2>1. /\ [r EXCEPT !.pc = "persist"].pc = "persist"
          /\ [r EXCEPT !.pc = "persist"].cur = r.cur
      BY <1>r DEF ThreadState
    <2>2. QED
      BY <1>5, <1>r, <2>1, LoadReturnedPc, BecomePaired DEF StoreSession
  <1>6. CASE Persist(t)
    <2>1. Paired(cache')
      BY <1>6, <1>r DEF Persist, Persisted
    <2>2. QED
      BY <1>6, <1>r, <2>1, LoadReturnedPc, RefreshReturnedPc, BecomePaired DEF Persist, Persisted
  <1>7. CASE RestoreSession(t)
    BY <1>7, <1>r, LoadReturnedPc, BecomePaired DEF RestoreSession
  <1>8. CASE SelectMemory(t)
    <2>1. PICK s \in Reads(t) :
              Become(t, IF s = NoSession THEN [r EXCEPT !.pc = "selectCache"]
                        ELSE CallRefresh(r, s, "retry"))
      BY <1>8 DEF SelectMemory
    <2>2. s \in Session
      BY AccessType, NoSessionType
    <2>3. [r EXCEPT !.pc = "selectCache"].pc = "selectCache"
      BY <1>r DEF ThreadState
    <2>4. CallRefresh(r, s, "retry").pc \in {"idle", "post"}
      BY <1>r, <2>2, CallRefreshPc DEF Vias
    <2>5. QED
      BY <1>8, <1>r, <2>1, <2>3, <2>4, BecomePaired DEF SelectMemory
  <1>9. CASE SelectCache(t)
    <2>1. PICK pr \in PsaLookup(PsaRefresh), pa \in PsaLookup(PsaAccess) :
              Become(t, CallRefresh(r, IF cache # NoSession THEN cache
                               ELSE BootstrapSession(NoSession, pr, pa), "retry"))
      BY <1>9 DEF SelectCache
    <2>2. BootstrapSession(NoSession, pr, pa) \in Session
      BY NoSessionType, PsaLookupType, BootstrapType, GraphTokenAssumption
    <2>3. CallRefresh(r, IF cache # NoSession THEN cache
                ELSE BootstrapSession(NoSession, pr, pa), "retry").pc
              \in {"idle", "post"}
      BY <1>r, <2>2, CallRefreshPc DEF Vias
    <2>4. QED
      BY <1>9, <1>r, <2>1, <2>3, BecomePaired DEF SelectCache
  <1>10. CASE RefreshGranted(t)
    <2> DEFINE s(new) == [access |-> issued + 1, refresh |-> new, exp |-> issued + 1]
    <2>1. PICK new :
              Become(t, [r EXCEPT !.pc = "store", !.posts = @ + 1, !.cur = s(new)])
      BY <1>10 DEF RefreshGranted, GrantedSession
    <2>2. Paired(s(new))
      BY DEF Paired
    <2> HIDE DEF s
    <2>3. /\ [r EXCEPT !.pc = "store", !.posts = @ + 1, !.cur = s(new)].pc = "store"
          /\ [r EXCEPT !.pc = "store", !.posts = @ + 1, !.cur = s(new)].cur = s(new)
      BY <1>r DEF ThreadState
    <2>4. cache' = cache /\ stale \subseteq stale'
      BY <1>10 DEF RefreshGranted
    <2>5. QED
      BY <1>r, <2>1, <2>2, <2>3, <2>4, BecomePaired
  <1>11. CASE RefreshLost(t)
    BY <1>11, <1>r, <1>i, BecomePaired DEF RefreshLost
  <1>12. CASE RefreshFailed(t)
    BY <1>12, <1>r, <1>i, BecomePaired DEF RefreshFailed
  <1>13. CASE GraphAnswered(t)
    BY <1>13, <1>r, <1>i, BecomePaired DEF GraphAnswered
  <1>14. CASE GraphRejected(t)
    <2>1. [r EXCEPT !.pc = "reset", !.attempt = 1, !.rej = r.tok, !.tok = 0].pc = "reset"
      BY <1>r DEF ThreadState
    <2>2. QED
      BY <1>14, <1>r, <1>i, <2>1, BecomePaired DEF GraphRejected, AfterRejection
  <1>15. CASE Invalidate(t)
    <2>1. [r EXCEPT !.pc = "select"].pc = "select"
      BY <1>r DEF ThreadState
    <2>2. QED
      BY <1>15, <1>r, <2>1, BecomePaired DEF Invalidate
  <1>16. QED
    BY <1>1, <1>2, <1>3, <1>4, <1>5, <1>6, <1>7, <1>8, <1>9, <1>10, <1>11,
       <1>12, <1>13, <1>14, <1>15 DEF Advance

LEMMA NextPaired == TypeOK /\ PairingInv /\ [Next]_vars => PairingInv'
  <1> SUFFICES ASSUME TypeOK, PairingInv, [Next]_vars PROVE PairingInv'
    OBVIOUS
  <1> USE DEF World
  <1>c. Paired(cache)
    BY DEF PairingInv, CachePaired
  <1>1. ASSUME NEW t \in Threads, StartProcess(t) PROVE PairingInv'
    <2>1. \A pc \in {"load", "listen"}, op \in Ops :
              [Idle EXCEPT !.pc = pc, !.op = op].pc = pc
      BY DEF Idle
    <2>2. QED
      BY <1>1, <1>c, <2>1, BecomePaired DEF StartProcess, Ops
  <1>2. ASSUME NEW t \in Threads, StartHandler(t) PROVE PairingInv'
    <2>1. \A op \in Ops : [Idle EXCEPT !.pc = "load", !.op = op].pc = "load"
      BY DEF Idle
    <2>2. QED
      BY <1>2, <1>c, <2>1, BecomePaired DEF StartHandler, Ops
  <1>3. ASSUME NEW t \in Threads, Advance(t) PROVE PairingInv'
    BY <1>3, AdvancePaired
  <1>4. ASSUME NEW g \in Grants, Lapse(g) \/ GraphDrops(g) PROVE PairingInv'
    BY <1>4 DEF Lapse, GraphDrops, PairingInv, CachePaired, Paired
  <1>5. ASSUME NEW p \in Procs, Crash(p) PROVE PairingInv'
    BY <1>5 DEF Crash, PairingInv, CachePaired, Paired, Idle
  <1>6. CASE UNCHANGED vars
    BY <1>6 DEF vars, PairingInv, CachePaired, Paired
  <1>7. QED
    BY <1>1, <1>2, <1>3, <1>4, <1>5, <1>6 DEF Next

LEMMA InitPaired == Init => PairingInv
  BY InitCachesAssumption DEF Init, PairingInv, CachePaired, Paired, Idle

LEMMA PairingInvariant == Spec => [](TypeOK /\ PairingInv)
  <1>1. Init => TypeOK /\ PairingInv
    BY InitType, InitPaired
  <1>2. TypeOK /\ PairingInv /\ [Next]_vars => (TypeOK /\ PairingInv)'
    BY NextType, NextPaired
  <1>3. QED
    BY <1>1, <1>2, PTL DEF Spec

\* From the token endpoint's answer to the memory and the cache file a session
\* keeps the expiry it was granted with (token.cpp): what PersistTokenState
\* writes and what a manager is about to remember is never put together from two.
THEOREM SessionsStayPaired == Spec => []PairingInv
  BY PairingInvariant, PTL

\* Whatever the threads of a server do to session_ at the same time, the
\* expiry in the shared cache file is that of the token beside it.
THEOREM CacheIsPaired == Spec => []CachePaired
  <1>1. PairingInv => CachePaired
    BY DEF PairingInv
  <1>2. QED
    BY <1>1, PairingInvariant, PTL

-----------------------------------------------------------------------------
(* With one thread per manager the in-memory session is paired as well     *)

LEMMA OneThreadStores ==
    ASSUME \A t, u \in Threads : ProcOf[t] = ProcOf[u] => t = u,
           NEW t \in Threads, NEW s \in Session
    PROVE  Stores(t, s) = {s}
  <1>1. {Pending(u) : u \in Writers(t)} = {}
    BY DEF Writers
  <1>2. QED
    BY <1>1, MixturesSingleton DEF Stores

LEMMA NextMemoryPaired ==
    ASSUME \A t, u \in Threads : ProcOf[t] = ProcOf[u] => t = u,
           TypeOK, PairingInv, MemoryPaired, [Next]_vars
    PROVE  MemoryPaired'
  <1> USE DEF MemoryPaired, TypeOK, World
  <1>1. ASSUME NEW t \in Threads, NEW s \in Session, Paired(s),
               \E z \in Stores(t, s) : session_' = [session_ EXCEPT ![ProcOf[t]] = z]
        PROVE  MemoryPaired'
    <2>1. Stores(t, s) = {s}
      BY OneThreadStores
    <2>2. session_' = [session_ EXCEPT ![ProcOf[t]] = s]
      BY <1>1, <2>1
    <2>3. QED
      BY <1>1, <2>2 DEF Paired
  <1>n. Paired(NoSession)
    BY DEF Paired, NoSession
  <1>2. CASE UNCHANGED session_
    BY <1>2 DEF Paired
  <1>3. ASSUME NEW t \in Threads, StoreSession(t) \/ RestoreSession(t)
        PROVE  MemoryPaired'
    <2>1. Paired(th[t].cur) /\ th[t].cur \in Session
      BY <1>3 DEF StoreSession, RestoreSession, At, PairingInv, ThreadState
    <2>2. \E z \in Stores(t, th[t].cur) : session_' = [session_ EXCEPT ![ProcOf[t]] = z]
      BY <1>3 DEF StoreSession, RestoreSession
    <2>3. QED
      BY <1>1, <2>1, <2>2
  <1>4. ASSUME NEW t \in Threads, Invalidate(t) PROVE MemoryPaired'
    BY <1>1, <1>4, <1>n, NoSessionType DEF Invalidate
  <1>5. ASSUME NEW t \in Threads, StartProcess(t) PROVE MemoryPaired'
    BY <1>5, <1>n DEF StartProcess, Paired
  <1>6. ASSUME NEW p \in Procs, Crash(p) PROVE MemoryPaired'
    BY <1>6, <1>n DEF Crash, Paired
  <1>7. ASSUME NEW t \in Threads, StartHandler(t) PROVE UNCHANGED session_
    BY <1>7 DEF StartHandler
  <1>8. ASSUME NEW g \in Grants, Lapse(g) \/ GraphDrops(g) PROVE UNCHANGED session_
    BY <1>8 DEF Lapse, GraphDrops
  <1>9. ASSUME NEW t \in Threads, Advance(t),
               ~(StoreSession(t) \/ RestoreSession(t) \/ Invalidate(t))
        PROVE  UNCHANGED session_
    BY <1>9 DEF Advance, Listen, LoadMemory, LoadCache, LoadBootstrap, Persist,
                SelectMemory, SelectCache, RefreshGranted, RefreshLost,
                RefreshFailed, GraphAnswered, GraphRejected
  <1>10. CASE UNCHANGED vars
    BY <1>2, <1>10 DEF vars
  <1>11. QED
    BY <1>2, <1>3, <1>4, <1>5, <1>6, <1>7, <1>8, <1>9, <1>10 DEF Next

\* Where no two threads share a manager (mailcart_token, a server with one
\* worker) an in-memory session never carries the expiry of another token.
THEOREM MemoryIsPaired ==
    ASSUME \A t, u \in Threads : ProcOf[t] = ProcOf[u] => t = u
    PROVE  Spec => []MemoryPaired
  <1>1. Init => MemoryPaired
    <2>1. Paired(NoSession)
      BY DEF Paired, NoSession
    <2>2. QED
      BY <2>1 DEF Init, MemoryPaired
  <1>2. TypeOK /\ PairingInv /\ MemoryPaired /\ [Next]_vars => MemoryPaired'
    BY NextMemoryPaired
  <1>3. QED
    BY <1>1, <1>2, PairingInvariant, PTL DEF Spec

-----------------------------------------------------------------------------
(* An operation refreshes a bounded number of times                        *)

\* The calls of the token endpoint an operation may still make: in attempt 0 of
\* a request another three after GetAccessToken has returned (the retry, then
\* Load and GetAccessToken again), one more after Load ...
Afterwards(r) == IF r.op = "request" /\ r.attempt = 0 THEN 3 ELSE 0
AfterLoad(r) == IF r.op = "health" THEN 0 ELSE 1 + Afterwards(r)

\* ... and after a refresh, whose caller via names.
AfterRefresh(r, via) ==
    IF via \in {"cached", "booted", "load"} THEN AfterLoad(r)
    ELSE IF via = "get" THEN Afterwards(r)
    ELSE IF via = "retry" THEN 1 + AfterLoad(r) ELSE 0

Ahead(r) ==
    IF r.pc \in {"load", "readCache", "boot"} THEN 1 + AfterLoad(r)
    ELSE IF r.pc = "restore" THEN AfterLoad(r)
    ELSE IF r.pc = "post" THEN 1 + AfterRefresh(r, r.via)
    ELSE IF r.pc \in {"store", "persist"} THEN AfterRefresh(r, r.via)
    ELSE IF r.pc \in {"reset", "select", "selectCache"} THEN 2 + AfterLoad(r)
    ELSE IF r.pc = "send" THEN Afterwards(r) ELSE 0

Budget(op) == IF op = "request" THEN 5 ELSE IF op = "health" THEN 1 ELSE 2

\* What an operation has spent and may still spend is within its budget.
Within(r) ==
    /\ r.posts + Ahead(r) <= Budget(r.op)
    /\ r.pc = "send" => r.op = "request"

LEMMA IdleWithin == Within(Idle)
  BY DEF Within, Idle, Ahead, Budget

LEMMA AheadType ==
    ASSUME NEW r \in ThreadState
    PROVE  /\ Afterwards(r) \in {0, 3} /\ AfterLoad(r) \in {0, 1, 4}
           /\ \A via \in Vias : AfterRefresh(r, via) \in 0..5
           /\ Ahead(r) \in 0..6 /\ r.posts \in Nat
  <1>1. Afterwards(r) \in {0, 3}
    BY DEF Afterwards
  <1>2. AfterLoad(r) \in {0, 1, 4}
    BY <1>1 DEF AfterLoad
  <1>3. \A via \in Vias : AfterRefresh(r, via) \in 0..5
    BY <1>1, <1>2 DEF AfterRefresh
  <1>4. Ahead(r) \in 0..6 /\ r.posts \in Nat
    BY <1>1, <1>2, <1>3 DEF Ahead, ThreadState
  <1>5. QED
    BY <1>1, <1>2, <1>3, <1>4

LEMMA CallRefreshWithin ==
    ASSUME NEW r \in ThreadState, NEW s \in Session, NEW via \in Vias,
           r.posts + 1 + AfterRefresh(r, via) <= Budget(r.op)
    PROVE  Within(CallRefresh(r, s, via))
  <1> DEFINE x == [r EXCEPT !.pc = "post", !.cur = s, !.via = via]
  <1>1. /\ x.pc = "post" /\ x.via = via /\ x.op = r.op /\ x.attempt = r.attempt
        /\ x.posts = r.posts
    BY DEF ThreadState
  <1> HIDE DEF x
  <1>2. Ahead(x) = 1 + AfterRefresh(r, via)
    BY <1>1 DEF Ahead, AfterRefresh, AfterLoad, Afterwards
  <1>3. Within(x)
    BY <1>1, <1>2, AheadType DEF Within
  <1>4. QED
    BY <1>3, IdleWithin DEF CallRefresh, x

LEMMA GotTokenWithin ==
    ASSUME NEW r \in ThreadState, NEW a,
           r.posts + Afterwards(r) <= Budget(r.op)
    PROVE  Within(GotToken(r, a))
  <1>1. CASE r.op = "request"
    <2> DEFINE x == [r EXCEPT !.pc = "send", !.tok = a, !.via = "none", !.cur = NoSession]
    <2>1. /\ x.pc = "send" /\ x.op = r.op /\ x.attempt = r.attempt
          /\ x.posts = r.posts
      BY DEF ThreadState
    <2>2. GotToken(r, a) = x
      BY <1>1 DEF GotToken
    <2> HIDE DEF x
    <2>3. QED
      BY <1>1, <2>1, <2>2 DEF Within, Ahead, Afterwards
  <1>2. CASE r.op = "startup"
    <2>1. GotToken(r, a) = [Idle EXCEPT !.pc = "listen", !.op = "startup"]
      BY <1>2 DEF GotToken
    <2>2. QED
      BY <2>1 DEF Idle, Within, Ahead, Budget
  <1>3. CASE r.op # "request" /\ r.op # "startup"
    BY <1>3, IdleWithin DEF GotToken
  <1>4. QED
    BY <1>1, <1>2, <1>3

LEMMA LoadReturnedWithin ==
    ASSUME NEW r \in ThreadState, NEW s \in Session,
           r.posts + AfterLoad(r) <= Budget(r.op)
    PROVE  Within(LoadReturned(r, s))
  <1>0. {"force", "get"} \subseteq Vias
    BY DEF Vias
  <1>1. CASE r.op = "health"
    BY <1>1, IdleWithin DEF LoadReturned
  <1>2. CASE r.op = "force"
    <2>1. r.posts + 1 + AfterRefresh(r, "force") <= Budget(r.op)
      BY <1>2, AheadType DEF AfterRefresh, AfterLoad, Afterwards
    <2>2. QED
      BY <1>0, <1>2, <2>1, CallRefreshWithin DEF LoadReturned
  <1>3. CASE r.op # "health" /\ r.op # "force"
    <2>1. /\ r.posts + 1 + AfterRefresh(r, "get") <= Budget(r.op)
          /\ r.posts + Afterwards(r) <= Budget(r.op)
      BY <1>3, AheadType DEF AfterRefresh, AfterLoad, Budget
    <2>2. /\ Within(CallRefresh(r, s, "get")) /\ Within(GotToken(r, s.access))
      BY <1>0, <2>1, CallRefreshWithin, GotTokenWithin
    <2>3. QED
      BY <1>3, <2>2 DEF LoadReturned
  <1>4. QED
    BY <1>1, <1>2, <1>3

LEMMA RefreshReturnedWithin ==
    ASSUME NEW r \in ThreadState, r.posts + AfterRefresh(r, r.via) <= Budget(r.op)
    PROVE  Within(RefreshReturned(r))
  <1>1. CASE r.via = "load"
    <2> DEFINE x == [r EXCEPT !.pc = "restore"]
    <2>1. /\ x.pc = "restore" /\ x.op = r.op /\ x.attempt = r.attempt
          /\ x.posts = r.posts
      BY DEF ThreadState
    <2>2. RefreshReturned(r) = x
      BY <1>1 DEF RefreshReturned
    <2> HIDE DEF x
    <2>3. QED
      BY <1>1, <2>1, <2>2 DEF Within, Ahead, AfterRefresh, AfterLoad, Afterwards
  <1>2. CASE r.via = "get"
    <2>1. Within(GotToken(r, r.cur.access))
      BY <1>2, GotTokenWithin DEF AfterRefresh
    <2>2. QED
      BY <1>2, <2>1 DEF RefreshReturned
  <1>3. CASE r.via = "retry"
    <2> DEFINE x == [r EXCEPT !.pc = "load", !.via = "none", !.cur = NoSession]
    <2>1. /\ x.pc = "load" /\ x.op = r.op /\ x.attempt = r.attempt
          /\ x.posts = r.posts
      BY DEF ThreadState
    <2>2. RefreshReturned(r) = x
      BY <1>3 DEF RefreshReturned
    <2> HIDE DEF x
    <2>3. QED
      BY <1>3, <2>1, <2>2 DEF Within, Ahead, AfterRefresh, AfterLoad, Afterwards
  <1>4. CASE r.via \notin {"load", "get", "retry"}
    BY <1>4, IdleWithin DEF RefreshReturned
  <1>5. QED
    BY <1>1, <1>2, <1>3, <1>4

\* Every operation of every thread is within its budget: the inductive invariant.
BudgetInv == \A t \in Threads : Within(th[t])

LEMMA BecomeWithin ==
    ASSUME TypeOK, BudgetInv, NEW t \in Threads, NEW r, Become(t, r), Within(r)
    PROVE  BudgetInv'
  <1>1. th'[t] = r /\ \A u \in Threads \ {t} : th'[u] = th[u]
    BY DEF TypeOK, Become
  <1>2. QED
    BY <1>1 DEF BudgetInv

LEMMA AdvanceWithin ==
    ASSUME TypeOK, BudgetInv, NEW t \in Threads, Advance(t)
    PROVE  BudgetInv'
  <1> DEFINE r == th[t]
  <1>r. /\ r \in ThreadState /\ r.cur \in Session /\ Within(r) /\ cache \in Session
        /\ r.posts \in Nat /\ r.via \in Vias
    BY DEF TypeOK, ThreadState, BudgetInv
  <1>v. {"load", "retry"} \subseteq Vias
    BY DEF Vias
  <1> USE DEF At
  <1>1. CASE Listen(t)
    BY <1>1, IdleWithin, BecomeWithin DEF Listen
  <1>2. CASE LoadMemory(t)
    <2>1. PICK checked \in Reads(t), copied \in Reads(t) :
              Become(t, IF IsValid(checked) THEN LoadReturned(r, copied)
                        ELSE [r EXCEPT !.pc = "readCache"])
      BY <1>2 DEF LoadMemory
    <2>2. copied \in Session
      BY <1>r, AccessType
    <2>3. r.pc = "load" /\ r.posts + AfterLoad(r) <= Budget(r.op)
      BY <1>2, <1>r, AheadType DEF LoadMemory, Within, Ahead, Budget
    <2>4. Within(LoadReturned(r, copied))
      BY <1>r, <2>2, <2>3, LoadReturnedWithin
    <2>5. Within([r EXCEPT !.pc = "readCache"])
      <3> DEFINE x == [r EXCEPT !.pc = "readCache"]
      <3>1. /\ x.pc = "readCache" /\ x.op = r.op /\ x.attempt = r.attempt
            /\ x.posts = r.posts
        BY <1>r DEF ThreadState
      <3> HIDE DEF x
      <3>2. Within(x)
        BY <1>r, <2>3, <3>1 DEF Within, Ahead, AfterLoad, Afterwards
      <3>3. QED
        BY <3>2 DEF x
    <2>6. QED
      BY <2>1, <2>4, <2>5, BecomeWithin
  <1>3. CASE LoadCache(t)
    <2>1. r.pc = "readCache" /\ r.posts + 1 + AfterLoad(r) <= Budget(r.op)
      BY <1>3, <1>r, AheadType DEF LoadCache, Within, Ahead
    <2>2. Within([r EXCEPT !.pc = "store", !.cur = cache, !.via = "cached"])
      <3> DEFINE x == [r EXCEPT !.pc = "store", !.cur = cache, !.via = "cached"]
      <3>1. /\ x.pc = "store" /\ x.op = r.op /\ x.attempt = r.attempt
            /\ x.posts = r.posts /\ x.via = "cached"
        BY <1>r DEF ThreadState
      <3> HIDE DEF x
      <3>2. Ahead(x) = AfterLoad(r)
        BY <3>1 DEF Ahead, AfterRefresh, AfterLoad, Afterwards
      <3>3. Within(x)
        BY <1>r, <2>1, <3>1, <3>2, AheadType DEF Within, Budget
      <3>4. QED
        BY <3>3 DEF x
    <2>3. Within([r EXCEPT !.pc = "boot", !.cur = cache])
      <3> DEFINE x == [r EXCEPT !.pc = "boot", !.cur = cache]
      <3>1. /\ x.pc = "boot" /\ x.op = r.op /\ x.attempt = r.attempt
            /\ x.posts = r.posts
        BY <1>r DEF ThreadState
      <3> HIDE DEF x
      <3>2. Within(x)
        BY <1>r, <2>1, <3>1 DEF Within, Ahead, AfterLoad, Afterwards
      <3>3. QED
        BY <3>2 DEF x
    <2>4. QED
      BY <1>3, <2>2, <2>3, BecomeWithin DEF LoadCache
  <1>4. CASE LoadBootstrap(t)
    <2>1. r.pc = "boot" /\ r.posts + 1 + AfterLoad(r) <= Budget(r.op)
      BY <1>4, <1>r, AheadType DEF LoadBootstrap, Within, Ahead
    <2>2. ASSUME NEW b \in Session PROVE Within(AfterBootstrap(r, b))
      <3> DEFINE x == [r EXCEPT !.pc = "store", !.cur = b, !.via = "booted"]
      <3>1. /\ x.pc = "store" /\ x.op = r.op /\ x.attempt = r.attempt
            /\ x.posts = r.posts /\ x.via = "booted"
        BY <1>r DEF ThreadState
      <3>2. Within(CallRefresh(r, b, "load"))
        BY <1>r, <1>v, <2>1, CallRefreshWithin DEF AfterRefresh
      <3> HIDE DEF x
      <3>3. Ahead(x) = AfterLoad(r)
        BY <3>1 DEF Ahead, AfterRefresh, AfterLoad, Afterwards
      <3>4. Within(x)
        BY <1>r, <2>1, <3>1, <3>3, AheadType DEF Within, Budget
      <3>5. QED
        BY <3>2, <3>4 DEF x, AfterBootstrap
    <2>3. PICK pr \in PsaLookup(PsaRefresh), pa \in PsaLookup(PsaAccess) :
              Become(t, AfterBootstrap(r, BootstrapSession(r.cur, pr, pa)))
      BY <1>4 DEF LoadBootstrap
    <2>4. BootstrapSession(r.cur, pr, pa) \in Session
      BY <1>r, GraphTokenAssumption, PsaLookupType, BootstrapType
    <2>5. QED
      BY <2>2, <2>3, <2>4, BecomeWithin
  <1>5. CASE StoreSession(t)
    <2>1. r.pc = "store" /\ r.posts + AfterRefresh(r, r.via) <= Budget(r.op)
      BY <1>5, <1>r DEF StoreSession, Within, Ahead
    <2>2. CASE r.via = "cached"
      <3>1. Within(LoadReturned(r, r.cur))
        BY <1>r, <2>1, <2>2, LoadReturnedWithin DEF AfterRefresh
      <3>2. QED
        BY <1>5, <2>2, <3>1, BecomeWithin DEF StoreSession
    <2>3. CASE r.via # "cached"
      <3> DEFINE x == [r EXCEPT !.pc = "persist"]
      <3>1. /\ x.pc = "persist" /\ x.op = r.op /\ x.attempt = r.attempt
            /\ x.posts = r.posts /\ x.via = r.via
        BY <1>r DEF ThreadState
      <3>2. Become(t, x)
        BY <1>5, <2>3 DEF StoreSession
      <3> HIDE DEF x
      <3>3. Within(x)
        BY <1>r, <2>1, <3>1 DEF Within, Ahead, AfterRefresh, AfterLoad, Afterwards
      <3>4. QED
        BY <3>2, <3>3, BecomeWithin
    <2>4. QED
      BY <2>2, <2>3
  <1>6. CASE Persist(t)
    <2>1. r.pc = "persist" /\ r.posts + AfterRefresh(r, r.via) <= Budget(r.op)
      BY <1>6, <1>r DEF Persist, Within, Ahead
    <2>2. r.via = "booted" => Within(LoadReturned(r, r.cur))
      BY <1>r, <2>1, LoadReturnedWithin DEF AfterRefresh
    <2>3. Within(RefreshReturned(r))
      BY <1>r, <2>1, RefreshReturnedWithin
    <2>4. QED
      BY <1>6, <2>2, <2>3, BecomeWithin DEF Persist
  <1>7. CASE RestoreSession(t)
    <2>1. r.pc = "restore" /\ r.posts + AfterLoad(r) <= Budget(r.op)
      BY <1>7, <1>r DEF RestoreSession, Within, Ahead
    <2>2. Within(LoadReturned(r, r.cur))
      BY <1>r, <2>1, LoadReturnedWithin
    <2>3. QED
      BY <1>7, <2>2, BecomeWithin DEF RestoreSession
  <1>8. ASSUME r.posts + 2 + AfterLoad(r) <= Budget(r.op), NEW s \in Session
        PROVE  Within(CallRefresh(r, s, "retry"))
    <2>1. r.posts + 1 + AfterRefresh(r, "retry") <= Budget(r.op)
      BY <1>8, <1>r, AheadType DEF AfterRefresh
    <2>2. QED
      BY <1>r, <1>v, <2>1, CallRefreshWithin
  <1>9. CASE SelectMemory(t)
    <2>1. r.pc = "select" /\ r.posts + 2 + AfterLoad(r) <= Budget(r.op)
      BY <1>9, <1>r, AheadType DEF SelectMemory, Within, Ahead
    <2>2. PICK s \in Reads(t) :
              Become(t, IF s = NoSession THEN [r EXCEPT !.pc = "selectCache"]
                        ELSE CallRefresh(r, s, "retry"))
      BY <1>9 DEF SelectMemory
    <2>3. Within(CallRefresh(r, s, "retry"))
      BY <1>r, <1>8, <2>1, <2>2, AccessType
    <2>4. Within([r EXCEPT !.pc = "selectCache"])
      <3> DEFINE x == [r EXCEPT !.pc = "selectCache"]
      <3>1. /\ x.pc = "selectCache" /\ x.op = r.op /\ x.attempt = r.attempt
            /\ x.posts = r.posts
        BY <1>r DEF ThreadState
      <3> HIDE DEF x
      <3>2. Within(x)
        BY <1>r, <2>1, <3>1 DEF Within, Ahead, AfterLoad, Afterwards
      <3>3. QED
        BY <3>2 DEF x
    <2>5. QED
      BY <2>2, <2>3, <2>4, BecomeWithin
  <1>10. CASE SelectCache(t)
    <2>1. r.pc = "selectCache" /\ r.posts + 2 + AfterLoad(r) <= Budget(r.op)
      BY <1>10, <1>r, AheadType DEF SelectCache, Within, Ahead
    <2>2. PICK pr \in PsaLookup(PsaRefresh), pa \in PsaLookup(PsaAccess) :
              Become(t, CallRefresh(r, IF cache # NoSession THEN cache
                                       ELSE BootstrapSession(NoSession, pr, pa), "retry"))
      BY <1>10 DEF SelectCache
    <2>3. BootstrapSession(NoSession, pr, pa) \in Session
      BY NoSessionType, GraphTokenAssumption, PsaLookupType, BootstrapType
    <2>4. QED
      BY <1>r, <1>8, <2>1, <2>2, <2>3, BecomeWithin
  <1>11. CASE RefreshGranted(t)
    <2>1. r.pc = "post" /\ r.posts + 1 + AfterRefresh(r, r.via) <= Budget(r.op)
      BY <1>11, <1>r, AheadType DEF RefreshGranted, Within, Ahead
    <2>2. PICK s : Become(t, [r EXCEPT !.pc = "store", !.posts = @ + 1, !.cur = s])
      BY <1>11 DEF RefreshGranted
    <2> DEFINE x == [r EXCEPT !.pc = "store", !.posts = r.posts + 1, !.cur = s]
    <2>3. /\ x.pc = "store" /\ x.op = r.op /\ x.attempt = r.attempt
          /\ x.posts = r.posts + 1 /\ x.via = r.via
      BY <1>r DEF ThreadState
    <2>4. Become(t, x)
      BY <2>2
    <2> HIDE DEF x
    <2>5. Ahead(x) = AfterRefresh(r, r.via)
      BY <2>3 DEF Ahead, AfterRefresh, AfterLoad, Afterwards
    <2>6. Within(x)
      BY <1>r, <2>1, <2>3, <2>5 DEF Within
    <2>7. QED
      BY <2>4, <2>6, BecomeWithin
  <1>12. CASE RefreshLost(t) \/ RefreshFailed(t) \/ GraphAnswered(t)
    BY <1>12, IdleWithin, BecomeWithin DEF RefreshLost, RefreshFailed, GraphAnswered
  <1>13. CASE GraphRejected(t)
    <2>1. /\ r.pc = "send" /\ r.op = "request" /\ Become(t, AfterRejection(r))
          /\ r.posts + Afterwards(r) <= Budget(r.op)
      BY <1>13, <1>r DEF GraphRejected, Within, Ahead
    <2>2. CASE r.attempt = 0
      <3> DEFINE x == [r EXCEPT !.pc = "reset", !.attempt = 1, !.rej = r.tok, !.tok = 0]
      <3>1. /\ x.pc = "reset" /\ x.op = r.op /\ x.attempt = 1 /\ x.posts = r.posts
        BY <1>r DEF ThreadState
      <3>2. Become(t, x)
        BY <2>1, <2>2 DEF AfterRejection
      <3> HIDE DEF x
      <3>3. Within(x)
        BY <1>r, <2>1, <2>2, <3>1 DEF Within, Ahead, AfterLoad, Afterwards
      <3>4. QED
        BY <3>2, <3>3, BecomeWithin
    <2>3. CASE r.attempt # 0
      BY <2>1, <2>3, IdleWithin, BecomeWithin DEF AfterRejection
    <2>4. QED
      BY <2>2, <2>3
  <1>14. CASE Invalidate(t)
    <2> DEFINE x == [r EXCEPT !.pc = "select"]
    <2>1. /\ x.pc = "select" /\ x.op = r.op /\ x.attempt = r.attempt
          /\ x.posts = r.posts
      BY <1>r DEF ThreadState
    <2>2. Become(t, x) /\ r.pc = "reset"
      BY <1>14 DEF Invalidate
    <2> HIDE DEF x
    <2>3. Within(x)
      BY <1>r, <2>1, <2>2 DEF Within, Ahead, AfterLoad, Afterwards
    <2>4. QED
      BY <2>2, <2>3, BecomeWithin
  <1>15. QED
    BY <1>1, <1>2, <1>3, <1>4, <1>5, <1>6, <1>7, <1>9, <1>10, <1>11, <1>12, <1>13,
       <1>14 DEF Advance

LEMMA NextWithin == TypeOK /\ BudgetInv /\ [Next]_vars => BudgetInv'
  <1> SUFFICES ASSUME TypeOK, BudgetInv, [Next]_vars PROVE BudgetInv'
    OBVIOUS
  <1>1. ASSUME NEW t \in Threads, NEW op \in Ops, NEW pc \in {"load", "listen"},
               op \in {"request", "health"} => pc = "load",
               Become(t, [Idle EXCEPT !.pc = pc, !.op = op])
        PROVE  BudgetInv'
    <2> DEFINE x == [Idle EXCEPT !.pc = pc, !.op = op]
    <2>1. x.pc = pc /\ x.op = op /\ x.attempt = 0 /\ x.posts = 0
      BY DEF Idle
    <2>2. Become(t, x)
      BY <1>1
    <2> HIDE DEF x
    <2>3. Within(x)
      BY <1>1, <2>1 DEF Within, Ahead, AfterLoad, Afterwards, Budget
    <2>4. QED
      BY <2>2, <2>3, BecomeWithin
  <1>2. ASSUME NEW t \in Threads, StartProcess(t) PROVE BudgetInv'
    <2>1. \E op \in {"startup", "get", "force"}, pc \in {"load", "listen"} :
              Become(t, [Idle EXCEPT !.pc = pc, !.op = op])
      BY <1>2 DEF StartProcess
    <2>2. QED
      BY <1>1, <2>1 DEF Ops
  <1>3. ASSUME NEW t \in Threads, StartHandler(t) PROVE BudgetInv'
    BY <1>1, <1>3 DEF StartHandler, Ops
  <1>4. ASSUME NEW t \in Threads, Advance(t) PROVE BudgetInv'
    BY <1>4, AdvanceWithin
  <1>5. ASSUME NEW g \in Grants, Lapse(g) \/ GraphDrops(g) PROVE BudgetInv'
    BY <1>5 DEF Lapse, GraphDrops, BudgetInv
  <1>6. ASSUME NEW p \in Procs, Crash(p) PROVE BudgetInv'
    BY <1>6, IdleWithin DEF Crash, BudgetInv
  <1>7. CASE UNCHANGED vars
    BY <1>7 DEF vars, BudgetInv
  <1>8. QED
    BY <1>2, <1>3, <1>4, <1>5, <1>6, <1>7 DEF Next

\* However often Load, GetAccessToken and the retry of Request (graph.cpp)
\* refresh on their own account, one operation calls the token endpoint at
\* most five times, in any number of racing threads and whatever it answers.
THEOREM RefreshesAreBounded == Spec => []RefreshBudget
  <1>1. Init => BudgetInv
    BY IdleWithin DEF Init, BudgetInv
  <1>2. TypeOK /\ BudgetInv => RefreshBudget
    <2> SUFFICES ASSUME TypeOK, BudgetInv, NEW t \in Threads
                 PROVE  th[t].posts <= Budget(th[t].op)
      BY DEF RefreshBudget, Budget
    <2>1. th[t] \in ThreadState /\ Within(th[t])
      BY DEF TypeOK, BudgetInv
    <2>2. Budget(th[t].op) \in {1, 2, 5} /\ Ahead(th[t]) \in 0..6 /\ th[t].posts \in Nat
      BY <2>1, AheadType DEF Budget
    <2>3. QED
      BY <2>1, <2>2 DEF Within
  <1>3. QED
    BY <1>1, <1>2, InitType, NextType, NextWithin, PTL DEF Spec
=============================================================================
