--------------------------- MODULE MailcartServer ---------------------------
(***************************************************************************)
(* Several starts of mailcart_api (cpp_core/tools/mailcart_api.cpp) on one *)
(* port: the eager token check, the TLS files, the probe of the port and   *)
(* of the server behind it, and binding.  The token check, and the worker  *)
(* threads of a server, may run 1psa (Subprocess).                         *)
(***************************************************************************)
EXTENDS Subprocess

CONSTANTS
    Starters,     \* processes
    Main,         \* Main[s]: the main thread of s; 1psa may be asked by Threads
    MayDie        \* servers that may be killed

VARIABLES
    stage,        \* stage[s]: where s is in main, or how it has ended
    foreign       \* another program on the port: "never", "there" or "gone"

serverVars == <<stage, foreign>>
vars == <<serverVars, runVars>>

Ended == {"noToken", "noTls", "reused", "occupied", "noBind", "killed"}
Stages == {"start", "token", "tls", "probe", "https", "bind", "bound", "serving"} \cup Ended

Init ==
    /\ stage = [s \in Starters |-> "start"]
    /\ foreign \in {"never", "there"}
    /\ RunInit

Stage(s, from) == stage[s] = from
Move(s, to) == stage' = [stage EXCEPT ![s] = to]

Serving == {s \in Starters : stage[s] = "serving"}
Bound == {s \in Starters : stage[s] \in {"bound", "serving"}}

-----------------------------------------------------------------------------
(* main                                                                    *)

\* With a client id in the environment a token must be had before anything
\* else, for which the main thread may have to ask 1psa.
BeginTokenCheck(s) ==
    /\ Stage(s, "start")
    /\ \/ Move(s, "tls") /\ UNCHANGED runVars
       \/ Move(s, "token") /\ UNCHANGED runVars
       \/ Main[s] \in Threads /\ Move(s, "token") /\ OpenPipes(Main[s])
    /\ UNCHANGED foreign

EndTokenCheck(s) ==
    /\ Stage(s, "token")
    /\ Main[s] \in Threads => run[Main[s]] = "idle"
    /\ Move(s, "tls") \/ Move(s, "noToken")
    /\ UNCHANGED <<foreign, runVars>>

\* The certificate and the key are files, or not.
CheckTls(s) ==
    /\ Stage(s, "tls")
    /\ Move(s, "probe") \/ Move(s, "noTls")
    /\ UNCHANGED <<foreign, runVars>>

\* IsPortInUse: somebody accepts connections, and does so within 250 ms.
IsPortBound(s) ==   \* mutant: probes with bind instead of connect
    /\ Stage(s, "probe")
    /\ \/ (foreign = "there" \/ Bound # {}) /\ Move(s, "https")
       \/ Move(s, "bind")
    /\ UNCHANGED <<foreign, runVars>>
IsPortInUse(s) ==
    /\ Stage(s, "probe")
    /\ \/ (foreign = "there" \/ Serving # {}) /\ Move(s, "https")
       \/ Move(s, "bind")
    /\ UNCHANGED <<foreign, runVars>>

\* ExistingServerIsHealthy needs an answer of /health, which may refresh a
\* token, within 1.5 s; any other server is in the way.
ProbeHealthRetries(s) ==   \* mutant: probes again until it is healthy
    /\ Stage(s, "https")
    /\ \/ Serving # {} /\ Move(s, "reused")
       \/ Move(s, "probe")
    /\ UNCHANGED <<foreign, runVars>>
ProbeHealth(s) ==
    /\ Stage(s, "https")
    /\ \/ Serving # {} /\ Move(s, "reused")
       \/ Move(s, "occupied")
    /\ UNCHANGED <<foreign, runVars>>

\* The certificate or the key is no good.
TlsFails(s) ==
    /\ Stage(s, "bind")
    /\ Move(s, "noTls")
    /\ UNCHANGED <<foreign, runVars>>

\* server.listen binds and then listens.  Where there is SO_REUSEPORT, httplib
\* sets it, and two servers may share the port; elsewhere the second one fails.
Bind(s) ==
    /\ Stage(s, "bind")
    /\ foreign # "there"
    /\ Move(s, "bound")
    /\ UNCHANGED <<foreign, runVars>>

Listen(s) ==
    /\ Stage(s, "bound")
    /\ Move(s, "serving")
    /\ UNCHANGED <<foreign, runVars>>

\* It fails at either for any reason: the port is taken, the address is not of
\* this host, the port is privileged, there are no descriptors left.
ListenFails(s) ==
    /\ Stage(s, "bind") \/ Stage(s, "bound")
    /\ Move(s, "noBind")
    /\ UNCHANGED <<foreign, runVars>>

MainStep(s) ==
    \/ BeginTokenCheck(s) \/ EndTokenCheck(s) \/ CheckTls(s) \/ IsPortInUse(s)
    \/ ProbeHealth(s) \/ TlsFails(s) \/ Bind(s) \/ Listen(s) \/ ListenFails(s)

-----------------------------------------------------------------------------

\* A worker of a server asks 1psa for a request.
AskPsa(t) ==
    /\ t # Main[ProcOf[t]] /\ Stage(ProcOf[t], "serving")
    /\ OpenPipes(t)
    /\ UNCHANGED serverVars

\* The threads are gone and their children, whom nobody reads any more.
Die(s) ==
    /\ s \in MayDie /\ stage[s] = "serving"
    /\ Move(s, "killed")
    /\ run' = [t \in Threads |-> IF ProcOf[t] = s THEN "idle" ELSE run[t]]
    /\ child' = [t \in Threads |-> IF ProcOf[t] = s THEN NoChild ELSE child[t]]
    /\ UNCHANGED foreign

ForeignEnds ==
    /\ foreign = "there"
    /\ foreign' = "gone"
    /\ UNCHANGED <<stage, runVars>>

ThreadStep(t) == RunStep(t) /\ UNCHANGED serverVars
ProgramStep(t) == ChildStep(t) /\ UNCHANGED serverVars

Next ==
    \/ \E s \in Starters : MainStep(s) \/ Die(s)
    \/ \E t \in Threads : AskPsa(t) \/ ThreadStep(t) \/ ProgramStep(t)
    \/ ForeignEnds

Spec == Init /\ [][Next]_vars

\* Threads and children are scheduled; 1psa does not wait for anything else.
FairSpec ==
    /\ Spec
    /\ \A s \in Starters : WF_vars(MainStep(s))
    /\ \A t \in Threads : WF_vars(ThreadStep(t)) /\ WF_vars(ProgramStep(t))

-----------------------------------------------------------------------------
(* Properties                                                              *)

\* Every variable has its type.
TypeOK ==
    /\ RunTypeOK
    /\ stage \in [Starters -> Stages]
    /\ foreign \in {"never", "there", "gone"}

\* When Run has read both pipes it has everything the child has written, even
\* if children of other threads have held the pipes open.
OutputIsWhole ==
    \A t \in Threads :
        run[t] = "wait" =>
            child[t].leftOut + child[t].out + child[t].leftErr + child[t].err = 0

\* A thread reads standard output to the end while its child, or one that has
\* inherited its write ends, waits for room in the pipe of its standard error.
Jammed(t) ==
    \E u \in Threads :
        /\ u = t \/ t \in child[u].holds
        /\ run[u] = "out" /\ child[u].out = 0 /\ child[u].leftOut = 0
        /\ child[u].err = Capacity /\ child[u].leftErr > 0

\* Run returns, however much its child and those that share its pipes write,
\* unless one of them writes more to standard error than the pipe holds.
RunEnds ==
    \A t \in Threads :
        run[t] # "idle" ~> run[t] = "idle" \/ Jammed(t)

\* A start gives way only to somebody who is there: one that reuses the existing
\* server has met a server that serves, or has been killed since; one that finds
\* the port occupied has met such a server or another program.  In particular
\* starts never give way to one that is still on its way, and may fail to listen.
NobodyYieldsToNobody ==
    \A s \in Starters :
        /\ stage[s] = "reused" => \E p \in Starters : stage[p] \in {"serving", "killed"}
        /\ stage[s] = "occupied" /\ foreign = "never" =>
               \E p \in Starters : stage[p] \in {"serving", "killed"}

\* Every start comes to an end: it serves, or it says why not, unless the token
\* check is stuck in Run.
StartsEnd ==
    \A s \in Starters : <>(stage[s] \in Ended \cup {"serving"} \/ Jammed(Main[s]))
=============================================================================
