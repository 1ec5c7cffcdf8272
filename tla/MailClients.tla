----------------------------- MODULE MailClients -----------------------------
(***************************************************************************)
(* The workers of mailcart_api and the threads of the macOS app at work in *)
(* one mailbox, next to its owner's other mail programs.                   *)
(***************************************************************************)
EXTENDS MailcartApi, OutlookBridge

CONSTANT
    MaxTrouble     \* MaxTrouble[e]: bound on refreshes, expiries and refusals of
                   \* the app's tokens under a server with the environment e

ASSUME ClientsAssumption == Workers \cap Callers = {}

vars == <<mailbox, apiVars, bridgeVars>>

Init == MailboxInit /\ ApiInit /\ BridgeInit

Owner == OwnerMoves \/ OwnerDeletesFolder

Next ==
    \/ \E w \in Workers : (Receive(w) \/ WorkerStep(w)) /\ UNCHANGED bridgeVars
    \/ \E b \in Callers : (StartOperation(b) \/ CallerStep(b)) /\ UNCHANGED apiVars
    \/ World /\ Trouble < MaxTrouble[environment] /\ UNCHANGED apiVars
    \/ Owner /\ UNCHANGED <<apiVars, bridgeVars>>

Spec == Init /\ [][Next]_vars

\* Calls of Graph and of mailcart_token end: the HTTP clients time out (25 s in
\* cpp_core, 60 s by default in the app), mailcart_token does nothing else.
FairSpec ==
    /\ Spec
    /\ \A w \in Workers : WF_vars(WorkerStep(w) /\ UNCHANGED bridgeVars)
    /\ \A b \in Callers : WF_vars(CallerStep(b) /\ UNCHANGED apiVars)

-----------------------------------------------------------------------------
(* Properties                                                              *)

\* Every variable has its type.
TypeOK ==
    /\ MailboxTypeOK
    /\ environment \in Environments
    /\ worker \in [Workers -> WorkerState]
    /\ caller \in [Callers -> CallerState]
    /\ issued \in 1..MaxTokens
    /\ cached \in 0..issued
    /\ expired \subseteq 1..issued
    /\ rejected \subseteq 1..issued

\* After a 401 and a refresh that has reached the cache file the app sends
\* another token than the one refused, whatever refreshes and expiries come in
\* between, unless it has fallen back on the one of the environment.
RetryIsFresh ==
    \A b \in Callers :
        caller[b].pc = "send" /\ caller[b].tried # 0 /\ caller[b].saved =>
            caller[b].token \in {EnvToken} \cup (Tokens \ {caller[b].tried})

\* Every operation of the app ends, rejected tokens and refreshes or not: the
\* spinner of the mailbox window relies on it.
AppCallsEnd ==
    \A b \in Callers : caller[b].pc # "done" ~> caller[b].pc \in {"idle", "done"}

\* What Filing sees of a worker and of a caller.
MoveRequest(id, names) ==
    [message |-> id.message, moves |-> id.moves, names |-> names]

WorkerReply(r) ==
    CASE ~r.moving -> "none"
      [] r.moving /\ r.pc # "answered" -> "pending"
      [] r.moving /\ r.pc = "answered" -> IF r.status = 200 THEN "moved" ELSE "failed"

CallerReply(r) ==
    CASE r.pc = "done" -> IF r.outcome = "moved" THEN "moved"
                          ELSE IF r.outcome = "unmoved" THEN "failed" ELSE "none"
      [] r.pc # "done" -> IF r.leg \in {"list", "create", "move"} THEN "pending" ELSE "none"

RequestOf(c) == IF c \in Workers THEN MoveRequest(worker[c].id, SameInAscii(worker[c].name))
                ELSE MoveRequest(caller[c].id, SameToApp(caller[c].name))

ReplyTo(c) == IF c \in Workers THEN WorkerReply(worker[c]) ELSE CallerReply(caller[c])

LabelOf(m) == IF place[m] = Inbox THEN "Inbox" ELSE folders[place[m]]

FiledMoves ==
    INSTANCE Filing WITH
        Clients <- Workers \cup Callers,
        Labels  <- Names,
        Inbox   <- "Inbox",
        label   <- [m \in Messages |-> LabelOf(m)],
        moves   <- moves,
        request <- [c \in Workers \cup Callers |-> RequestOf(c)],
        reply   <- [c \in Workers \cup Callers |-> ReplyTo(c)]

\* Both clients keep the promise of Filing: when "moved" is answered the message
\* has been put, once and for this request, into a folder of the name asked for,
\* up to what the client takes for case.
MovesAreFiled == FiledMoves!Spec
=============================================================================
