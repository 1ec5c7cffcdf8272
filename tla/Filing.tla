------------------------------- MODULE Filing -------------------------------
(***************************************************************************)
(* What the clients of the mailbox are promised about filing messages,     *)
(* whichever way they ask for it (POST .../move of the API server, the     *)
(* app's moveMessageToFolder): a request files its message at most once,   *)
(* in a folder whose name is one it is content with, at one moment between *)
(* the question and the answer, and only if nobody has moved the message   *)
(* since the client learned its id.  "moved" is only said of a request     *)
(* that has; a request that is told "failed" may have, for an answer can   *)
(* get lost.                                                               *)
(***************************************************************************)
EXTENDS Naturals

CONSTANTS
    Clients,
    Messages,
    Labels,     \* folder names
    Inbox,      \* the label of messages in no such folder
    MaxMoves

VARIABLES
    label,      \* label[m]: the folder message m is in
    moves,      \* moves[m]: how often it has been moved
    request,    \* request[c]: what client c asks for
    reply       \* reply[c]: "none", "pending", "moved" or "failed"

vars == <<label, moves, request, reply>>

\* names: the folder names the request is content with.
Request == [message : Messages, moves : 0..MaxMoves, names : SUBSET Labels]

Init ==
    /\ label = [m \in Messages |-> Inbox]
    /\ moves = [m \in Messages |-> 0]
    /\ request \in [Clients -> Request]
    /\ reply = [c \in Clients |-> "none"]

\* What is asked for matters as long as the reply is pending.
Becomes(c, answer) ==
    /\ reply' = [reply EXCEPT ![c] = answer]
    /\ request'[c] \in Request
    /\ request' = [request EXCEPT ![c] = request'[c]]

\* The client asks, and may be turned down at once, or goes on to something else.
Ask(c) ==
    /\ reply[c] # "pending"
    /\ \E answer \in {"pending", "failed", "none"} : Becomes(c, answer)
    /\ UNCHANGED <<label, moves>>

File(c) ==
    LET r == request[c] IN
    /\ reply[c] = "pending"
    /\ moves[r.message] = r.moves
    /\ r.moves < MaxMoves
    /\ \E l \in r.names : label' = [label EXCEPT ![r.message] = l]
    /\ moves' = [moves EXCEPT ![r.message] = @ + 1]
    /\ \E answer \in {"moved", "failed"} : Becomes(c, answer)

Fail(c) ==
    /\ reply[c] = "pending"
    /\ Becomes(c, "failed")
    /\ UNCHANGED <<label, moves>>

\* Somebody else moves a message.
Elsewhere ==
    /\ \E m \in Messages, l \in Labels \cup {Inbox} :
        /\ moves[m] < MaxMoves
        /\ label' = [label EXCEPT ![m] = l]
        /\ moves' = [moves EXCEPT ![m] = @ + 1]
    /\ UNCHANGED <<request, reply>>

Next ==
    \/ Elsewhere
    \/ \E c \in Clients : Ask(c) \/ File(c) \/ Fail(c)

Spec == Init /\ [][Next]_vars
=============================================================================
