----------------------------- MODULE Subprocess -----------------------------
(***************************************************************************)
(* subprocess::Run of cpp_core/src/subprocess.cpp, with which the token    *)
(* manager asks 1psa for tokens: a thread opens two pipes, spawns a child, *)
(* reads its standard output to the end, then its standard error, and      *)
(* waits for it.  Threads of one process may do so at the same time.  The  *)
(* pipes are not close-on-exec: a child spawned while another thread has   *)
(* its write ends open inherits them, and keeps them until it exits.       *)
(*                                                                         *)
(* Output is counted in units of which a pipe holds Capacity.              *)
(***************************************************************************)
EXTENDS Naturals

CONSTANTS
    Threads,
    ProcOf,      \* ProcOf[t]: the process of thread t
    Capacity,    \* what a pipe holds
    MaxWritten   \* bound on what a child writes, to both streams together

ASSUME SubprocessAssumption ==
    Capacity \in Nat /\ MaxWritten \in Nat

VARIABLES
    run,         \* run[t]: where thread t is in Run
    child        \* child[t]: the child of thread t and its pipes

runVars == <<run, child>>

\* leftOut, leftErr: what the child has yet to write; out, err: what is in the
\* pipes; holds: the threads whose write ends it has inherited.
Child == [alive : BOOLEAN, leftOut : 0..MaxWritten, out : 0..Capacity,
          leftErr : 0..MaxWritten, err : 0..Capacity, holds : SUBSET Threads]

NoChild == [alive |-> FALSE, leftOut |-> 0, out |-> 0, leftErr |-> 0, err |-> 0,
            holds |-> {}]

RunInit ==
    /\ run = [t \in Threads |-> "idle"]
    /\ child = [t \in Threads |-> NoChild]

RunTypeOK ==
    /\ run \in [Threads -> {"idle", "piped", "spawned", "out", "err", "wait"}]
    /\ child \in [Threads -> Child]

At(t, pc) == run[t] = pc
Go(t, pc) == run' = [run EXCEPT ![t] = pc]

-----------------------------------------------------------------------------
(* Run                                                                     *)

\* If pipe() or the spawn fails, Run returns without having launched anything.
OpenPipes(t) ==
    /\ At(t, "idle")
    /\ Go(t, "piped") \/ UNCHANGED run
    /\ UNCHANGED child

\* Threads of t's process with open write ends.
Leaking(t) == {u \in Threads \ {t} : ProcOf[u] = ProcOf[t] /\ run[u] \in {"piped", "spawned"}}

Spawn(t) ==
    /\ At(t, "piped")
    /\ \E o, e \in 0..MaxWritten :
          /\ o + e <= MaxWritten
          /\ child' = [child EXCEPT ![t] =
                          [alive |-> TRUE, leftOut |-> o, out |-> 0, leftErr |-> e, err |-> 0,
                           holds |-> Leaking(t)]]
    /\ Go(t, "spawned")

SpawnFails(t) ==
    /\ At(t, "piped")
    /\ Go(t, "idle")
    /\ UNCHANGED child

CloseWriteEndsErrFirst(t) ==   \* mutant: standard error is read first
    /\ At(t, "spawned")
    /\ Go(t, "err")
    /\ UNCHANGED child
CloseWriteEnds(t) ==
    /\ At(t, "spawned")
    /\ Go(t, "out")
    /\ UNCHANGED child

\* Nobody can write to the pipes of t any more.
AllClosed(t) ==
    /\ ~child[t].alive
    /\ \A u \in Threads : child[u].alive => t \notin child[u].holds

\* ReadAll on standard output, then on standard error.
ReadOutUntilEmpty(t) ==   \* mutant: an empty pipe is taken for the end
    /\ At(t, "out")
    /\ \/ child[t].out > 0 /\ child' = [child EXCEPT ![t].out = @ - 1] /\ UNCHANGED run
       \/ child[t].out = 0 /\ Go(t, "err") /\ UNCHANGED child
ReadOut(t) ==
    /\ At(t, "out")
    /\ \/ child[t].out > 0 /\ child' = [child EXCEPT ![t].out = @ - 1] /\ UNCHANGED run
       \/ child[t].out = 0 /\ AllClosed(t) /\ Go(t, "err") /\ UNCHANGED child

ReadErrUnchecked(t) ==   \* mutant: a failed read counts as data
    /\ At(t, "err")
    /\ \/ child' = [child EXCEPT ![t].err = @ - 1] /\ UNCHANGED run
       \/ child[t].err = 0 /\ AllClosed(t) /\ Go(t, "wait") /\ UNCHANGED child
ReadErr(t) ==
    /\ At(t, "err")
    /\ \/ child[t].err > 0 /\ child' = [child EXCEPT ![t].err = @ - 1] /\ UNCHANGED run
       \/ child[t].err = 0 /\ AllClosed(t) /\ Go(t, "wait") /\ UNCHANGED child

WaitPid(t) ==
    /\ At(t, "wait")
    /\ ~child[t].alive
    /\ Go(t, "idle")
    /\ UNCHANGED child

RunStep(t) ==
    \/ Spawn(t) \/ SpawnFails(t) \/ CloseWriteEnds(t)
    \/ ReadOut(t) \/ ReadErr(t) \/ WaitPid(t)

-----------------------------------------------------------------------------
(* The child writes what it has to, in any order, and exits.  A full pipe   *)
(* makes it wait.                                                          *)

ChildWrites(t) ==
    \/ /\ child[t].leftOut > 0 /\ child[t].out < Capacity
       /\ child' = [child EXCEPT ![t].leftOut = @ - 1, ![t].out = @ + 1]
       /\ UNCHANGED run
    \/ /\ child[t].leftErr > 0 /\ child[t].err < Capacity
       /\ child' = [child EXCEPT ![t].leftErr = @ - 1, ![t].err = @ + 1]
       /\ UNCHANGED run

ChildExits(t) ==
    /\ child[t].alive /\ child[t].leftOut = 0 /\ child[t].leftErr = 0
    /\ child' = [child EXCEPT ![t].alive = FALSE, ![t].holds = {}]
    /\ UNCHANGED run

ChildStep(t) == ChildWrites(t) \/ ChildExits(t)
=============================================================================
