--------------------------- MODULE MacosBuildLock ---------------------------
(***************************************************************************)
(* with_macos_build_lock of scripts/macos_build_lock.sh: the directory     *)
(* .build/.macos-ui-build.lock serializes the Xcode builds of test lanes   *)
(* that run in parallel.  A lane takes the lock with mkdir, then writes    *)
(* its pid to owner.pid; a waiting lane removes a lock whose owner is no   *)
(* longer running.  Each command of the script that touches the file       *)
(* system or looks at another process is a step of its own; rm -rf is two, *)
(* since it unlinks owner.pid before it removes the directory, and may fail *)
(* at either, which the script ignores.                                     *)
(***************************************************************************)
EXTENDS Naturals

CONSTANTS
    Lanes,    \* the shells that want to build, named by their pids
    Mortal,   \* those that may end, at any moment, while others still wait
    NoPid,    \* what cat yields for a missing or empty owner.pid
    Timeout,  \* MACOS_UI_BUILD_LOCK_TIMEOUT_SECONDS
    RmMayFail \* rm -rf may fail (rights, file system), each time anew

ASSUME LockAssumption ==
    /\ Mortal \subseteq Lanes
    /\ NoPid \notin Lanes
    /\ Timeout \in Nat
    /\ RmMayFail \in BOOLEAN

VARIABLES
    dir,     \* the lock directory exists
    pid,     \* content of owner.pid in it
    pc,      \* pc[l]: the command lane l executes next
    owner,   \* owner[l]: the pid l has read
    waited,  \* waited[l]: the seconds l has slept
    alive    \* the lanes whose process is running

vars == <<dir, pid, pc, owner, waited, alive>>

Acquiring == {"mkdir", "read", "check", "unlink", "rmdir"}
Holding == {"write", "build", "release", "releaseDir"}
Ended == {"done", "failed", "gone"}

Init ==
    /\ dir = FALSE
    /\ pid = NoPid
    /\ pc = [l \in Lanes |-> "mkdir"]
    /\ owner = [l \in Lanes |-> NoPid]
    /\ waited = [l \in Lanes |-> 0]
    /\ alive = Lanes

Goto(l, from, to) == pc[l] = from /\ pc' = [pc EXCEPT ![l] = to]

-----------------------------------------------------------------------------
(* Acquiring the lock                                                      *)

MakeDirOrReuse(l) ==  \* mutant: mkdir -p
    /\ Goto(l, "mkdir", "write")
    /\ dir' = TRUE
    /\ UNCHANGED <<pid, owner, waited, alive>>
MakeDir(l) ==
    /\ ~dir
    /\ Goto(l, "mkdir", "write")
    /\ dir' = TRUE
    /\ UNCHANGED <<pid, owner, waited, alive>>

MakeDirFails(l) ==
    /\ dir
    /\ Goto(l, "mkdir", "read")
    /\ UNCHANGED <<dir, pid, owner, waited, alive>>

ReadOwner(l) ==
    /\ Goto(l, "read", "check")
    /\ owner' = [owner EXCEPT ![l] = pid]
    /\ UNCHANGED <<dir, pid, waited, alive>>

\* kill -0 of the pid that was read.
OwnerIsRead(l) == TRUE                 \* mutant: kill -0 is left out
OwnerIsNamed(l) == owner[l] \in alive  \* mutant: an empty pid counts as gone
OwnerRuns(l) == owner[l] \in alive \cup {NoPid}

FindOwnerGone(l) ==
    /\ ~OwnerRuns(l)
    /\ Goto(l, "check", "unlink")
    /\ UNCHANGED <<dir, pid, owner, waited, alive>>

RemovePid(l) ==
    /\ Goto(l, "unlink", "rmdir")
    /\ pid' = NoPid
    /\ UNCHANGED <<dir, owner, waited, alive>>

\* rmdir fails, silently, if owner.pid has been written meanwhile.
RemoveDir(l) ==
    /\ Goto(l, "rmdir", "mkdir")
    /\ dir' = (dir /\ pid # NoPid)
    /\ UNCHANGED <<pid, owner, waited, alive>>

\* "|| true; continue": the lane goes back to mkdir all the same, and neither
\* sleeps nor counts.
RemovalFails(l) ==
    /\ RmMayFail
    /\ Goto(l, "unlink", "mkdir") \/ Goto(l, "rmdir", "mkdir")
    /\ UNCHANGED <<dir, pid, owner, waited, alive>>

SleepPastTimeout(l) ==  \* mutant: -gt for -ge
    /\ OwnerRuns(l)
    /\ waited[l] <= Timeout
    /\ Goto(l, "check", "mkdir")
    /\ waited' = [waited EXCEPT ![l] = @ + 1]
    /\ UNCHANGED <<dir, pid, owner, alive>>
SleepUncounted(l) ==    \* mutant: the seconds are not counted
    /\ OwnerRuns(l)
    /\ waited[l] < Timeout
    /\ Goto(l, "check", "mkdir")
    /\ UNCHANGED <<dir, pid, owner, waited, alive>>
SleepASecond(l) ==
    /\ OwnerRuns(l)
    /\ waited[l] < Timeout
    /\ Goto(l, "check", "mkdir")
    /\ waited' = [waited EXCEPT ![l] = @ + 1]
    /\ UNCHANGED <<dir, pid, owner, alive>>

GiveUpCleansUp(l) ==  \* mutant: the EXIT trap is set before the loop
    /\ OwnerRuns(l)
    /\ waited[l] >= Timeout
    /\ Goto(l, "check", "failed")
    /\ dir' = FALSE
    /\ pid' = NoPid
    /\ UNCHANGED <<owner, waited, alive>>
GiveUp(l) ==
    /\ OwnerRuns(l)
    /\ waited[l] >= Timeout
    /\ Goto(l, "check", "failed")
    /\ UNCHANGED <<dir, pid, owner, waited, alive>>

-----------------------------------------------------------------------------
(* Holding the lock                                                        *)

\* The write fails, silently, if the directory is gone or the disk is full.
WritePid(l) ==
    /\ Goto(l, "write", "build")
    /\ pid' \in {pid} \cup (IF dir THEN {l} ELSE {})
    /\ UNCHANGED <<dir, owner, waited, alive>>

\* The wrapped command ends, with any status, or the EXIT trap takes over.
FinishBuild(l) ==
    /\ Goto(l, "build", "release")
    /\ UNCHANGED <<dir, pid, owner, waited, alive>>

ReleasePid(l) ==
    /\ Goto(l, "release", "releaseDir")
    /\ pid' = NoPid
    /\ UNCHANGED <<dir, owner, waited, alive>>

ReleaseDir(l) ==
    /\ Goto(l, "releaseDir", "done")
    /\ dir' = (dir /\ pid # NoPid)
    /\ UNCHANGED <<pid, owner, waited, alive>>

\* The lane goes on without having released the lock.
ReleaseFails(l) ==
    /\ RmMayFail
    /\ Goto(l, "release", "done") \/ Goto(l, "releaseDir", "done")
    /\ UNCHANGED <<dir, pid, owner, waited, alive>>

\* The process ends: the lane is over, or it is killed with no chance to run
\* its trap, together with the command it runs.
End(l) ==
    /\ l \in Mortal \cap alive
    /\ alive' = alive \ {l}
    /\ pc' = [pc EXCEPT ![l] = "gone"]
    /\ UNCHANGED <<dir, pid, owner, waited>>

-----------------------------------------------------------------------------

\* The commands of the script other than the wrapped one.
Step(l) ==
    \/ MakeDir(l) \/ MakeDirFails(l) \/ ReadOwner(l) \/ FindOwnerGone(l)
    \/ RemovePid(l) \/ RemoveDir(l) \/ RemovalFails(l)
    \/ SleepASecond(l) \/ GiveUp(l)
    \/ WritePid(l) \/ ReleasePid(l) \/ ReleaseDir(l) \/ ReleaseFails(l)

Next == \E l \in Lanes : Step(l) \/ FinishBuild(l) \/ End(l)

Spec == Init /\ [][Next]_vars

\* Shells are scheduled; the wrapped build is not assumed to end.
FairSpec == Spec /\ \A l \in Lanes : WF_vars(Step(l))

-----------------------------------------------------------------------------
(* Properties                                                              *)

\* Every variable has its type.
TypeOK ==
    /\ dir \in BOOLEAN
    /\ pid \in Lanes \cup {NoPid}
    /\ pc \in [Lanes -> Acquiring \cup Holding \cup Ended]
    /\ owner \in [Lanes -> Lanes \cup {NoPid}]
    /\ waited \in [Lanes -> 0..Timeout]
    /\ alive \in SUBSET Lanes

\* Two lanes never build at the same time.
MutualExclusion ==
    \A l, k \in Lanes : pc[l] = "build" /\ pc[k] = "build" => l = k

\* No lane removes the lock directory of a lane that is still entitled to it:
\* whoever has made the directory finds it there until it releases it.
LockStaysWithHolder == \A l \in Lanes : pc[l] \in Holding => dir

\* A lane that waits gets to build or gives up, even if the build it waits for
\* hangs.  There is one way to wait without end: to fail again and again to
\* remove the lock of a dead lane.  Every other way round the loop counts.
WaitIsBounded ==
    \A l \in Lanes :
        \/ []<><<RemovalFails(l)>>_vars
        \/ pc[l] \in Acquiring ~> pc[l] \in {"build"} \cup Ended

\* A lock left behind by a lane that died does not cost a waiting lane its
\* turn, however often its removal fails before it succeeds: the lane builds.
\* What costs it its turn is a directory that loses its owner.pid and stays.
StaleLockIsReclaimed ==
    \A l \in Lanes :
        \/ []<><<RemovalFails(l)>>_vars
        \/ pc[l] = "mkdir" /\ dir /\ pid \notin alive \cup {NoPid}
               ~> \/ pc[l] \in {"build", "gone"}
                  \/ pc[l] = "mkdir" /\ dir /\ pid = NoPid

\* Why mutual exclusion holds where at most one lane is left to reclaim a lock
\* (see OneReclaimer): holders are alone, and a lane that removes a lock has
\* read the pid of a lane that is gone.
LockInv ==
    /\ \A l, k \in Lanes : pc[l] \in Holding /\ pc[k] \in Holding => l = k
    /\ LockStaysWithHolder
    /\ pid # NoPid => pc[pid] \in {"build", "release", "done", "gone"}
    /\ \A l \in Lanes :
        /\ l \notin alive <=> pc[l] = "gone"
        /\ l \notin Mortal => l \in alive
        /\ owner[l] # l
        /\ pc[l] \in {"unlink", "rmdir"} => owner[l] \in Lanes \ alive

\* Two lanes, or lanes that stay alive until all have had the lock.
OneReclaimer == \A m \in Mortal : \A l, k \in Lanes \ {m} : l = k
=============================================================================
