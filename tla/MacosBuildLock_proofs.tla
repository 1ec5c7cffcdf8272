------------------------ MODULE MacosBuildLock_proofs ------------------------
(* Proofs about MacosBuildLock, for any number of lanes and any time-out.    *)
EXTENDS MacosBuildLock, TLAPS

LEMMA InitType == Init => TypeOK
  <1>1. 0 \in 0..Timeout
    BY LockAssumption
  <1>2. QED
    BY <1>1 DEF Init, TypeOK, Acquiring

LEMMA NextType == TypeOK /\ [Next]_vars => TypeOK'
  <1> SUFFICES ASSUME TypeOK, [Next]_vars PROVE TypeOK'
    OBVIOUS
  <1> USE LockAssumption DEF TypeOK, Goto, Acquiring, Holding, Ended
  <1>1. ASSUME NEW l \in Lanes, Step(l) PROVE TypeOK'
    <2>1. CASE MakeDir(l) \/ MakeDirFails(l) \/ FindOwnerGone(l)
      BY <2>1 DEF MakeDir, MakeDirFails, FindOwnerGone
    <2>r. CASE ReadOwner(l)
      BY <2>r DEF ReadOwner
    <2>2. CASE RemovePid(l) \/ RemoveDir(l) \/ GiveUp(l)
      BY <2>2 DEF RemovePid, RemoveDir, GiveUp
    <2>f. CASE RemovalFails(l) \/ ReleaseFails(l)
      BY <2>f DEF RemovalFails, ReleaseFails
    <2>3. CASE SleepASecond(l)
      <3>1. waited[l] + 1 \in 0..Timeout
        BY <2>3 DEF SleepASecond
      <3>2. QED
        BY <2>3, <3>1 DEF SleepASecond
    <2>4. CASE WritePid(l) \/ ReleasePid(l) \/ ReleaseDir(l)
      BY <2>4 DEF WritePid, ReleasePid, ReleaseDir
    <2>5. QED
      BY <1>1, <2>1, <2>r, <2>2, <2>f, <2>3, <2>4 DEF Step
  <1>2. ASSUME NEW l \in Lanes, FinishBuild(l) PROVE TypeOK'
    BY <1>2 DEF FinishBuild
  <1>3. ASSUME NEW l \in Lanes, End(l) PROVE TypeOK'
    BY <1>3 DEF End
  <1>4. CASE UNCHANGED vars
    BY <1>4 DEF vars
  <1>5. QED
    BY <1>1, <1>2, <1>3, <1>4 DEF Next

\* Type correctness of every reachable state.
THEOREM LockTypeCorrect == Spec => []TypeOK
  BY InitType, NextType, PTL DEF Spec

-----------------------------------------------------------------------------

\* A lane about to remove a lock is the only lane that is not gone: nobody is
\* there whose lock it could remove by mistake.
LEMMA ReclaimerIsAlone ==
    ASSUME OneReclaimer, TypeOK, LockInv, NEW l \in Lanes,
           pc[l] \in {"unlink", "rmdir"}
    PROVE  \A k \in Lanes : k # l => pc[k] = "gone"
  <1>1. /\ owner[l] \in Lanes /\ owner[l] \notin alive
        /\ owner[l] \in Mortal /\ owner[l] # l /\ pc[owner[l]] = "gone"
    BY DEF LockInv
  <1>2. \A k \in Lanes : k # l => k = owner[l]
    BY <1>1 DEF OneReclaimer
  <1>3. QED
    BY <1>1, <1>2

LEMMA NextLockInv ==
    ASSUME OneReclaimer, TypeOK, LockInv, [Next]_vars
    PROVE  LockInv'
  <1> USE LockAssumption DEF TypeOK, Goto, Acquiring, Holding, LockInv,
                             LockStaysWithHolder
  <1>1. ASSUME NEW l \in Lanes, MakeDir(l) PROVE LockInv'
    BY <1>1 DEF MakeDir
  <1>2. ASSUME NEW l \in Lanes, MakeDirFails(l) PROVE LockInv'
    BY <1>2 DEF MakeDirFails
  <1>3. ASSUME NEW l \in Lanes, ReadOwner(l) PROVE LockInv'
    <2>1. pid # l
      BY <1>3 DEF ReadOwner
    <2>2. QED
      BY <1>3, <2>1 DEF ReadOwner
  <1>4. ASSUME NEW l \in Lanes, FindOwnerGone(l) PROVE LockInv'
    BY <1>4 DEF FindOwnerGone, OwnerRuns
  <1>5. ASSUME NEW l \in Lanes, RemovePid(l) PROVE LockInv'
    BY <1>5 DEF RemovePid
  <1>6. ASSUME NEW l \in Lanes, RemoveDir(l) PROVE LockInv'
    <2>1. \A k \in Lanes : pc[k] \notin Holding /\ pc'[k] \notin Holding
      BY <1>6, ReclaimerIsAlone DEF RemoveDir
    <2>2. QED
      BY <1>6, <2>1 DEF RemoveDir
  <1>f. ASSUME NEW l \in Lanes, RemovalFails(l) \/ ReleaseFails(l) PROVE LockInv'
    BY <1>f DEF RemovalFails, ReleaseFails
  <1>7. ASSUME NEW l \in Lanes, SleepASecond(l) \/ GiveUp(l) PROVE LockInv'
    BY <1>7 DEF SleepASecond, GiveUp
  <1>8. ASSUME NEW l \in Lanes, WritePid(l) PROVE LockInv'
    BY <1>8 DEF WritePid
  <1>9. ASSUME NEW l \in Lanes, FinishBuild(l) PROVE LockInv'
    BY <1>9 DEF FinishBuild
  <1>10. ASSUME NEW l \in Lanes, ReleasePid(l) PROVE LockInv'
    BY <1>10 DEF ReleasePid
  <1>11. ASSUME NEW l \in Lanes, ReleaseDir(l) PROVE LockInv'
    BY <1>11 DEF ReleaseDir
  <1>12. ASSUME NEW l \in Lanes, End(l) PROVE LockInv'
    BY <1>12 DEF End
  <1>13. CASE UNCHANGED vars
    BY <1>13 DEF vars
  <1>14. QED
    BY <1>1, <1>2, <1>3, <1>4, <1>5, <1>6, <1>f, <1>7, <1>8, <1>9, <1>10, <1>11,
       <1>12, <1>13 DEF Next, Step

LEMMA InitLockInv == Init => LockInv
  BY LockAssumption DEF Init, LockInv, LockStaysWithHolder, Holding

\* The invariant of the lock, where at most one lane is left to reclaim it.
LEMMA LockInvariant ==
    ASSUME OneReclaimer
    PROVE  Spec => [](TypeOK /\ LockInv)
  <1>1. Init => TypeOK /\ LockInv
    BY InitType, InitLockInv
  <1>2. TypeOK /\ LockInv /\ [Next]_vars => (TypeOK /\ LockInv)'
    BY NextType, NextLockInv
  <1>3. QED
    BY <1>1, <1>2, PTL DEF Spec

\* The lock's invariant, where at most one lane is left to reclaim it: one lane
\* holds it, it is in the lock directory, and a lane that removes a directory
\* has found its owner dead (with_macos_build_lock).
THEOREM LockIsConsistent ==
    ASSUME OneReclaimer
    PROVE  Spec => []LockInv
  BY LockInvariant, PTL

\* Two lanes never build at the same time, if there are only two or if every
\* lane outlives the others' waiting.  Without the assumption it is false.
THEOREM LockExcludes ==
    ASSUME OneReclaimer
    PROVE  Spec => []MutualExclusion
  <1>1. LockInv => MutualExclusion
    BY DEF LockInv, MutualExclusion, Holding
  <1>2. QED
    BY <1>1, LockInvariant, PTL

\* Under the same assumption no lane loses the directory it has made before it
\* releases it, even if lanes die and their locks are reclaimed.
THEOREM LockIsNotStolen ==
    ASSUME OneReclaimer
    PROVE  Spec => []LockStaysWithHolder
  <1>1. LockInv => LockStaysWithHolder
    BY DEF LockInv
  <1>2. QED
    BY <1>1, LockInvariant, PTL
=============================================================================
