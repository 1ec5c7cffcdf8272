\* Two lanes, either of which may die at any moment, and an rm -rf that may fail;
\* the lanes end, so the system stops.
CONSTANTS
    t09 = t09
    t12 = t12
    t13 = t13
    NoPid = NoPid
    Lanes = {t09, t12}
    Mortal = {t09, t12}
    Timeout = 2
    RmMayFail = TRUE
SPECIFICATION FairSpec
INVARIANTS TypeOK MutualExclusion LockStaysWithHolder LockInv
PROPERTIES WaitIsBounded StaleLockIsReclaimed
CHECK_DEADLOCK FALSE
