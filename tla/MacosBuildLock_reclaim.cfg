\* Three lanes, one of which may die: two waiting lanes reclaim the same lock.
CONSTANTS
    t09 = t09
    t12 = t12
    t13 = t13
    NoPid = NoPid
    Lanes = {t09, t12, t13}
    Mortal = {t09}
    Timeout = 2
    RmMayFail = FALSE
SPECIFICATION Spec
INVARIANTS MutualExclusion
CHECK_DEADLOCK FALSE
