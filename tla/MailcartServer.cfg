\* Two starts on one port.  The first may ask 1psa, with its main thread before
\* it serves and with two workers afterwards; either stream of a child may
\* exceed a pipe.
CONSTANTS
    p1 = p1
    p2 = p2
    m1 = m1
    m2 = m2
    k1 = k1
    k2 = k2
    Starters = {p1, p2}
    Main <- MCMain
    Threads = {m1, k1, k2}
    ProcOf <- MCProcOf
    Capacity = 1
    MaxWritten = 2
    MayDie = {p1}
SPECIFICATION FairSpec
CHECK_DEADLOCK FALSE
INVARIANTS TypeOK OutputIsWhole NobodyYieldsToNobody
PROPERTIES RunEnds StartsEnd
