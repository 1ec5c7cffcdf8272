\* One worker, enough grants for the longest chain of refreshes; storage, 1psa
\* and the network may fail.
CONSTANTS
    api = api
    cli = cli
    w1 = w1
    w2 = w2
    c1 = c1
    Procs = {api}
    Servers = {api}
    Threads = {w1}
    ProcOf <- MCProcOf
    MaxGrants = 7
    Seeds = 1
    InitCaches <- CacheSeeded
    EnvAccess = 0
    PsaAccess = 0
    PsaRefresh = 1
    Jwts <- NoTokens
    RotationRevokes = TRUE
    ResponseMayBeLost = TRUE
    PersistMayFail = TRUE
    PsaMayFail = TRUE
    MayCrash = {}
SPECIFICATION FairSpec
INVARIANTS RefreshBudget
PROPERTIES OperationsEnd
