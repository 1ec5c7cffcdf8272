\* One worker in the server, runs of mailcart_token beside it; a provider that
\* revokes a refresh token once it is used.
CONSTANTS
    api = api
    cli = cli
    w1 = w1
    w2 = w2
    c1 = c1
    Procs = {api, cli}
    Servers = {api}
    Threads = {w1, c1}
    ProcOf <- MCProcOf
    MaxGrants = 4
    Seeds = 1
    InitCaches <- CacheSeeded
    EnvAccess = 0
    PsaAccess = 0
    PsaRefresh = 0
    Jwts <- NoTokens
    RotationRevokes = TRUE
    ResponseMayBeLost = FALSE
    PersistMayFail = FALSE
    PsaMayFail = FALSE
    MayCrash = {}
SPECIFICATION Spec
INVARIANTS TypeOK CachePaired MemoryPaired RetryUsesNewToken LineageKept
