\* Two workers of one server: the retry may be sent with the refused token.
CONSTANTS
    api = api
    cli = cli
    w1 = w1
    w2 = w2
    c1 = c1
    Procs = {api}
    Servers = {api}
    Threads = {w1, w2}
    ProcOf <- MCProcOf
    MaxGrants = 3
    Seeds = 1
    InitCaches <- CacheSeeded
    EnvAccess = 0
    PsaAccess = 0
    PsaRefresh = 0
    Jwts <- NoTokens
    RotationRevokes = FALSE
    ResponseMayBeLost = FALSE
    PersistMayFail = FALSE
    PsaMayFail = FALSE
    MayCrash = {}
SPECIFICATION Spec
INVARIANTS RetryUsesNewToken
