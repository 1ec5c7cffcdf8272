\* Two workers share a manager; a token in the environment; the server may be
\* killed.
CONSTANTS
    api = api
    cli = cli
    w1 = w1
    w2 = w2
    c1 = c1
    Procs = {api}
    Servers = {api}
    Threads = {w1, w2}
    ProcOf <- MCProcOf
    MaxGrants = 3
    Seeds = 1
    InitCaches <- CacheOrNot
    EnvAccess = 1
    PsaAccess = 0
    PsaRefresh = 1
    Jwts <- AllGrants
    RotationRevokes = TRUE
    ResponseMayBeLost = FALSE
    PersistMayFail = FALSE
    PsaMayFail = FALSE
    MayCrash = {api}
SPECIFICATION Spec
INVARIANTS PairingInv
PROPERTIES CacheKeepsRefresh
SYMMETRY WorkerSymmetry
