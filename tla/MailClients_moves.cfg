\* The API server and the app file one message at the same time; the app does
\* not see the second folder.
CONSTANTS
    w1 = w1
    b1 = b1
    m1 = m1
    Messages = {m1}
    Names = {"Matchy", "matchy", "BUERO", "buero"}
    Fold <- AnyLetter
    AsciiLower <- AsciiOnly
    CaseFold <- AnyLetter
    InitFolders <- OneFolder
    MaxFolders = 2
    MaxMoves = 2
    Workers = {w1}
    Environments <- BothEnvironments
    Requests <- MCRequests
    ListTop = 2
    DefaultFolder = "matchy"
    Callers = {b1}
    FolderPage = 1
    AppNames = {"BUERO"}
    EnvToken = 0
    MaxTokens = 2
    MaxTrouble <- TroubleWithoutServer
    SavesMayFail = TRUE
SPECIFICATION FairSpec
INVARIANTS TypeOK RetryIsFresh
PROPERTIES AppCallsEnd MovesAreFiled
