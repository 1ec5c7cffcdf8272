\* Searches, "load more" and reads in one window; the user may stop acting.
CONSTANTS
    hello = hello
    empty = empty
    m1 = m1
    m2 = m2
    none = none
    Queries = {hello, empty}
    NoQuery = empty
    Messages = {m1, m2}
    NoMessage = none
    MaxTasks = 4
    MaxPages = 2
    TokenMissing = FALSE
    TailIsPrompt = TRUE
SPECIFICATION FairSpec
INVARIANTS TypeOK ListIsOneListing SpinnersAreTrue DetailIsOfLastSelection
PROPERTIES SearchEnds LoadMoreEnds
CHECK_DEADLOCK FALSE
