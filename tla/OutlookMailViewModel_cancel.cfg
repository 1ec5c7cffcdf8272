\* A superseded search; the user may stop acting.
CONSTANTS
    hello = hello
    empty = empty
    m1 = m1
    m2 = m2
    none = none
    Queries = {hello, empty}
    NoQuery = empty
    Messages = {m1}
    NoMessage = none
    MaxTasks = 3
    MaxPages = 2
    TokenMissing = FALSE
    TailIsPrompt = TRUE
SPECIFICATION Spec
PROPERTIES CancelledTaskExitsEarly
CHECK_DEADLOCK FALSE
