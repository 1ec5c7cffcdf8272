------------------------ MODULE OutlookMailViewModel ------------------------
(***************************************************************************)
(* The mailbox window of the macOS app: the class OutlookMailViewModel of  *)
(* macos_app/UI/OutlookMailViewModel.swift.  Its state belongs to the main *)
(* actor; every search, "load more" and message read is a task that runs   *)
(* in turns on the main actor and, between two turns, waits in the serial  *)
(* queue of the bridge.  The user acts between any two turns.              *)
(*                                                                         *)
(* Rows are abstracted to the page of the listing they came with: page k   *)
(* is reached by the cursor k, and 0 is the empty cursor.  Sorting moves   *)
(* rows, never pages, and is left out.                                     *)
(***************************************************************************)
EXTENDS Naturals, Sequences

CONSTANTS
    Queries,       \* texts of the search field
    NoQuery,       \* the empty text, one of them
    Messages,      \* message ids
    NoMessage,     \* selectedMailcart = nil
    MaxTasks,      \* bound on the tasks ever started
    MaxPages,      \* bound on the pages of a listing
    TokenMissing,  \* OUTLOOK_GRAPH_TOKEN is not set
    TailIsPrompt   \* nobody clicks while a task hops between executors

ASSUME ViewModelAssumption ==
    /\ NoQuery \in Queries
    /\ NoMessage \notin Messages
    /\ MaxTasks \in Nat \ {0}
    /\ MaxPages \in Nat \ {0}
    /\ TokenMissing \in BOOLEAN
    /\ TailIsPrompt \in BOOLEAN

VARIABLES
    query, summaries, selectedMailcart, isSearching, isLoadingMore,
    errorMessage,                  \* "none" or where the message comes from
    nextCursor,
    searchTask,                    \* the task the next search will cancel
    latestSearchGeneration, latestMessageLoadGeneration,
    tasks,                         \* all tasks, in the order of their start
    mainQueue,                     \* tasks waiting for a turn on the main actor
    bridgeQueue                    \* tasks whose bridge call is pending

published == <<query, summaries, selectedMailcart, isSearching, isLoadingMore,
               errorMessage>>
private == <<nextCursor, searchTask, latestSearchGeneration,
             latestMessageLoadGeneration>>
queues == <<tasks, mainQueue, bridgeQueue>>
vars == <<published, private, queues>>

Task(kind, generation, cursor, message, pc) ==
    [kind |-> kind, generation |-> generation, cursor |-> cursor,
     message |-> message, pc |-> pc,
     query |-> NoQuery, answer |-> "none", cancelled |-> FALSE]

\* What a bridge search yields: a page with or without a cursor for the next
\* one, an error and no rows, or rows with an error because the next cursor
\* was not trusted.
Answers == {"more", "last", "failed", "partial"}

-----------------------------------------------------------------------------
(* The user                                                                *)

\* init starts a search that is not debounced.
Init ==
    /\ query = NoQuery
    /\ summaries = <<>>
    /\ selectedMailcart = NoMessage
    /\ isSearching = TRUE
    /\ isLoadingMore = FALSE
    /\ errorMessage = IF TokenMissing THEN "token" ELSE "none"
    /\ nextCursor = 0
    /\ searchTask = 1
    /\ latestSearchGeneration = 1
    /\ latestMessageLoadGeneration = 0
    /\ tasks = <<Task("search", 1, 0, NoMessage, "request")>>
    /\ mainQueue = <<1>>
    /\ bridgeQueue = <<>>

\* A new task takes its first turn on the main actor later.
Started(old, task) ==
    /\ Len(tasks) < MaxTasks
    /\ tasks' = Append(old, task)
    /\ mainQueue' = Append(mainQueue, Len(tasks) + 1)
    /\ UNCHANGED bridgeQueue

\* A task that has ended is not cancelled any more.
Cancel(task) ==
    IF task.pc = "done" THEN task ELSE [task EXCEPT !.cancelled = TRUE]

UpdateQuery(value) ==
    /\ query' = value
    /\ latestSearchGeneration' = latestSearchGeneration + 1
    /\ Started([tasks EXCEPT ![searchTask] = Cancel(@)],
               Task("search", latestSearchGeneration + 1, 0, NoMessage, "debounce"))
    /\ searchTask' = Len(tasks) + 1
    /\ isSearching' = TRUE
    /\ isLoadingMore' = FALSE
    /\ nextCursor' = 0
    /\ errorMessage' = IF TokenMissing THEN "token" ELSE "none"
    /\ UNCHANGED <<summaries, selectedMailcart, latestMessageLoadGeneration>>

canLoadMoreTwice == nextCursor # 0 /\ ~isSearching  \* mutant: ignores isLoadingMore
canLoadMore == nextCursor # 0 /\ ~isSearching /\ ~isLoadingMore

\* A superseded "load more" still has to clear isLoadingMore, some microseconds
\* after its page: TailIsPrompt leaves out a click within them.
LoadMoreMailcarts ==
    /\ canLoadMore
    /\ TailIsPrompt => \A t \in DOMAIN tasks : tasks[t].pc \notin {"hop", "tail"}
    /\ isLoadingMore' = TRUE
    /\ Started(tasks, Task("more", latestSearchGeneration, nextCursor, NoMessage,
                           "request"))
    /\ searchTask' = Len(tasks) + 1
    /\ UNCHANGED <<query, summaries, selectedMailcart, isSearching, errorMessage,
                   nextCursor, latestSearchGeneration, latestMessageLoadGeneration>>

LoadMailcart(messageId) ==
    /\ latestMessageLoadGeneration' = latestMessageLoadGeneration + 1
    /\ Started(tasks, Task("read", latestMessageLoadGeneration + 1, 0, messageId,
                           "request"))
    /\ UNCHANGED <<published, nextCursor, searchTask, latestSearchGeneration>>

\* The bridge is called on the main thread and works or fails.
OpenAttachment ==
    /\ selectedMailcart # NoMessage
    /\ errorMessage' \in {errorMessage, "attachment"}
    /\ UNCHANGED <<query, summaries, selectedMailcart, isSearching, isLoadingMore,
                   private, queues>>

-----------------------------------------------------------------------------
(* The tasks                                                               *)

\* Task t takes its turn, which leads from one await to the next; what the
\* bridge has answered is used up in the turn.
Turn(t, from, to) ==
    /\ mainQueue # <<>>
    /\ t = Head(mainQueue)
    /\ tasks[t].pc = from
    /\ mainQueue' = Tail(mainQueue)
    /\ tasks' = [tasks EXCEPT ![t] =
                     [@ EXCEPT !.pc = to, !.query = NoQuery, !.answer = "none"]]

BeginDebounce(t) ==
    /\ Turn(t, "debounce", "sleep")
    /\ UNCHANGED <<published, private, bridgeQueue>>

\* Task.sleep returns after 250 ms, or at once if the task is cancelled; what
\* it throws then is ignored.
Wake(t) ==
    /\ tasks[t].pc = "sleep"
    /\ tasks' = [tasks EXCEPT ![t] = [@ EXCEPT !.pc = "request"]]
    /\ mainQueue' = Append(mainQueue, t)
    /\ UNCHANGED <<published, private, bridgeQueue>>

\* The search field is read now, not when the task was created.
Request(t) ==
    /\ mainQueue # <<>>
    /\ t = Head(mainQueue)
    /\ tasks[t].pc = "request"
    /\ mainQueue' = Tail(mainQueue)
    /\ tasks' = [tasks EXCEPT ![t] = [@ EXCEPT !.pc = "bridge", !.query = query]]
    /\ bridgeQueue' = Append(bridgeQueue, t)
    /\ UNCHANGED <<published, private>>

\* A search has cursor 0 and yields page 1, a cursor replaces the query.
PageOf(task) ==
    [generation |-> task.generation,
     page       |-> IF task.cursor = 0 THEN 1 ELSE task.cursor,
     filter     |-> IF task.cursor = 0 THEN task.query ELSE NoQuery,
     last       |-> task.answer = "last"]

\* The serial queue runs one bridge call after the other.
Serve(t) ==
    /\ bridgeQueue # <<>>
    /\ t = Head(bridgeQueue)
    /\ bridgeQueue' = Tail(bridgeQueue)
    /\ \E answer \in Answers :
        /\ answer = "more" => PageOf(tasks[t]).page < MaxPages
        /\ tasks[t].kind = "read" => answer = "last"
        /\ tasks' = [tasks EXCEPT ![t] = [@ EXCEPT !.pc = "publish", !.answer = answer]]
    /\ mainQueue' = Append(mainQueue, t)
    /\ UNCHANGED <<published, private>>

RowsOf(task) == IF task.answer = "failed" THEN <<>> ELSE <<PageOf(task)>>

isCurrent(task) == ~task.cancelled /\ task.generation = latestSearchGeneration

\* The rest of fetchPage.
ShowPageKeepsCursor(task) ==  \* mutant: the cursor outlives the last page
    /\ summaries' = IF task.kind = "more" THEN summaries \o RowsOf(task)
                    ELSE RowsOf(task)
    /\ nextCursor' = PageOf(task).page + 1
    /\ errorMessage' = IF task.answer \in {"failed", "partial"} THEN "bridge" ELSE "none"
    /\ isSearching' = FALSE
ShowPageSpins(task) ==  \* mutant: returns early on an error
    /\ summaries' = IF task.kind = "more" THEN summaries \o RowsOf(task)
                    ELSE RowsOf(task)
    /\ nextCursor' = IF task.answer = "more" THEN PageOf(task).page + 1 ELSE 0
    /\ errorMessage' = IF task.answer \in {"failed", "partial"} THEN "bridge" ELSE "none"
    /\ isSearching' = (isSearching /\ task.answer = "failed")
ShowPage(task) ==
    /\ summaries' = IF task.kind = "more" THEN summaries \o RowsOf(task)
                    ELSE RowsOf(task)
    /\ nextCursor' = IF task.answer = "more" THEN PageOf(task).page + 1 ELSE 0
    /\ errorMessage' = IF task.answer \in {"failed", "partial"} THEN "bridge" ELSE "none"
    /\ isSearching' = FALSE

PublishPageStopsSpinner(t) ==  \* mutant: a superseded page stops the spinner
    /\ tasks[t].kind # "read"
    /\ Turn(t, "publish", IF tasks[t].kind = "more" THEN "hop" ELSE "done")
    /\ IF isCurrent(tasks[t]) THEN ShowPage(tasks[t])
       ELSE isSearching' = FALSE /\ UNCHANGED <<summaries, nextCursor, errorMessage>>
    /\ UNCHANGED <<query, selectedMailcart, isLoadingMore, searchTask,
                   latestSearchGeneration, latestMessageLoadGeneration, bridgeQueue>>
PublishPageSkipsTail(t) ==  \* mutant: a failed page returns early
    /\ tasks[t].kind # "read"
    /\ Turn(t, "publish", IF tasks[t].kind = "more" /\ tasks[t].answer # "failed"
                          THEN "hop" ELSE "done")
    /\ IF isCurrent(tasks[t]) THEN ShowPage(tasks[t])
       ELSE UNCHANGED <<summaries, nextCursor, errorMessage, isSearching>>
    /\ UNCHANGED <<query, selectedMailcart, isLoadingMore, searchTask,
                   latestSearchGeneration, latestMessageLoadGeneration, bridgeQueue>>
PublishPage(t) ==
    /\ tasks[t].kind # "read"
    /\ Turn(t, "publish", IF tasks[t].kind = "more" THEN "hop" ELSE "done")
    /\ IF isCurrent(tasks[t]) THEN ShowPage(tasks[t])
       ELSE UNCHANGED <<summaries, nextCursor, errorMessage, isSearching>>
    /\ UNCHANGED <<query, selectedMailcart, isLoadingMore, searchTask,
                   latestSearchGeneration, latestMessageLoadGeneration, bridgeQueue>>

\* MainActor.run leaves the main actor and comes back in a later turn.
Hop(t) ==
    /\ tasks[t].pc = "hop"
    /\ tasks' = [tasks EXCEPT ![t] = [@ EXCEPT !.pc = "tail"]]
    /\ mainQueue' = Append(mainQueue, t)
    /\ UNCHANGED <<published, private, bridgeQueue>>

EndLoadMore(t) ==
    /\ Turn(t, "tail", "done")
    /\ isLoadingMore' = FALSE
    /\ UNCHANGED <<query, summaries, selectedMailcart, isSearching, errorMessage,
                   private, bridgeQueue>>

PublishMailcartOfSearch(t) ==  \* mutant: compares with the other counter
    /\ tasks[t].kind = "read"
    /\ Turn(t, "publish", "done")
    /\ selectedMailcart' = IF tasks[t].generation = latestSearchGeneration
                           THEN tasks[t].message ELSE selectedMailcart
    /\ UNCHANGED <<query, summaries, isSearching, isLoadingMore, errorMessage,
                   private, bridgeQueue>>
PublishMailcart(t) ==
    /\ tasks[t].kind = "read"
    /\ Turn(t, "publish", "done")
    /\ selectedMailcart' = IF tasks[t].generation = latestMessageLoadGeneration
                           THEN tasks[t].message ELSE selectedMailcart
    /\ UNCHANGED <<query, summaries, isSearching, isLoadingMore, errorMessage,
                   private, bridgeQueue>>

-----------------------------------------------------------------------------

Advance(t) ==
    \/ BeginDebounce(t) \/ Wake(t) \/ Request(t) \/ Serve(t)
    \/ PublishPage(t) \/ Hop(t) \/ EndLoadMore(t) \/ PublishMailcart(t)

UserActs ==
    \/ \E value \in Queries : UpdateQuery(value)
    \/ \E messageId \in Messages : LoadMailcart(messageId)
    \/ LoadMoreMailcarts
    \/ OpenAttachment

Next == UserActs \/ \E t \in DOMAIN tasks : Advance(t)

Spec == Init /\ [][Next]_vars

\* The main run loop and the queues run what is in them; a bridge call ends
\* because its HTTP request times out.  Nothing is asked of the user.
FairSpec == Spec /\ WF_vars(\E t \in DOMAIN tasks : Advance(t))

-----------------------------------------------------------------------------
(* Properties                                                              *)

Pages == 1..MaxPages

Kinds == {"search", "more", "read"}
Pcs == {"debounce", "sleep", "request", "bridge", "publish", "hop", "tail", "done"}

TaskState ==
    [kind : Kinds, generation : 1..MaxTasks,
     cursor : {0} \cup Pages, message : Messages \cup {NoMessage}, pc : Pcs,
     query : Queries, answer : Answers \cup {"none"}, cancelled : BOOLEAN]

\* Every variable has its type.
TypeOK ==
    /\ query \in Queries
    /\ summaries \in Seq([generation : 1..MaxTasks, page : Pages,
                          filter : Queries, last : BOOLEAN])
    /\ selectedMailcart \in Messages \cup {NoMessage}
    /\ isSearching \in BOOLEAN
    /\ isLoadingMore \in BOOLEAN
    /\ errorMessage \in {"none", "token", "bridge", "attachment"}
    /\ nextCursor \in {0} \cup Pages
    /\ searchTask \in 1..Len(tasks)
    /\ latestSearchGeneration \in 1..Len(tasks)
    /\ latestMessageLoadGeneration \in 0..Len(tasks)
    /\ tasks \in Seq(TaskState)
    /\ Len(tasks) \in 1..MaxTasks
    /\ mainQueue \in Seq(1..Len(tasks))
    /\ bridgeQueue \in Seq(1..Len(tasks))

Live(kind) == {t \in DOMAIN tasks : tasks[t].kind = kind /\ tasks[t].pc # "done"}
Current(kind) == {t \in Live(kind) : isCurrent(tasks[t])}

\* The list is one listing without a gap or a repetition: pages 1, 2, ... of a
\* single search, and of the latest one once no search is under way, however
\* edits, "load more" and late answers interleave.
ListIsOneListing ==
    /\ \A k \in DOMAIN summaries :
        /\ summaries[k].page = k
        /\ summaries[k].generation = summaries[1].generation
    /\ ~isSearching /\ summaries # <<>> =>
        /\ summaries[1].generation = latestSearchGeneration
        /\ summaries[1].filter = query
    /\ nextCursor # 0 => nextCursor = Len(summaries) + 1

\* The two spinners, which also lock the "load more" button, tell the truth:
\* one task of the latest search works for each of them that turns and none
\* for one that stands still.
SpinnersAreTrue ==
    /\ isSearching <=> Current("search") # {}
    /\ isLoadingMore <=> Current("more") # {}
    /\ \A t, u \in Current("more") : t = u

\* Once the read of the message the user selected last is over, that message
\* is shown, whatever other reads were still on their way.
DetailIsOfLastSelection ==
    \A t \in DOMAIN tasks :
        /\ tasks[t].kind = "read"
        /\ tasks[t].generation = latestMessageLoadGeneration
        /\ tasks[t].pc = "done"
        => selectedMailcart = tasks[t].message

\* The window comes to rest whenever the user does: the search spinner stops
\* and "load more" becomes available again.
SearchEnds == isSearching ~> ~isSearching
LoadMoreEnds == isLoadingMore ~> ~isLoadingMore

\* "waits 250ms, exits cancelled tasks early, then performs bridge search": a
\* search that is superseded while it waits does not go on to its request.
\* False: what Task.sleep throws then is dropped, and nobody asks for it again.
CancelledTaskExitsEarly ==
    [][\A t \in DOMAIN tasks :
          tasks[t].pc = "sleep" /\ tasks[t].cancelled => tasks'[t].pc # "request"]_vars

\* "includes entries when the query is empty or found in either field": all
\* rows of the list have been matched against the text of the search field.
ListMatchesQuery ==
    ~isSearching => \A k \in DOMAIN summaries : summaries[k].filter = query
=============================================================================
