# Mailcart in TLA+

Mailcart is an Outlook mail proxy built on Microsoft Graph. It has a C++ core with
an HTTPS API server and a token refresh command, and a macOS app that talks to Graph
through an Objective-C++ bridge. This directory holds TLA+ models of both programs and
of what they share, TLC configurations that check them on small instances, and TLAPS
proofs for every size.

## Inventory

| Component | State | Operations | Hard part | What makes it correct |
|---|---|---|---|---|
| Token manager `cpp_core/src/token.cpp` | `session_` in memory, `~/.cache/mailcart/graph_oauth.json` | Load, GetAccessToken, Refresh, Invalidate, Persist, TokenStatus | threads without a lock, processes sharing the file, silent write failures, refresh-token rotation | a token is never judged by another token's expiry; a usable refresh token survives; refreshing is bounded and ends |
| `mailcart_token` `cpp_core/tools/mailcart_token.cpp` | none | get, `--force` | runs beside the server | as the token manager |
| Graph pipeline `cpp_core/src/graph.cpp` | attempt number, bearer token | Request (all verbs), GetNextLink, GetOrCreateFolderId | one retry after a 401; list-then-create of folders | the retry uses a new token; a message is moved to a folder of the name asked for |
| HTTP API `cpp_core/src/api.cpp` | none of its own | routing, write token, search, get, move, health | several Graph calls per request in a mailbox others change; bounded paging | what is said to be moved was filed once where asked; a search finds what it should, and ends |
| Search `cpp_core/src/search.cpp` | the automaton | scoped queries, dates, normalisation, HTML, AhoCorasick, MessageMatchesCriteria | order of the automaton's links, date boundaries, order of the HTML passes | agrees with what a reader would call a match |
| Server `cpp_core/tools/mailcart_api.cpp` | listening socket | token check, TLS files, probes, bind, one thread per request | probe of the port before bind | a start gives way only to one that serves; every start ends |
| Subprocess `cpp_core/src/subprocess.cpp` | two pipes, child | Run, Which | inherited pipe ends, stdout drained before stderr | output is read whole; Run returns |
| HTTP transport `cpp_core/src/http_transport.cpp` | none | PostForm, GraphRequest, probes | 25 s timeouts | every call ends |
| Client core `cpp_core/src/outlook_client.cpp` etc. | none | SearchMailcartsPage, ReadMailcart | a cursor replaces the query | pages belong to the query |
| Bridge `macos_app/Bridge/*.mm` | token captured per call | search, read, attachment, move | refresh through `mailcart_token`, stale tokens, failure taken for absence | retry with a new token; calls end; filing as the API does it |
| Window `macos_app/UI/OutlookMailViewModel.swift` | published fields, tasks, two generation counters, serial bridge queue | updateQuery, loadMore, loadMailcart, openAttachment, sort | cancellation, debounce, late answers | one consistent listing; spinners stop |
| Crash reporter `macos_app/UI/CrashReporterService.swift` | pending report, files | start, persist, purge | crash between write and purge | never lost |
| Build lock `scripts/macos_build_lock.sh` | lock directory, `owner.pid` | acquire, reclaim, release | no atomic reclaim, killed owners | mutual exclusion, bounded waiting |

Interactions: worker threads of the server share one token manager (memory); the
server, `mailcart_token` and the bridge share the cache file; the bridge starts
`mailcart_token --force` after a 401; the server and the app file messages in the same
mailbox, which its owner changes with other mail programs; all of them call Graph and
the token endpoint; the token manager runs 1psa as a subprocess; the window calls the
bridge from one serial queue. `PROJECT.json` lists every component with its status,
and under `hazards` each point, by source line, where the code can go wrong in a way
that is hard to test.

## Modules

| Module | Extends or instantiates | Models | Proofs |
|---|---|---|---|
| `GraphToken` | | token manager and its callers | `GraphToken_proofs`, `GraphTokenLineage_proofs` |
| `MacosBuildLock` | | build lock | `MacosBuildLock_proofs` |
| `OutlookMailViewModel` | | mailbox window | `OutlookMailViewModel_proofs` |
| `GraphMailbox` | | the mailbox behind Graph (external) | |
| `MailcartApi` | `GraphMailbox` | HTTP API, its Graph calls | |
| `OutlookBridge` | `GraphMailbox` | the app's bridge, its Graph calls | |
| `Filing` | | what a client is promised about filing | |
| `MailClients` | `MailcartApi`, `OutlookBridge`, `Filing` | both programs in one mailbox | `MailClients_proofs` |
| `SearchText` | | scoped queries, dates, text and HTML | |
| `AhoCorasick` | | the matcher | `AhoCorasick_proofs` |
| `MailcartSearch` | `SearchText`, `AhoCorasick` | a search from query to answer | `MailcartSearch_proofs` |
| `Subprocess` | | `Run`, its pipes and children | |
| `MailcartServer` | `Subprocess` | starts of the server on one port | `MailcartServer_proofs` |

An `MC` module gives a module's constants their values.

### GraphToken

The token manager with its drivers: `Request` in the server's worker threads,
`/health`, the startup check, and `mailcart_token`. One thread step is one access to
something shared: a read or write of `session_`, of the cache file, a 1psa lookup,
the POST to the token endpoint, the call of Graph. `th[t].pc` names the code between
two such accesses; the operators under "Continuations" say where a thread goes when
`Load`, `Refresh` or `GetAccessToken` returns.

* A token is the number of the grant that issued it. `exp` names the grant whose
  expiry `expires_at` holds, so "the right expiry" is `exp = access`. Which grants
  are within the 300 s refresh buffer is the set `stale`, which grows at any moment;
  `dead` are the access tokens Graph refuses. They are independent: a token may be
  revoked long before it expires.
* The data race on `session_` (`std::optional`, no mutex) is a choice: while a thread
  is about to write, other threads of the process read, and leave behind, any
  field-wise mixture (`Reads`, `Stores`).
* `Persist` renames a temporary file over the cache, hence is one step; it may fail,
  and the code ignores that.
* The provider may or may not revoke a refresh token on use (`RotationRevokes`), its
  answer may be lost, and a new access token may already be within the buffer.
* The client id is not modelled: its absence is one of the failures of `RefreshFailed`.
  Neither is an answer of the endpoint with an *empty* refresh token.

### MacosBuildLock

`with_macos_build_lock`, one step per command that touches the file system or another
process; `rm -rf` is two (unlink the file, remove the directory), and may fail at either
(`RmMayFail`), which the script ignores: `RemovalFails` goes round the loop at once,
`ReleaseFails` leaves the lock behind. `End` is the death of a shell with no chance for
its trap. A shell killed while its build goes on, and reuse of pids, are not modelled.

### OutlookMailViewModel

Every main-actor turn (the code between two `await`s) is an action. `mainQueue` is the
main actor's queue, `bridgeQueue` the serial dispatch queue, `tasks` the `Task`s ever
started. The user's actions happen between any two turns. Rows are abstracted to the
page they came with and, as ghost data, the search that asked for it, the query it was
filtered with, and whether the bridge reported it as the last. `PageOf` and `RowsOf`
are the search side of the bridge: the cursor replaces the query. Sorting (and
`updateSortOption`) permutes rows and is left out.

`MainActor.run` in `loadMoreMailcarts` is a call of a nonisolated async function: the
task may leave the main actor and come back in a later turn (`Hop`). `TailIsPrompt`
says that nobody clicks "load more" in between.

### GraphMailbox, MailcartApi, OutlookBridge, MailClients

`GraphMailbox` is not code of the repository but what the code relies on: folders in
the order Graph lists them, no two with one name up to case, a message id that changes
with every move, listings cut off at `$top` without a hint. Its owner moves messages
and deletes empty folders at any time. Three parties compare names, each by a rule of
its own: Graph (`Fold`, `Taken`), the server, which lowers ASCII letters (`AsciiLower`,
`SameInAscii`), and the app with `caseInsensitiveCompare` (`CaseFold`, `SameToApp`).
Nothing is assumed of how they relate.

`MailcartApi` has one record per worker thread. `HandleApiRequest` with everything
that needs no call of Graph (routing, method, write token, parameters, body, message
id) is one step, `ImmediateStatus` giving the answer; every call of Graph is a step of
its own, so that everybody else acts in between. A call works, is refused by Graph,
fails before it has acted (`FailingCall`), or acts and its answer is lost (the second
disjuncts of `CreateMissingFolder` and `MoveMessage`). `FailingCall` answers 404 for any
call, as `Request` passes on every 404 and every error that reads like one
(`graph.cpp:245`). A row of the listing without an id makes the server move to the empty
id (folder 0), while the app goes on to create the folder. Headers are sequences of words
so that the "Bearer" prefix and blank variables are told apart.

`OutlookBridge` has one record per thread of the app. An operation is a chain of
*legs*, one `FetchGraphGetData` or `FetchGraphRequestData` each, with the first
attempt, the refresh through `mailcart_token --force` after a 401, and the second
attempt. `LegFailed` is what an operation makes of a leg that has failed,
including the failures the code takes for an absent folder or for a message without
attachments. Tokens are numbers of refreshes; the inside of a refresh is the matter of
`GraphToken`.

`MailClients` puts both next to each other. `Filing` is the abstract specification of
what a client is promised: its message is filed at most once per request, at one moment
between question and answer, in a folder whose name is one the request is content with, and only if nobody
has moved it since the client learned its id; "moved" is said only of what was filed.
`FiledMoves` is the refinement mapping: the label of a message is the name of its
folder, a request is a worker's or caller's record, content with the names that program
takes for the one asked for, and its reply is read off `pc`, `status`, `leg` and `outcome`.

### SearchText, AhoCorasick, MailcartSearch

`SearchText` has the pure functions of `search.cpp`, `AhoCorasick` the matcher, one step
per node whose children get their links (`BuildFailureLinks`), and `MailcartSearch` the
loop of `SearchMessages` with one step per page and per row, while mail may arrive. A
text is a sequence of lexemes: characters, tags, entities, a lone angle bracket. The
section "What a search is to find" defines the same things again without tables or
loops (substring, the words of a text, which lexemes a reader sees, the place of a day
in the calendar); the properties compare the two. Query strings are given as their
tokens.

### Subprocess, MailcartServer

`Subprocess` is `Run` step by step: pipes, spawn, close of the write ends, reading
standard output to its end, then standard error, `waitpid`. The pipes are not
close-on-exec, so a child spawned by another thread in the meantime holds their write
ends (`Leaking`). `MailcartServer` is `main` of several starts on one port, the first
token check and the workers of which run 1psa; another program may sit on the port, and
`server.listen` may fail for any reason, bound or not (`ListenFails`). `Jammed` says when
`Run` and a child wait for each other: standard output is read first, while a child is
stuck in a full pipe of its standard error.

## Runs

| Run | Instance | Shows |
|---|---|---|
| `token_processes` | 1 server worker, `mailcart_token`, rotation with revocation, 4 grants | types; cache and memory hold matching pairs; a retry has a new token; a working refresh token is always in the file except between the endpoint's answer and Persist |
| `token_threads` | 2 workers on one manager, environment token, kills, 3 grants | every stored and cached session is a matching pair (`PairingInv`) and the cache keeps its refresh token, whatever the races do to memory (the workers are interchangeable: symmetry) |
| `token_alone` | 1 worker, 7 grants; storage, 1psa and network may fail | at most 5 calls of the endpoint per request (Load, GetAccessToken, the retry, then Load and GetAccessToken again); every operation ends |
| `token_race` (violation) | 2 workers | the retry repeats the refused token |
| `lock_two` | 2 mortal lanes, timeout 2, removals may fail | exclusion, its invariant, the lock is not taken from its holder; waiting is bounded and stale locks are reclaimed unless removals fail for ever |
| `lock_reclaim` (violation) | 3 lanes, one dies | two reclaimers end up building together |
| `mail_window` | 4 tasks, 2 pages, 2 texts, 2 messages | one gapless listing; true spinners that stop; detail of the last selection |
| `mail_cancel` (violation) | 3 tasks | a search superseded while it waits 250 ms goes on to its request |
| `mail_filter` (violation) | 3 tasks | page 2 is not filtered |
| `mailbox` | 1 worker, 1 app thread, 1 message, 4 names (2 differ in the case of an ASCII letter, 2 in that of an umlaut), 2 folders, 2 moves, 2 tokens | both clients implement `Filing`; after a refresh the app sends another token; the app's operations end |
| `search` | 19,233 starting points: overlapping patterns, HTML bodies, pages and dates, one late message | the automaton's links and outputs are right; everything found matches; results come newest first, without repetition unless mail arrived; nothing that matches is missed below the limit; the search ends |
| `server` | 2 starts of which 1 may be killed, another program on the port, main thread and 2 workers ask 1psa, pipes of 1 unit, 2 units written | starts give way only to one that serves, has been killed since, or is another program; every start ends; `Run` reads everything, and returns unless a child has jammed on standard error |

**Bounds.** With four grants, three refreshes can meet in `token_processes`, so that
both programs refresh and one of them refreshes again; with three grants two workers
each refresh once. Seven grants allow six refreshes, one more than the budget of five,
so that the bound is the code's and not the instance's. Three lanes are the fewest in
which two reclaim the same lock; a timeout of two lets a lane wait, be overtaken and
wait again. Four tasks allow a search, its second page, an edit that supersedes it and
a page of the new search, or any of these with two reads.

In `mailbox`, two folders and two moves let each client create the folder the other
wants, and one move be undone before the other; `FolderPage` = 1 (Graph's default of 10)
hides the second folder from the app, as `ListTop` = 2 (the code's 200) hides none from
the API. `MaxTrouble` bounds refreshes, expiries and refusals of the app's tokens; it is
0 where the server files messages and 3 where it has no write token and turns
everything down, which keeps the product of the two small: they share no token in this
module. The proofs have no such bounds. `search` has the page sizes and the scan limit
scaled down (`TopFloor` 2 for 200, `ScanFloor` 3 for 2000, and so on) so that the
limits are reached within four messages; mailboxes have fewer rows where fewer are read;
one late message (`MaxArrivals`) shifts a page. In `server` two starts are enough for one to be on its way while the other looks at the
port, and two workers for a child to inherit the other's pipes. Pipes have one unit
(`Capacity`) and a child writes two (`MaxWritten`), on either stream, so that it waits for
its reader on standard output, and `Jammed` is reached on standard error.
`MaxGrants`, `MaxTasks`, `MaxPages`, `MaxFolders`, `MaxMoves`, `MaxTokens` and
`MaxArrivals` appear as guards only. `CHECK_DEADLOCK FALSE` is used where the system
may stop: lanes and starts end, a search is over, and the user may do nothing.

**Fairness.** `GraphToken` and the lock: weak fairness of each thread's or lane's own
steps, which the operating system's scheduler gives; HTTP calls have time limits
(25 s), 1psa is assumed to end, the wrapped build is *not* assumed to end, and nothing
is asked of the clock, the user or a crash. The window: weak fairness of the run loop,
the queues and the timer together; the tasks are finitely many and every step brings
one closer to its end. `MailClients`: weak fairness of each worker's and each caller's
steps, because their HTTP clients time out (25 s in the core, 60 s by default in the
app) and `mailcart_token` does nothing beyond calls that time out as well; nothing is asked of
the mailbox's owner, of clients or of tokens. `MailcartSearch`: the search takes steps
until it has ended, for the same reason (written as `[]<>Ended \/
[]<><<SearchStep>>_vars`, which is weak fairness here and is checked without the
expensive ENABLED). `MailcartServer`: weak fairness of each main thread, of each thread
in `Run` and of each child, which waits for nothing but its full pipes.

## Findings

Each violation run is a disagreement between the code and one of its own documents or
comments; `PROJECT.json` quotes both. More behaviours met on the way, without a run:

*Tokens*

* After a failed `Persist` the file still holds the refused token. If the new token is
  within the buffer at once, `Load` falls back to the file and the retry repeats the
  refused token even with one thread. The app does the same when `mailcart_token`
  succeeds without writing the file; `RetryIsFresh` leaves that case out (`saved`).
* A usable token in `OUTLOOK_GRAPH_TOKEN` beside an expired cache is judged by the
  expiry of the cache (`BootstrapSession`), never used, and refreshed away.
* The refresh after a 401 starts from the cache as it is: if that holds no refresh
  token it gives up without asking 1Password (`SelectCache`).
* Two processes that start without a cache, with a token from the environment and a
  1psa that fails for one of them, can replace a refreshable cache by one that is not.

*Filing and reading*

* The app lists folders without `$top` (`OutlookGraphMessageMover.mm:113`), hence sees
  ten, and reads a failed listing as an absent folder (`:136`). It then asks Graph to
  create a folder that exists, is refused, and the move fails. Nothing is filed wrongly
  (`MovesAreFiled`), but a move that should work does not.
* The API lists 200 folders and does not fetch the next page (`graph.cpp:301`):
  beyond that it does the same, where R025 of
  `requirements/matchy_mailcart_api-requirements.md:33` says "create if absent". The same
  happens, however few folders there are, if Graph takes two spellings for one name that
  differ in a letter outside ASCII, which the API does not.
* Every 404 of Graph, and every error that reads like one, is passed on as "message not
  found" (`graph.cpp:245`), on which clients "can render 'no longer in inbox'": a folder
  deleted between its lookup and the move makes a client believe that a message is gone
  which is where it was. The bridge makes no such difference: the move has failed.
* If a folder of the listing has no id, the API moves the message to the empty id
  (`graph.cpp:316`), which is refused with a 404 that again speaks of the message.
* An answer that is lost after Graph has moved the message is reported as 502 (the app:
  as a failure); a client that repeats the request gets 404, for the id has changed.
* A message that cannot be fetched is shown blank instead of an error
  (`OutlookGraphHttpClient.mm:543`), and attachments of the same name share one
  temporary file (`OutlookClientBridge.mm:142`).

*Search*

* An invalid query is answered with 200 and no messages (`api.cpp:157`), where R020 of
  `requirements/matchy_mailcart_api-requirements.md:28` says 400.
* Mail that arrives between two pages shifts the rows under a `$skip` cursor: no row is
  missed, but one may be returned twice, and if two messages have arrived rows may also
  come out of order (`ResultsAreInOrder` says where it stops).
* Rows that are no JSON objects do not count as scanned (`api.cpp:240`): against a
  source of endless pages of them the loop has no bound. `SearchEnds` is about a finite
  mailbox.
* A script or style block that is never closed stays searchable, and a non-breaking
  space out of an entity separates no words.

*Server and window*

* A child that writes more to standard error than its pipe holds, before it closes
  standard output, and `Run` wait for each other (`subprocess.cpp:84`).
* Where there is `SO_REUSEPORT` two servers that start together may share the port, and
  "listening" is printed before the port is bound.
* A page that fails ends the list, for it has no cursor, and only the error message tells.
  `openAttachment` writes to the same field (`OutlookMailViewModel.swift:110`): after a
  failed attachment nothing tells a list that was cut off from a complete one.
* If the last turn of a superseded "load more" is late (`TailIsPrompt = FALSE`), it
  clears the flag of a newer one and the same page can be loaded twice.
* A lane that dies between `mkdir` and the write of its pid leaves a lock nobody
  reclaims: the others give up after the timeout.
* If the lock of a dead lane cannot be removed, the loop goes round without sleeping or
  counting (`macos_build_lock.sh:31`), and the timeout is never reached, where line 17 says
  "timing out after a bound"; `WaitIsBounded` leaves that way of waiting out.

## Proofs

All theorems hold for every value of the constants that satisfies the modules'
`ASSUME`s, and for any number of threads, processes, lanes, workers, callers, messages
and folders.

**GraphToken_proofs**: `TypeCorrect`, `SessionsStayPaired` (`PairingInv`),
`CacheIsPaired`, `RefreshesAreBounded`, and, if no two threads share a process,
`MemoryIsPaired`. The argument for pairing: an expiry enters a session either together
with its token (a grant) or, in `BootstrapSession`, from a cache that has just been found
invalid. In the second case the expiry is empty or already stale, and staleness never
ends, so a bootstrapped session with a foreign expiry is invalid and is refreshed
before anything is stored. `PairingInv` says this: what is about to be stored is
paired, and what waits for its bootstrap has a stale or no expiry. Only local copies
are ever persisted, so races on `session_` do not matter for the file; for the
memory they do, hence the extra assumption there. `RefreshesAreBounded` follows from
`BudgetInv`: at every point of the code the refreshes made so far and those that this
point can still lead to are at most five, whatever the other threads do.

**GraphTokenLineage_proofs** follows a token from the endpoint to the cache. Every step
of a running operation is first described field by field (`Turn`), so that the
invariants need not open the actions.

* `RefreshTokenIsKept` (`CacheKeepsRefresh`), with `RefreshableInv`: whatever a thread is
  about to write or to refresh has a refresh token, because `LoadBootstrap` and `Refresh`
  carry the old one over. This takes a refresh token in the cache or in 1Password from
  the start, hence the assumption: 1psa does not fail, or every cache that is there at the
  start has a refresh token. Otherwise the race of two starting programs under
  Findings replaces one.
* `LineageIsKept` (`LineageKept`), with `LineageInv`: of all refresh tokens around, in
  memory, in local copies, in the cache and in 1Password, at most one is not used up. It
  is that of the one thread that has been granted a session and has not yet persisted it
  or, if there is no such thread, the one from which the next session starts (`Root`).
  Assumed: one thread per process; nothing is lost (no answer of the endpoint, no failing
  Persist, no killed process); `BootstrapRefreshes`; and that there is a refresh token at all.
* `RetriesAreWorthwhile` (`RetryUsesNewToken`), with `RetryInv` on `AccessInv` and
  `GrantInv`: in the second attempt, once it has refreshed, the refused token has left the
  memory of the process and the cache, and what is about to be written is another. A
  granted token is its thread's own until it reaches the cache. Assumed: one thread per
  process, a Persist that works, `BootstrapRefreshes`.

`BootstrapRefreshes` says that `LoadBootstrap` never finds a session that is valid as it
is: every cache at the start has an access token, whose expiry is judged first, or no
expiry can be decoded from the tokens of the environment and of 1Password.
Each of these hypotheses is necessary: TLC finds a counterexample on a small instance
when one of them is dropped, so that they name what the code does not defend
against. `SeedsAssumption` says that the files and variables a program starts with hold
tokens issued before.

**MacosBuildLock_proofs**: `LockTypeCorrect` and, under `OneReclaimer`,
`LockIsConsistent` (`LockInv`), `LockExcludes` and `LockIsNotStolen`. `LockInv`: holders
are alone, the directory exists while there is one, a recorded pid belongs to a lane past
its write, and a lane that removes a lock has read the pid of a dead one. `OneReclaimer`
(whenever a lane can die, at most one other lane is left) is necessary: `lock_reclaim`
refutes the theorem without it. A removal that fails changes nothing but where the lane
goes on.

**MailClients_proofs**: `ClientsTypeCorrect` and `ClientsImplementFiling`: `Spec` implies
`FiledMoves!Spec`, whatever the three rules for names are and however they differ.
The refinement is proved action by action: receiving a request is an `Ask`, the step in
which Graph moves the message is a `File` whether or not its answer arrives, every
other answer is a `Fail`, a move or a deletion by the owner is `Elsewhere` or nothing,
and all other steps stutter (`WorkerKeepsPromise` and `CallerKeepsPromise` say so per step).
The invariant it needs (`ClientsInv`, made of `WorkerFits` and `CallerFits`) is that the
folder a worker or caller has found or created keeps a name that its program takes for
the one asked for; a worker may also hold the empty id. This holds because folders are
never renamed or renumbered, only deleted, and a deleted one, like the empty id, refuses
the move. That workers and callers are different threads is `ClientsAssumption`.
`RetriesAreFresh` (`RetryIsFresh`) has the invariant `FreshInv`: once a refresh
after a 401 has been saved, the cache holds another token than the refused one, and goes on
to do so, for tokens are not issued twice.

**AhoCorasick_proofs**: `OnePassFindsAll`: once `BuildFailureLinks` has emptied its
queue, `Found(text)` is the set of the patterns that occur in the text, for any symbols,
any finite set of patterns and a text of any length. The invariant of the loop
(`MatcherInv`) says of every node whether it has its link. It has it unless it is
strictly behind a node of the queue (`Waiting`); a node with its link is linked to its
longest proper suffix in the trie and has all the patterns that end there; a node without
has the root and itself. For the next turn to keep this, `Fallback` may only meet nodes
that have their links, and these are shorter, which is why `QueueFits` is part of the
invariant: the queue is in order of length over at most two lengths, and no node with a
link is more than one longer than a node of the queue. With a stack instead of a queue
(`BuildDepthFirst`) this fails, and so does the result. `Fallback` and `Found` are
recursive functions; what they compute is proved by induction on the length of the node
and of the text, from the well-foundedness of `<` on the naturals
(`NumberInduction`, `LeastNumber`), as the library's induction rules cannot be used.

**MailcartSearch_proofs**: `SearchTypeCorrect` (`TypeOK`), `MatcherIsBuiltRight`
(`MatcherIsRight`), `SearchFindsWhatOccurs`, `SearchKeepsOrder` (`ResultsAreInOrder`),
`SearchFindsTheWanted` (`ResultsAreWanted`) and `SearchMissesNothing`
(`NothingIsMissed`): every safety property of the search. `SearchFindsWhatOccurs` puts the
previous module into it: whenever rows are looked at, the matcher finds in any text exactly
the texts of the query that occur there. The invariant (`SearchInv`) bounds what has been scanned
*together with the rows still on the page* (`RowsFit`: a page is fetched only below
`MaxScannedRows`, and has at most `Top` rows), keeps room for one more result as long as a
row is left (`ResultsFit`), and has the trie of the query's texts complete before a page
is left (`MatcherFits`). The loops over texts and mailboxes are brought into one shape
(`Unfolds`), for which `LoopExists`, `LoopMakesSeq` and `LoopPicks` show that they can be
run, make a sequence, how long it is, and which places its elements come from, in order.
For the order of the results (`OrderInv`) every row before the cursor that is not
on the page has been looked at (`PageFits`); while no mail has arrived the results are rows
of that part (`FirstFits`), and until a second message arrives no row still to come is newer
than a result (`OrderFits`): one message shifts a `$skip` cursor by one row, the one looked
at last. A second breaks it, which TLC confirms.

`SearchFindsTheWanted` compares the code's loops with definitions that have none, so
that each loop is an induction of its own. `NormalizedIsWords` says that `Strip` and the
loop of `NormalizeSearchText` make the words of a text, in lower case: what is left out is
superfluous white space (`Thins`), and leaving it out does not change the words.
`StripHtmlShows` says the same of `StripHtml` and what a reader sees: dropping blocks,
replacing tags and unescaping are three loops, whose places are carried over to those of
the body. Both need only that texts are sequences and that white space is no entity. Dates
are brought to their days (`DatesSatisfy`), and `MatchIsWanted` puts it together. The
invariant (`WantedInv`) is that a query that is searched with was accepted, and that every
result is the id of a wanted message; that no two messages have one id is the part of
`MailAssumption` it needs.

`SearchMissesNothing` is the converse. Its invariant (`MissedInv`) has four parts. A wanted
message of the mailbox at the beginning is found, or is the listing's row at a place that
has not been looked at, as long as there is room (`NoneLost`): new mail pushes such a row
down together with the places (`ArrivalShifts`), so that a `$skip` cursor that stays behind
costs a row seen twice, never one missed. What stands before such a message is not older
(`BoxFits`), and the oldest date of a page is that of a row looked at (`PageEnds`): so
when `PastFromDate` ends the search, what is still to come is older than the range
(`RowsToComeGoOn`). Without dates there is one page, no mail arrives while it is looked at,
and the listing's rows stand at or before their places in the mailbox
(`RowsOfTheFirstPage`). That a proper query is accepted is `ProperIsScoped`, and that a
wanted message matches is `WantedMatches`.

The assumptions, which TLC evaluates in `search`: limits are positive, texts and
mailboxes are sequences and the calendar has the days of all messages
(`SearchAssumption`); Graph lists newest first, as `$orderby` asks, and ids differ
(`MailAssumption`); a token has one of the five scopes, the calendar is in the order of
`Before` and has the days of the queries, and white space is no entity
(`TextAssumption`).

**MailcartServer_proofs**: `ServerTypeCorrect`, `OutputIsReadWhole` and `YieldsToSomebody`
(`NobodyYieldsToNobody`).
`Run` leaves a pipe only when no child that holds its write end is alive, and then the
child has nothing left to write: the invariant (`OutputInv`) follows each pipe from spawn
to wait. For the starts, the invariant (`YieldInv`) is that whoever gives way, and without
another program on the port whoever has found it taken, was preceded by a start that got as
far as serving, and such a one serves until it is killed. Starts that have bound the
port are no ground to give way, since they may still fail to listen.

**OutlookMailViewModel_proofs**: `ViewTypeCorrect`, `LastSelectionIsShown` and, assuming `TailIsPrompt`, `SpinnersTellTheTruth` and
`ListStaysOneListing`. Every step is brought into one of five shapes (`Steps`): a task
takes a turn, a search, a page or a read is started, or nothing happens to the tasks.
`ViewFits` says that a task stands in the queue its `pc` names, once. On it rest
`GenerationsFit` (one search has the latest generation, what is cancelled is superseded)
and `NobodyOvertakes`: as both queues are first in, first out, a search started after a
"load more" stays behind it on every leg of the way, whence the page of a superseded
"load more" has come in when the new search is over. Therefore every earlier page is
done when "load more" can be clicked again (`EarlierPagesAreDone`), which is what keeps
the spinners true (`SpinnersInv`) and the cursor of a page that is under way equal to
the one after the list (`ListInv`). Without `TailIsPrompt` the last turn of the old page
may still be outstanding, and both theorems are false (see Findings).

**Only model-checked.** Liveness, which is out of the prover's reach: `OperationsEnd`,
`WaitIsBounded`, `StaleLockIsReclaimed`, `SearchEnds`, `LoadMoreEnds`, `AppCallsEnd`,
`RunEnds`, `StartsEnd`. Every invariant and every safety property of the runs that pass is stated by a theorem.

## Plan

1. Further models: the crash reporter's two file operations; the parser of query
   strings; an abstract specification of the window's list (it grows by the next page
   of the current search) that `OutlookMailViewModel` implements; the composition of
   `OutlookBridge` with `GraphToken`, so that a refresh is not one step.
2. Further proofs: what the further models promise, and that the abstract list is
   implemented.

## Not modelled

* The crash reporter: what remains on disk is decided by PLCrashReporter, whose source
  is not in the repository.
* The inside of the HTTP transport (URL splitting, percent encoding): its outcomes are
  choices of the modules that call it.
* Conversions without state: JSON and MIME decoding, entity accessors, HTML rendering,
  the tokenising of query strings, text formatting, serving `openapi.json`.
* The app shell: layout, launch flags and UI test fixtures.
* The Python predecessor of the server, kept as a test oracle; build, lint, fuzzing and
  supply-chain tooling.
