--------------------- MODULE OutlookMailViewModel_proofs ---------------------
(* Proofs about OutlookMailViewModel, for any number of tasks, pages, texts  *)
(* and messages.                                                             *)
EXTENDS OutlookMailViewModel, TLAPS

-----------------------------------------------------------------------------
(* Queues: who is in one, and who is ahead of whom                         *)

In(x, q) == \E i \in 1..Len(q) : q[i] = x
Once(q) == \A i, j \in 1..Len(q) : q[i] = q[j] => i = j
Ahead(x, y, q) == \A i, j \in 1..Len(q) : q[i] = x /\ q[j] = y => i < j

LEMMA AppendIn ==
    ASSUME NEW S, NEW q \in Seq(S), NEW z
    PROVE  \A x : In(x, Append(q, z)) <=> In(x, q) \/ x = z
  <1>1. /\ Len(Append(q, z)) = Len(q) + 1 /\ Len(q) \in Nat
        /\ \A i \in 1..Len(q) : Append(q, z)[i] = q[i]
        /\ Append(q, z)[Len(q) + 1] = z
    OBVIOUS
  <1>2. QED
    BY <1>1 DEF In

LEMMA AppendOnce ==
    ASSUME NEW S, NEW q \in Seq(S), NEW z, Once(q), ~In(z, q)
    PROVE  Once(Append(q, z))
  <1>1. /\ Len(Append(q, z)) = Len(q) + 1 /\ Len(q) \in Nat
        /\ \A i \in 1..Len(q) : Append(q, z)[i] = q[i]
        /\ Append(q, z)[Len(q) + 1] = z
    OBVIOUS
  <1>2. QED
    BY <1>1 DEF Once, In

\* Whoever joins a queue is behind those who are in it.
LEMMA AppendAhead ==
    ASSUME NEW S, NEW q \in Seq(S), NEW z
    PROVE  /\ \A x, y : x # z /\ Ahead(x, y, q) => Ahead(x, y, Append(q, z))
           /\ \A x : x # z /\ ~In(z, q) => Ahead(x, z, Append(q, z))
  <1>1. /\ Len(Append(q, z)) = Len(q) + 1 /\ Len(q) \in Nat
        /\ \A i \in 1..Len(q) : Append(q, z)[i] = q[i]
        /\ Append(q, z)[Len(q) + 1] = z
    OBVIOUS
  <1>2. QED
    BY <1>1 DEF Ahead, In

LEMMA TailIn ==
    ASSUME NEW S, NEW q \in Seq(S), q # <<>>
    PROVE  /\ \A x : In(x, Tail(q)) => In(x, q)
           /\ \A x : In(x, q) /\ x # Head(q) => In(x, Tail(q))
           /\ Once(q) => Once(Tail(q)) /\ ~In(Head(q), Tail(q))
           /\ \A x, y : Ahead(x, y, q) => Ahead(x, y, Tail(q))
           /\ In(Head(q), q)
  <1>1. /\ Len(q) \in Nat \ {0} /\ Len(Tail(q)) = Len(q) - 1
        /\ \A i \in 1..Len(q) - 1 : Tail(q)[i] = q[i + 1]
        /\ Head(q) = q[1]
    OBVIOUS
  <1>2. \A i \in 1..Len(q) - 1 : i + 1 \in 1..Len(q)
    BY <1>1
  <1>3. \A x : In(x, Tail(q)) => In(x, q)
    BY <1>1, <1>2 DEF In
  <1>4. ASSUME NEW x, In(x, q), x # Head(q) PROVE In(x, Tail(q))
    <2>1. PICK i \in 1..Len(q) : q[i] = x
      BY <1>4 DEF In
    <2>2. i - 1 \in 1..Len(q) - 1 /\ Tail(q)[i - 1] = x
      BY <1>1, <1>4, <2>1
    <2>3. QED
      BY <1>1, <2>2 DEF In
  <1>5. Once(q) => Once(Tail(q)) /\ ~In(Head(q), Tail(q))
    BY <1>1, <1>2 DEF Once, In
  <1>6. ASSUME NEW x, NEW y, Ahead(x, y, q) PROVE Ahead(x, y, Tail(q))
    <2> SUFFICES ASSUME NEW i \in 1..Len(q) - 1, NEW j \in 1..Len(q) - 1,
                        Tail(q)[i] = x, Tail(q)[j] = y
                 PROVE  i < j
      BY <1>1 DEF Ahead
    <2>1. q[i + 1] = x /\ q[j + 1] = y
      BY <1>1
    <2>2. i + 1 < j + 1
      BY <1>2, <1>6, <2>1 DEF Ahead
    <2>3. QED
      BY <1>1, <2>2
  <1>7. In(Head(q), q)
    BY <1>1 DEF In
  <1>8. QED
    BY <1>3, <1>4, <1>5, <1>6, <1>7

\* Nobody overtakes: with x ahead in the queue it is not y's turn.
LEMMA NotHead ==
    ASSUME NEW S, NEW q \in Seq(S), q # <<>>, NEW x, NEW y, Ahead(x, y, q), In(x, q)
    PROVE  y # Head(q)
  BY DEF Ahead, In

-----------------------------------------------------------------------------
(* The turns of a task                                                     *)

MainPcs == {"debounce", "request", "publish", "tail"}

Route(from, to) ==
    \/ from = "debounce" /\ to = "sleep"
    \/ from = "sleep" /\ to = "request"
    \/ from = "request" /\ to = "bridge"
    \/ from = "bridge" /\ to = "publish"
    \/ from = "publish" /\ to \in {"hop", "done"}
    \/ from = "hop" /\ to = "tail"
    \/ from = "tail" /\ to = "done"

\* Which turns the three kinds of task take, and what they have been answered.
TaskFits(x) ==
    /\ x.kind = "search" => x.cursor = 0 /\ x.pc \notin {"hop", "tail"}
    /\ x.kind = "more" => x.cursor # 0 /\ x.pc \notin {"debounce", "sleep"}
    /\ x.kind = "read" => x.pc \notin {"debounce", "sleep", "hop", "tail"}
    /\ x.pc = "publish" => x.answer \in Answers
    /\ x.pc = "publish" /\ x.answer = "more" => PageOf(x).page < MaxPages

\* What a task is started with.
SameTask(x, y) ==
    /\ x.kind = y.kind /\ x.generation = y.generation /\ x.cursor = y.cursor
    /\ x.message = y.message

\* Task t takes a turn and is x then; the queues move accordingly.
Stepped(t, x) ==
    /\ x \in TaskState /\ TaskFits(x)
    /\ tasks' = [tasks EXCEPT ![t] = x]
    /\ Route(tasks[t].pc, x.pc)
    /\ tasks[t].pc = "publish" => (x.pc = "hop" <=> x.kind = "more")
    /\ SameTask(x, tasks[t]) /\ x.cancelled = tasks[t].cancelled
    /\ x.pc = "bridge" => x.query = query
    /\ x.pc = "publish" => x.query = tasks[t].query
    /\ IF tasks[t].pc \in MainPcs
       THEN mainQueue # <<>> /\ t = Head(mainQueue) /\ mainQueue' = Tail(mainQueue)
       ELSE mainQueue' = IF x.pc \in MainPcs THEN Append(mainQueue, t) ELSE mainQueue
    /\ IF tasks[t].pc = "bridge"
       THEN bridgeQueue # <<>> /\ t = Head(bridgeQueue) /\ bridgeQueue' = Tail(bridgeQueue)
       ELSE bridgeQueue' = IF x.pc = "bridge" THEN Append(bridgeQueue, t) ELSE bridgeQueue

AllFit == \A t \in DOMAIN tasks : TaskFits(tasks[t])

\* Who waits for the main actor or for the bridge is in its queue, once.
QueuesFit ==
    /\ Once(mainQueue) /\ Once(bridgeQueue)
    /\ \A t \in DOMAIN tasks : In(t, mainQueue) <=> tasks[t].pc \in MainPcs
    /\ \A t \in DOMAIN tasks : In(t, bridgeQueue) <=> tasks[t].pc = "bridge"

\* What the turn of t does to what is published.
Shows(t) == tasks[t].pc = "publish" /\ tasks[t].kind # "read" /\ isCurrent(tasks[t])

Effect(t) ==
    /\ UNCHANGED <<query, searchTask, latestSearchGeneration, latestMessageLoadGeneration>>
    /\ Shows(t) => ShowPage(tasks[t])
    /\ ~Shows(t) => UNCHANGED <<summaries, nextCursor, errorMessage, isSearching>>
    /\ isLoadingMore' = IF tasks[t].pc = "tail" THEN FALSE ELSE isLoadingMore
    /\ selectedMailcart' =
          IF /\ tasks[t].kind = "read" /\ tasks[t].pc = "publish"
             /\ tasks[t].generation = latestMessageLoadGeneration
          THEN tasks[t].message ELSE selectedMailcart

\* The fields of a task that a turn sets, one at a time.
LEMMA SetPc ==
    ASSUME NEW r \in TaskState, NEW pc \in Pcs
    PROVE  LET x == [r EXCEPT !.pc = pc]
           IN  /\ x \in TaskState /\ x.pc = pc /\ SameTask(x, r)
               /\ x.cancelled = r.cancelled /\ x.query = r.query /\ x.answer = r.answer
  BY DEF TaskState, SameTask

LEMMA SetQuery ==
    ASSUME NEW r \in TaskState, NEW text \in Queries
    PROVE  LET x == [r EXCEPT !.query = text]
           IN  /\ x \in TaskState /\ x.pc = r.pc /\ SameTask(x, r)
               /\ x.cancelled = r.cancelled /\ x.query = text /\ x.answer = r.answer
  BY DEF TaskState, SameTask

LEMMA SetAnswer ==
    ASSUME NEW r \in TaskState, NEW answer \in Answers \cup {"none"}
    PROVE  LET x == [r EXCEPT !.answer = answer]
           IN  /\ x \in TaskState /\ x.pc = r.pc /\ SameTask(x, r)
               /\ x.cancelled = r.cancelled /\ x.query = r.query /\ x.answer = answer
  BY DEF TaskState, SameTask

LEMMA TurnTask ==
    ASSUME NEW r \in TaskState, NEW pc \in Pcs
    PROVE  LET x == [r EXCEPT !.pc = pc, !.query = NoQuery, !.answer = "none"]
           IN  /\ x \in TaskState /\ x.pc = pc /\ SameTask(x, r)
               /\ x.cancelled = r.cancelled
  <1> DEFINE a == [r EXCEPT !.pc = pc]
             b == [a EXCEPT !.query = NoQuery]
             c == [b EXCEPT !.answer = "none"]
  <1>1. a \in TaskState /\ a.pc = pc /\ SameTask(a, r) /\ a.cancelled = r.cancelled
    BY SetPc
  <1> HIDE DEF a
  <1>2. b \in TaskState /\ b.pc = pc /\ SameTask(b, r) /\ b.cancelled = r.cancelled
    BY <1>1, SetQuery, ViewModelAssumption DEF SameTask
  <1> HIDE DEF b
  <1>3. c \in TaskState /\ c.pc = pc /\ SameTask(c, r) /\ c.cancelled = r.cancelled
    BY <1>2, SetAnswer DEF SameTask
  <1>4. c = [r EXCEPT !.pc = pc, !.query = NoQuery, !.answer = "none"]
    BY DEF c, b, a
  <1>5. QED
    BY <1>3, <1>4

\* A turn on the main actor that does not call the bridge.
LEMMA TurnSteps ==
    ASSUME TypeOK, AllFit, NEW t \in DOMAIN tasks, NEW from \in MainPcs, NEW to \in Pcs,
           Turn(t, from, to), UNCHANGED bridgeQueue, Route(from, to),
           from # "request",
           from = "publish" => (to = "hop" <=> tasks[t].kind = "more")
    PROVE  \E x : Stepped(t, x)
  <1>1. tasks[t] \in TaskState /\ TaskFits(tasks[t]) /\ tasks[t].pc = from
    BY DEF TypeOK, AllFit, Turn
  <1>2. PICK x : x = [tasks[t] EXCEPT !.pc = to, !.query = NoQuery, !.answer = "none"]
    OBVIOUS
  <1>3. /\ x \in TaskState /\ x.pc = to /\ SameTask(x, tasks[t])
        /\ x.cancelled = tasks[t].cancelled
    BY <1>1, <1>2, TurnTask
  <1>4. to \notin {"bridge", "publish", "tail", "request", "debounce"}
    BY DEF Route, MainPcs
  <1>5. TaskFits(x)
    BY <1>1, <1>3, <1>4 DEF TaskFits, SameTask, Route, MainPcs, TaskState, Kinds
  <1>6. tasks' = [tasks EXCEPT ![t] = x]
    BY <1>2 DEF Turn
  <1>7. /\ mainQueue # <<>> /\ t = Head(mainQueue) /\ mainQueue' = Tail(mainQueue)
        /\ from # "bridge"
    BY DEF Turn, MainPcs
  <1>8. from = "publish" => (x.pc = "hop" <=> x.kind = "more")
    BY <1>3 DEF SameTask
  <1>9. QED
    BY <1>1, <1>3, <1>4, <1>5, <1>6, <1>7, <1>8 DEF Stepped

LEMMA AdvanceSteps ==
    ASSUME TypeOK, AllFit, QueuesFit, NEW t \in DOMAIN tasks, Advance(t)
    PROVE  Effect(t) /\ \E x : Stepped(t, x)
  <1> DEFINE r == tasks[t]
  <1>r. r \in TaskState /\ TaskFits(r)
    BY DEF TypeOK, AllFit
  <1>1. CASE BeginDebounce(t)
    <2>1. \E x : Stepped(t, x)
      BY <1>1, TurnSteps DEF BeginDebounce, Route, MainPcs, Pcs
    <2>2. QED
      BY <1>1, <2>1 DEF BeginDebounce, Turn, Effect, Shows, published, private
  <1>2. CASE Wake(t)
    <2>1. PICK x : x = [r EXCEPT !.pc = "request"]
      OBVIOUS
    <2>2. /\ x \in TaskState /\ x.pc = "request" /\ SameTask(x, r)
          /\ x.cancelled = r.cancelled
      BY <1>r, <2>1, SetPc DEF Pcs
    <2>3. r.pc = "sleep" /\ TaskFits(x)
      BY <1>r, <1>2, <2>2 DEF Wake, TaskFits, SameTask
    <2>4. Stepped(t, x)
      BY <1>2, <2>1, <2>2, <2>3 DEF Wake, Stepped, Route, MainPcs
    <2>5. QED
      BY <1>2, <2>4 DEF Wake, Effect, Shows, published, private
  <1>3. CASE Request(t)
    <2> DEFINE a == [r EXCEPT !.pc = "bridge"]
    <2>1. a \in TaskState /\ a.pc = "bridge" /\ SameTask(a, r) /\ a.cancelled = r.cancelled
      BY <1>r, SetPc DEF Pcs
    <2>2. PICK x : /\ x = [a EXCEPT !.query = query]
                   /\ tasks' = [tasks EXCEPT ![t] = x]
      BY <1>3 DEF Request
    <2> HIDE DEF a
    <2>3. /\ x \in TaskState /\ x.pc = "bridge" /\ SameTask(x, r)
          /\ x.cancelled = r.cancelled /\ x.query = query
      BY <2>1, <2>2, SetQuery DEF TypeOK, SameTask
    <2>4. r.pc = "request" /\ TaskFits(x)
      BY <1>r, <1>3, <2>3 DEF Request, TaskFits, SameTask
    <2>5. Stepped(t, x)
      BY <1>3, <2>2, <2>3, <2>4 DEF Request, Stepped, Route, MainPcs
    <2>6. QED
      BY <1>3, <2>5 DEF Request, Effect, Shows, published, private
  <1>4. CASE Serve(t)
    <2>1. PICK answer \in Answers :
              /\ answer = "more" => PageOf(r).page < MaxPages
              /\ tasks' = [tasks EXCEPT ![t] = [r EXCEPT !.pc = "publish", !.answer = answer]]
      BY <1>4 DEF Serve
    <2> DEFINE a == [r EXCEPT !.pc = "publish"]
    <2>2. /\ a \in TaskState /\ a.pc = "publish" /\ SameTask(a, r)
          /\ a.cancelled = r.cancelled /\ a.query = r.query
      BY <1>r, SetPc DEF Pcs
    <2>3. PICK x : /\ x = [a EXCEPT !.answer = answer]
                   /\ tasks' = [tasks EXCEPT ![t] = x]
      BY <2>1
    <2> HIDE DEF a
    <2>4. /\ x \in TaskState /\ x.pc = "publish" /\ SameTask(x, r)
          /\ x.cancelled = r.cancelled /\ x.query = r.query /\ x.answer = answer
      BY <2>1, <2>2, <2>3, SetAnswer DEF SameTask
    <2>5. PageOf(x).page = PageOf(r).page
      BY <2>4 DEF PageOf, SameTask
    <2>6. r.pc = "bridge"
      BY <1>4, TailIn DEF Serve, QueuesFit, TypeOK
    <2>7. TaskFits(x)
      BY <1>r, <2>1, <2>4, <2>5, <2>6 DEF TaskFits, SameTask
    <2>8. Stepped(t, x)
      BY <1>4, <2>3, <2>4, <2>6, <2>7 DEF Serve, Stepped, Route, MainPcs
    <2>9. QED
      BY <1>4, <2>6, <2>8 DEF Serve, Effect, Shows, published, private
  <1>5. CASE PublishPage(t)
    <2> DEFINE to == IF r.kind = "more" THEN "hop" ELSE "done"
    <2>1. Turn(t, "publish", to) /\ r.pc = "publish" /\ r.kind # "read"
      BY <1>5 DEF PublishPage, Turn
    <2>2. \E x : Stepped(t, x)
      BY <1>5, <2>1, TurnSteps DEF PublishPage, Route, MainPcs, Pcs
    <2>3. QED
      BY <1>5, <2>1, <2>2 DEF PublishPage, Effect, Shows, ShowPage
  <1>6. CASE Hop(t)
    <2>1. PICK x : x = [r EXCEPT !.pc = "tail"]
      OBVIOUS
    <2>2. /\ x \in TaskState /\ x.pc = "tail" /\ SameTask(x, r)
          /\ x.cancelled = r.cancelled
      BY <1>r, <2>1, SetPc DEF Pcs
    <2>3. r.pc = "hop" /\ TaskFits(x)
      BY <1>r, <1>6, <2>2 DEF Hop, TaskFits, SameTask
    <2>4. Stepped(t, x)
      BY <1>6, <2>1, <2>2, <2>3 DEF Hop, Stepped, Route, MainPcs
    <2>5. QED
      BY <1>6, <2>4 DEF Hop, Effect, Shows, published, private
  <1>7. CASE EndLoadMore(t)
    <2>1. \E x : Stepped(t, x)
      BY <1>7, TurnSteps DEF EndLoadMore, Route, MainPcs, Pcs
    <2>2. QED
      BY <1>7, <2>1 DEF EndLoadMore, Turn, Effect, Shows, private
  <1>8. CASE PublishMailcart(t)
    <2>1. Turn(t, "publish", "done") /\ r.pc = "publish" /\ r.kind = "read"
      BY <1>8 DEF PublishMailcart, Turn
    <2>2. \E x : Stepped(t, x)
      BY <1>8, <2>1, TurnSteps DEF PublishMailcart, Route, MainPcs, Pcs
    <2>3. QED
      BY <1>8, <2>1, <2>2 DEF PublishMailcart, Effect, Shows, private
  <1>9. QED
    BY <1>1, <1>2, <1>3, <1>4, <1>5, <1>6, <1>7, <1>8 DEF Advance

-----------------------------------------------------------------------------
(* The user                                                                *)

\* Task x is started, and the task an edit cancels is marked.
Added(x) ==
    \E old :
        /\ old \in Seq(TaskState) /\ Len(old) = Len(tasks)
        /\ \A t \in DOMAIN tasks :
              /\ SameTask(old[t], tasks[t])
              /\ old[t].pc = tasks[t].pc /\ old[t].query = tasks[t].query
              /\ old[t].answer = tasks[t].answer
              /\ tasks[t].cancelled => old[t].cancelled
              /\ old[t].cancelled => tasks[t].cancelled \/ latestSearchGeneration' # latestSearchGeneration
        /\ Len(tasks) < MaxTasks
        /\ tasks' = Append(old, x)
        /\ mainQueue' = Append(mainQueue, Len(tasks) + 1)
        /\ UNCHANGED bridgeQueue
        /\ x \in TaskState /\ TaskFits(x) /\ x.pc \in {"debounce", "request"}
        /\ ~x.cancelled

\* What has become of the old tasks.
AddedTasks(x) ==
    /\ tasks' \in Seq(TaskState)
    /\ Len(tasks') = Len(tasks) + 1 /\ Len(tasks') <= MaxTasks
    /\ DOMAIN tasks' = DOMAIN tasks \cup {Len(tasks) + 1}
    /\ Len(tasks) + 1 \notin DOMAIN tasks
    /\ \A t \in DOMAIN tasks :
          /\ SameTask(tasks'[t], tasks[t])
          /\ tasks'[t].pc = tasks[t].pc /\ tasks'[t].query = tasks[t].query
          /\ tasks'[t].answer = tasks[t].answer
          /\ tasks[t].cancelled => tasks'[t].cancelled
          /\ tasks'[t].cancelled => tasks[t].cancelled \/ latestSearchGeneration' # latestSearchGeneration
    /\ tasks'[Len(tasks) + 1] = x
    /\ mainQueue' = Append(mainQueue, Len(tasks) + 1)
    /\ UNCHANGED bridgeQueue
    /\ x \in TaskState /\ TaskFits(x) /\ x.pc \in {"debounce", "request"}
    /\ ~x.cancelled

LEMMA AppendTask ==
    ASSUME NEW old \in Seq(TaskState), NEW x \in TaskState
    PROVE  /\ Append(old, x) \in Seq(TaskState)
           /\ Len(Append(old, x)) = Len(old) + 1 /\ Len(old) \in Nat
           /\ DOMAIN old = 1..Len(old)
           /\ DOMAIN Append(old, x) = 1..Len(old) + 1
           /\ \A t \in DOMAIN old : Append(old, x)[t] = old[t]
           /\ Append(old, x)[Len(old) + 1] = x
  OBVIOUS

LEMMA AddedKeeps ==
    ASSUME TypeOK, NEW x, Added(x)
    PROVE  AddedTasks(x)
  <1>1. PICK old :
          /\ old \in Seq(TaskState) /\ Len(old) = Len(tasks)
          /\ \A t \in DOMAIN tasks :
                /\ SameTask(old[t], tasks[t])
                /\ old[t].pc = tasks[t].pc /\ old[t].query = tasks[t].query
                /\ old[t].answer = tasks[t].answer
                /\ tasks[t].cancelled => old[t].cancelled
                /\ old[t].cancelled => tasks[t].cancelled \/ latestSearchGeneration' # latestSearchGeneration
          /\ Len(tasks) < MaxTasks
          /\ tasks' = Append(old, x)
          /\ mainQueue' = Append(mainQueue, Len(tasks) + 1)
          /\ UNCHANGED bridgeQueue
          /\ x \in TaskState /\ TaskFits(x) /\ x.pc \in {"debounce", "request"}
          /\ ~x.cancelled
    BY DEF Added
  <1>2. DOMAIN tasks = 1..Len(tasks) /\ Len(tasks) \in Nat
    BY DEF TypeOK
  <1>3. /\ tasks' \in Seq(TaskState) /\ Len(tasks') = Len(tasks) + 1
        /\ DOMAIN tasks' = 1..Len(tasks) + 1 /\ DOMAIN old = DOMAIN tasks
        /\ \A t \in DOMAIN tasks : tasks'[t] = old[t]
        /\ tasks'[Len(tasks) + 1] = x
    BY <1>1, <1>2, AppendTask
  <1>4. Len(tasks') <= MaxTasks
    BY <1>1, <1>2, <1>3, ViewModelAssumption
  <1>5. DOMAIN tasks' = DOMAIN tasks \cup {Len(tasks) + 1} /\ Len(tasks) + 1 \notin DOMAIN tasks
    BY <1>2, <1>3
  <1>6. QED
    BY <1>1, <1>3, <1>4, <1>5 DEF AddedTasks

\* What a task is started with is a task.
LEMMA TaskType ==
    ASSUME NEW kind \in Kinds, NEW generation \in 1..MaxTasks, NEW cursor \in {0} \cup Pages,
           NEW message \in Messages \cup {NoMessage}, NEW pc \in {"debounce", "request"}
    PROVE  LET x == Task(kind, generation, cursor, message, pc)
           IN  /\ x \in TaskState /\ x.kind = kind /\ x.generation = generation
               /\ x.cursor = cursor /\ x.message = message /\ x.pc = pc /\ ~x.cancelled
  BY ViewModelAssumption DEF Task, TaskState, Pcs

LEMMA StartedAdds ==
    ASSUME TypeOK, NEW x \in TaskState, TaskFits(x), x.pc \in {"debounce", "request"},
           ~x.cancelled, Started(tasks, x)
    PROVE  Added(x)
  BY DEF Started, Added, TypeOK, SameTask

LEMMA CancelKeeps ==
    ASSUME NEW r \in TaskState
    PROVE  /\ Cancel(r) \in TaskState /\ SameTask(Cancel(r), r)
           /\ Cancel(r).pc = r.pc /\ Cancel(r).query = r.query
           /\ Cancel(r).answer = r.answer
           /\ r.cancelled => Cancel(r).cancelled
  BY DEF Cancel, TaskState, SameTask

\* One element of a sequence is replaced.
LEMMA ExceptSequence ==
    ASSUME NEW S, NEW q \in Seq(S), NEW i \in DOMAIN q, NEW x \in S
    PROVE  LET p == [q EXCEPT ![i] = x]
           IN  /\ p \in Seq(S) /\ Len(p) = Len(q) /\ DOMAIN p = DOMAIN q
               /\ p[i] = x /\ \A j \in DOMAIN q \ {i} : p[j] = q[j]
  OBVIOUS

LEMMA TasksDomain ==
    ASSUME TypeOK
    PROVE  /\ DOMAIN tasks = 1..Len(tasks) /\ Len(tasks) \in Nat
           /\ \A t \in DOMAIN tasks : tasks[t] \in TaskState
           /\ latestSearchGeneration \in 1..Len(tasks)
           /\ latestMessageLoadGeneration \in 0..Len(tasks)
  BY DEF TypeOK

LEMMA UpdateQueryAdds ==
    ASSUME TypeOK, NEW value \in Queries, UpdateQuery(value)
    PROVE  \E x : /\ Added(x) /\ x.kind = "search" /\ x.pc = "debounce"
                  /\ x.generation = latestSearchGeneration + 1
  <1> DEFINE x == Task("search", latestSearchGeneration + 1, 0, NoMessage, "debounce")
             c == searchTask
             old == [tasks EXCEPT ![c] = Cancel(@)]
  <1>1. c \in DOMAIN tasks /\ tasks \in Seq(TaskState) /\ Len(tasks) < MaxTasks
    BY DEF TypeOK, UpdateQuery, Started
  <1>2. latestSearchGeneration + 1 \in 1..MaxTasks
    BY <1>1, TasksDomain, ViewModelAssumption
  <1>3. /\ x \in TaskState /\ x.kind = "search" /\ x.generation = latestSearchGeneration + 1
        /\ x.cursor = 0 /\ x.pc = "debounce" /\ ~x.cancelled
    BY <1>2, TaskType DEF Kinds
  <1>4. Started(old, x) /\ latestSearchGeneration' = latestSearchGeneration + 1
    BY DEF UpdateQuery
  <1> HIDE DEF x
  <1>5. TaskFits(x)
    BY <1>3 DEF TaskFits
  <1>6. tasks[c] \in TaskState
    BY <1>1, TasksDomain
  <1>7. PICK y : y = Cancel(tasks[c]) /\ old = [tasks EXCEPT ![c] = y]
    OBVIOUS
  <1>8. /\ y \in TaskState /\ SameTask(y, tasks[c]) /\ y.pc = tasks[c].pc
        /\ y.query = tasks[c].query /\ y.answer = tasks[c].answer
        /\ tasks[c].cancelled => y.cancelled
    BY <1>6, <1>7, CancelKeeps
  <1>9. /\ old \in Seq(TaskState) /\ Len(old) = Len(tasks)
        /\ old[c] = y /\ \A t \in DOMAIN tasks \ {c} : old[t] = tasks[t]
    BY <1>1, <1>7, <1>8, ExceptSequence
  <1> HIDE DEF old
  <1>10. latestSearchGeneration' # latestSearchGeneration
    BY <1>4, TasksDomain
  <1>11. \A t \in DOMAIN tasks :
            /\ SameTask(old[t], tasks[t])
            /\ old[t].pc = tasks[t].pc /\ old[t].query = tasks[t].query
            /\ old[t].answer = tasks[t].answer
            /\ tasks[t].cancelled => old[t].cancelled
    BY <1>8, <1>9 DEF SameTask
  <1>12. Added(x)
    BY <1>1, <1>3, <1>4, <1>5, <1>9, <1>10, <1>11 DEF Started, Added
  <1>13. QED
    BY <1>3, <1>12

LEMMA LoadMoreAdds ==
    ASSUME TypeOK, LoadMoreMailcarts
    PROVE  \E x : /\ Added(x) /\ x.kind = "more" /\ x.pc = "request"
                  /\ x.generation = latestSearchGeneration /\ x.cursor = nextCursor
  <1> DEFINE x == Task("more", latestSearchGeneration, nextCursor, NoMessage, "request")
  <1>1. nextCursor # 0 /\ nextCursor \in {0} \cup Pages /\ Started(tasks, x)
    BY DEF TypeOK, LoadMoreMailcarts, canLoadMore
  <1>2. latestSearchGeneration \in 1..MaxTasks
    BY <1>1, TasksDomain, ViewModelAssumption DEF Started
  <1>3. /\ x \in TaskState /\ x.kind = "more" /\ x.generation = latestSearchGeneration
        /\ x.cursor = nextCursor /\ x.pc = "request" /\ ~x.cancelled
    BY <1>1, <1>2, TaskType DEF Kinds
  <1> HIDE DEF x
  <1>4. TaskFits(x)
    BY <1>1, <1>3 DEF TaskFits
  <1>5. Added(x)
    BY <1>1, <1>3, <1>4, StartedAdds
  <1>6. QED
    BY <1>3, <1>5

LEMMA LoadMailcartAdds ==
    ASSUME TypeOK, NEW messageId \in Messages, LoadMailcart(messageId)
    PROVE  \E x : /\ Added(x) /\ x.kind = "read" /\ x.pc = "request"
                  /\ x.generation = latestMessageLoadGeneration + 1 /\ x.message = messageId
  <1> DEFINE x == Task("read", latestMessageLoadGeneration + 1, 0, messageId, "request")
  <1>1. Started(tasks, x)
    BY DEF LoadMailcart
  <1>2. latestMessageLoadGeneration + 1 \in 1..MaxTasks
    BY <1>1, TasksDomain, ViewModelAssumption DEF Started
  <1>3. /\ x \in TaskState /\ x.kind = "read" /\ x.pc = "request" /\ ~x.cancelled
        /\ x.generation = latestMessageLoadGeneration + 1 /\ x.message = messageId
    BY <1>2, TaskType DEF Kinds
  <1> HIDE DEF x
  <1>4. TaskFits(x)
    BY <1>3 DEF TaskFits
  <1>5. Added(x)
    BY <1>1, <1>3, <1>4, StartedAdds
  <1>6. QED
    BY <1>3, <1>5

-----------------------------------------------------------------------------
(* Types and queues                                                        *)

\* What has become of the tasks when t has taken its turn.
SteppedTasks(t, x) ==
    /\ tasks' \in Seq(TaskState) /\ Len(tasks') = Len(tasks) /\ DOMAIN tasks' = DOMAIN tasks
    /\ tasks'[t] = x
    /\ \A u \in DOMAIN tasks \ {t} : tasks'[u] = tasks[u]

LEMMA SteppedKeeps ==
    ASSUME TypeOK, NEW t \in DOMAIN tasks, NEW x, Stepped(t, x)
    PROVE  SteppedTasks(t, x)
  <1>1. tasks \in Seq(TaskState) /\ x \in TaskState /\ tasks' = [tasks EXCEPT ![t] = x]
    BY DEF TypeOK, Stepped
  <1>2. QED
    BY <1>1, ExceptSequence DEF SteppedTasks

LEMMA QueueTypes ==
    ASSUME NEW S, NEW q \in Seq(S)
    PROVE  /\ \A z \in S : Append(q, z) \in Seq(S)
           /\ q # <<>> => Tail(q) \in Seq(S)
  OBVIOUS

LEMMA WiderQueue ==
    ASSUME NEW n \in Nat, NEW q \in Seq(1..n)
    PROVE  q \in Seq(1..n + 1)
  OBVIOUS

QueuesOK == mainQueue \in Seq(1..Len(tasks)) /\ bridgeQueue \in Seq(1..Len(tasks))

LEMMA SteppedQueueTypes ==
    ASSUME TypeOK, NEW t \in DOMAIN tasks, NEW x, Stepped(t, x)
    PROVE  QueuesOK'
  <1>1. /\ t \in 1..Len(tasks) /\ Len(tasks') = Len(tasks)
        /\ mainQueue \in Seq(1..Len(tasks)) /\ bridgeQueue \in Seq(1..Len(tasks))
    BY SteppedKeeps DEF SteppedTasks, TypeOK
  <1>2. mainQueue' \in Seq(1..Len(tasks))
    BY <1>1, QueueTypes DEF Stepped
  <1>3. bridgeQueue' \in Seq(1..Len(tasks))
    BY <1>1, QueueTypes DEF Stepped
  <1>4. QED
    BY <1>1, <1>2, <1>3 DEF QueuesOK

LEMMA AddedQueueTypes ==
    ASSUME TypeOK, NEW x, AddedTasks(x)
    PROVE  QueuesOK'
  <1>1. /\ Len(tasks) \in Nat /\ Len(tasks') = Len(tasks) + 1
        /\ mainQueue \in Seq(1..Len(tasks)) /\ bridgeQueue \in Seq(1..Len(tasks))
    BY DEF AddedTasks, TypeOK
  <1>2. mainQueue \in Seq(1..Len(tasks) + 1) /\ bridgeQueue \in Seq(1..Len(tasks) + 1)
    BY <1>1, WiderQueue
  <1>3. Len(tasks) + 1 \in 1..Len(tasks) + 1
    BY <1>1
  <1>4. Append(mainQueue, Len(tasks) + 1) \in Seq(1..Len(tasks) + 1)
    BY <1>2, <1>3, QueueTypes
  <1>5. QED
    BY <1>1, <1>2, <1>4 DEF QueuesOK, AddedTasks

\* A turn takes a task from one queue to the other, or out of both.
LEMMA SteppedQueues ==
    ASSUME TypeOK, QueuesFit, NEW t \in DOMAIN tasks, NEW x, Stepped(t, x)
    PROVE  QueuesFit'
  <1> DEFINE M == mainQueue
             B == bridgeQueue
  <1>s. SteppedTasks(t, x)
    BY SteppedKeeps
  <1>q. M \in Seq(1..Len(tasks)) /\ B \in Seq(1..Len(tasks))
    BY DEF TypeOK
  <1>f. /\ Once(M) /\ Once(B)
        /\ In(t, M) <=> tasks[t].pc \in MainPcs
        /\ In(t, B) <=> tasks[t].pc = "bridge"
    BY DEF QueuesFit
  <1>r. Route(tasks[t].pc, x.pc)
    BY DEF Stepped
  <1>1. /\ Once(M')
        /\ In(t, M') <=> x.pc \in MainPcs
        /\ \A u \in DOMAIN tasks \ {t} : In(u, M') <=> In(u, M)
    <2>1. CASE tasks[t].pc \in MainPcs
      <3>1. M # <<>> /\ t = Head(M) /\ M' = Tail(M)
        BY <2>1 DEF Stepped
      <3>2. x.pc \notin MainPcs
        BY <1>r, <2>1 DEF Route, MainPcs
      <3>3. QED
        BY <1>q, <1>f, <3>1, <3>2, TailIn
    <2>2. CASE tasks[t].pc \notin MainPcs /\ x.pc \in MainPcs
      <3>1. M' = Append(M, t)
        BY <2>2 DEF Stepped
      <3>2. QED
        BY <1>q, <1>f, <2>2, <3>1, AppendIn, AppendOnce
    <2>3. CASE tasks[t].pc \notin MainPcs /\ x.pc \notin MainPcs
      <3>1. M' = M
        BY <2>3 DEF Stepped
      <3>2. QED
        BY <1>f, <2>3, <3>1
    <2>4. QED
      BY <2>1, <2>2, <2>3
  <1>2. /\ Once(B')
        /\ In(t, B') <=> x.pc = "bridge"
        /\ \A u \in DOMAIN tasks \ {t} : In(u, B') <=> In(u, B)
    <2>1. CASE tasks[t].pc = "bridge"
      <3>1. B # <<>> /\ t = Head(B) /\ B' = Tail(B)
        BY <2>1 DEF Stepped
      <3>2. x.pc # "bridge"
        BY <1>r, <2>1 DEF Route
      <3>3. QED
        BY <1>q, <1>f, <3>1, <3>2, TailIn
    <2>2. CASE tasks[t].pc # "bridge" /\ x.pc = "bridge"
      <3>1. B' = Append(B, t)
        BY <2>2 DEF Stepped
      <3>2. QED
        BY <1>q, <1>f, <2>2, <3>1, AppendIn, AppendOnce
    <2>3. CASE tasks[t].pc # "bridge" /\ x.pc # "bridge"
      <3>1. B' = B
        BY <2>3 DEF Stepped
      <3>2. QED
        BY <1>f, <2>3, <3>1
    <2>4. QED
      BY <2>1, <2>2, <2>3
  <1>3. QED
    BY <1>s, <1>1, <1>2 DEF SteppedTasks, QueuesFit

LEMMA AddedQueues ==
    ASSUME TypeOK, QueuesFit, NEW x, AddedTasks(x)
    PROVE  QueuesFit'
  <1> DEFINE n == Len(tasks) + 1
  <1>q. mainQueue \in Seq(1..Len(tasks)) /\ bridgeQueue \in Seq(1..Len(tasks))
    BY DEF TypeOK
  <1>1. ~In(n, mainQueue) /\ ~In(n, bridgeQueue)
    BY <1>q, TasksDomain DEF In
  <1>2. /\ Once(mainQueue')
        /\ \A u : In(u, mainQueue') <=> In(u, mainQueue) \/ u = n
    BY <1>q, <1>1, AppendIn, AppendOnce DEF AddedTasks, QueuesFit
  <1>3. x.pc \in MainPcs /\ x.pc # "bridge"
    BY DEF AddedTasks, MainPcs
  <1>4. n \notin DOMAIN tasks /\ DOMAIN tasks' = DOMAIN tasks \cup {n} /\ tasks'[n] = x
    BY DEF AddedTasks
  <1>5. \A t \in DOMAIN tasks : tasks'[t].pc = tasks[t].pc
    BY DEF AddedTasks
  <1>6. bridgeQueue' = bridgeQueue
    BY DEF AddedTasks
  <1> HIDE DEF n
  <1>7. QED
    BY <1>1, <1>2, <1>3, <1>4, <1>5, <1>6 DEF QueuesFit

LEMMA SteppedFits ==
    ASSUME TypeOK, AllFit, NEW t \in DOMAIN tasks, NEW x, Stepped(t, x)
    PROVE  AllFit'
  <1>1. TaskFits(x) /\ SteppedTasks(t, x)
    BY SteppedKeeps DEF Stepped
  <1>2. \A u \in DOMAIN tasks' : TaskFits(tasks'[u])
    BY <1>1 DEF SteppedTasks, AllFit
  <1>3. QED
    BY <1>2 DEF AllFit, TaskFits, PageOf

LEMMA AddedFits ==
    ASSUME TypeOK, AllFit, NEW x, AddedTasks(x)
    PROVE  AllFit'
  <1>1. ASSUME NEW u \in DOMAIN tasks PROVE TaskFits(tasks'[u])
    <2>1. /\ TaskFits(tasks[u]) /\ SameTask(tasks'[u], tasks[u])
          /\ tasks'[u].pc = tasks[u].pc /\ tasks'[u].answer = tasks[u].answer
      BY DEF AllFit, AddedTasks
    <2>2. QED
      BY <2>1 DEF TaskFits, SameTask, PageOf
  <1>2. \A u \in DOMAIN tasks' : TaskFits(tasks'[u])
    BY <1>1 DEF AddedTasks
  <1>3. QED
    BY <1>2 DEF AllFit, TaskFits, PageOf

Row == [generation : 1..MaxTasks, page : Pages, filter : Queries, last : BOOLEAN]

LEMMA RowType ==
    ASSUME NEW r \in TaskState
    PROVE  /\ PageOf(r) \in Row
           /\ PageOf(r).page = IF r.cursor = 0 THEN 1 ELSE r.cursor
           /\ PageOf(r).generation = r.generation
           /\ PageOf(r).filter = IF r.cursor = 0 THEN r.query ELSE NoQuery
           /\ PageOf(r).last = (r.answer = "last")
  <1>1. /\ r.generation \in 1..MaxTasks /\ r.cursor \in {0} \cup Pages /\ r.query \in Queries
    BY DEF TaskState
  <1>2. /\ 1 \in Pages /\ NoQuery \in Queries
    BY ViewModelAssumption DEF Pages
  <1>3. (r.answer = "last") \in BOOLEAN
    OBVIOUS
  <1>4. QED
    BY <1>1, <1>2, <1>3 DEF PageOf, Row

LEMMA RowsType ==
    ASSUME NEW r \in TaskState
    PROVE  /\ RowsOf(r) \in Seq(Row)
           /\ \A s \in Seq(Row) : s \o RowsOf(r) \in Seq(Row)
  <1>1. PageOf(r) \in Row
    BY RowType
  <1>2. RowsOf(r) \in Seq(Row)
    BY <1>1 DEF RowsOf
  <1>3. QED
    BY <1>2

\* What is published has its type after every turn ...
LEMMA EffectType ==
    ASSUME TypeOK, AllFit, NEW t \in DOMAIN tasks, Effect(t)
    PROVE  /\ query' \in Queries /\ summaries' \in Seq(Row)
           /\ selectedMailcart' \in Messages \cup {NoMessage}
           /\ isSearching' \in BOOLEAN /\ isLoadingMore' \in BOOLEAN
           /\ errorMessage' \in {"none", "token", "bridge", "attachment"}
           /\ nextCursor' \in {0} \cup Pages
  <1> DEFINE r == tasks[t]
  <1>r. r \in TaskState /\ TaskFits(r)
    BY TasksDomain DEF AllFit
  <1>1. summaries \in Seq(Row)
    BY DEF TypeOK, Row
  <1>2. r.message \in Messages \cup {NoMessage}
    BY <1>r DEF TaskState
  <1>3. CASE Shows(t)
    <2>1. ShowPage(r) /\ r.pc = "publish"
      BY <1>3 DEF Effect, Shows
    <2>2. summaries' \in Seq(Row)
      BY <1>r, <1>1, <2>1, RowsType DEF ShowPage
    <2>3. nextCursor' \in {0} \cup Pages
      <3>1. PageOf(r).page \in 1..MaxPages
        BY <1>r, RowType DEF Row, Pages
      <3>2. r.answer = "more" => PageOf(r).page + 1 \in 1..MaxPages
        BY <1>r, <2>1, <3>1, ViewModelAssumption DEF TaskFits
      <3>3. QED
        BY <2>1, <3>2 DEF ShowPage, Pages
    <2>4. QED
      BY <1>2, <2>1, <2>2, <2>3 DEF Effect, ShowPage, TypeOK
  <1>4. CASE ~Shows(t)
    BY <1>1, <1>2, <1>4 DEF Effect, TypeOK
  <1>5. QED
    BY <1>3, <1>4

\* The tasks fit what they wait for: the part of the invariant the rest uses.
ViewFits == TypeOK /\ AllFit /\ QueuesFit

\* Nothing happens but, perhaps, an error while an attachment is opened.
Quiet ==
    /\ UNCHANGED <<query, summaries, selectedMailcart, isSearching, isLoadingMore, private, queues>>
    /\ errorMessage' \in {errorMessage, "attachment"}

\* The five things a step can be.
TakesTurn(t, x) ==
    Effect(t) /\ Stepped(t, x) /\ SteppedTasks(t, x)
StartsSearch(value, x) ==
    /\ UpdateQuery(value) /\ AddedTasks(x) /\ x.kind = "search" /\ x.pc = "debounce"
    /\ x.generation = latestSearchGeneration + 1
StartsMore(x) ==
    /\ LoadMoreMailcarts /\ AddedTasks(x) /\ x.kind = "more" /\ x.pc = "request"
    /\ x.generation = latestSearchGeneration /\ x.cursor = nextCursor
StartsRead(messageId, x) ==
    /\ LoadMailcart(messageId) /\ AddedTasks(x) /\ x.kind = "read" /\ x.pc = "request"
    /\ x.generation = latestMessageLoadGeneration + 1 /\ x.message = messageId

Steps ==
    \/ \E t \in DOMAIN tasks : \E x : TakesTurn(t, x)
    \/ \E value \in Queries : \E x : StartsSearch(value, x)
    \/ \E x : StartsMore(x)
    \/ \E messageId \in Messages : \E x : StartsRead(messageId, x)
    \/ Quiet

LEMMA NextSteps == ViewFits /\ [Next]_vars => Steps
  <1> SUFFICES ASSUME ViewFits, [Next]_vars PROVE Steps
    OBVIOUS
  <1>i. TypeOK /\ AllFit /\ QueuesFit
    BY DEF ViewFits
  <1>1. ASSUME NEW t \in DOMAIN tasks, Advance(t) PROVE Steps
    <2>1. Effect(t) /\ \E x : Stepped(t, x)
      BY <1>i, <1>1, AdvanceSteps
    <2>2. PICK x : Stepped(t, x)
      BY <2>1
    <2>3. TakesTurn(t, x)
      BY <1>i, <2>1, <2>2, SteppedKeeps DEF TakesTurn
    <2>4. QED
      BY <2>3 DEF Steps
  <1>2. ASSUME NEW value \in Queries, UpdateQuery(value) PROVE Steps
    <2>1. PICK x : /\ Added(x) /\ x.kind = "search" /\ x.pc = "debounce"
                   /\ x.generation = latestSearchGeneration + 1
      BY <1>i, <1>2, UpdateQueryAdds
    <2>2. StartsSearch(value, x)
      BY <1>i, <1>2, <2>1, AddedKeeps DEF StartsSearch
    <2>3. QED
      BY <2>2 DEF Steps
  <1>3. CASE LoadMoreMailcarts
    <2>1. PICK x : /\ Added(x) /\ x.kind = "more" /\ x.pc = "request"
                   /\ x.generation = latestSearchGeneration /\ x.cursor = nextCursor
      BY <1>i, <1>3, LoadMoreAdds
    <2>2. StartsMore(x)
      BY <1>i, <1>3, <2>1, AddedKeeps DEF StartsMore
    <2>3. QED
      BY <2>2 DEF Steps
  <1>4. ASSUME NEW messageId \in Messages, LoadMailcart(messageId) PROVE Steps
    <2>1. PICK x : /\ Added(x) /\ x.kind = "read" /\ x.pc = "request"
                   /\ x.generation = latestMessageLoadGeneration + 1 /\ x.message = messageId
      BY <1>i, <1>4, LoadMailcartAdds
    <2>2. StartsRead(messageId, x)
      BY <1>i, <1>4, <2>1, AddedKeeps DEF StartsRead
    <2>3. QED
      BY <2>2 DEF Steps
  <1>5. CASE OpenAttachment
    BY <1>5 DEF OpenAttachment, Steps, Quiet
  <1>6. CASE UNCHANGED vars
    BY <1>6 DEF vars, published, Steps, Quiet
  <1>7. QED
    BY <1>1, <1>2, <1>3, <1>4, <1>5, <1>6 DEF Next, UserActs

LEMMA FirstTask ==
    ASSUME Init
    PROVE  /\ tasks \in Seq(TaskState) /\ Len(tasks) = 1 /\ DOMAIN tasks = {1}
           /\ tasks[1] \in TaskState /\ tasks[1].kind = "search" /\ tasks[1].generation = 1
           /\ tasks[1].cursor = 0 /\ tasks[1].pc = "request" /\ ~tasks[1].cancelled
  <1>1. 1 \in 1..MaxTasks /\ "search" \in Kinds
    BY ViewModelAssumption DEF Kinds
  <1>2. PICK x : x = Task("search", 1, 0, NoMessage, "request")
    OBVIOUS
  <1>3. /\ x \in TaskState /\ x.kind = "search" /\ x.generation = 1
        /\ x.cursor = 0 /\ x.pc = "request" /\ ~x.cancelled
    BY <1>1, <1>2, TaskType
  <1>4. tasks = <<x>>
    BY <1>2 DEF Init
  <1>5. QED
    BY <1>3, <1>4

LEMMA InitFits == Init => ViewFits
  <1> SUFFICES ASSUME Init PROVE ViewFits
    OBVIOUS
  <1>1. TypeOK
    <2>1. summaries \in Seq([generation : 1..MaxTasks, page : Pages,
                             filter : Queries, last : BOOLEAN])
      BY DEF Init
    <2>2. mainQueue \in Seq(1..1) /\ bridgeQueue \in Seq(1..1)
      BY DEF Init
    <2>3. /\ Len(tasks) \in 1..MaxTasks /\ searchTask \in 1..Len(tasks)
          /\ latestSearchGeneration \in 1..Len(tasks)
          /\ latestMessageLoadGeneration \in 0..Len(tasks)
      BY FirstTask, ViewModelAssumption DEF Init
    <2>4. /\ mainQueue \in Seq(1..Len(tasks)) /\ bridgeQueue \in Seq(1..Len(tasks))
      BY <2>2, FirstTask
    <2>5. /\ query \in Queries /\ selectedMailcart \in Messages \cup {NoMessage}
          /\ isSearching \in BOOLEAN /\ isLoadingMore \in BOOLEAN
          /\ errorMessage \in {"none", "token", "bridge", "attachment"}
          /\ nextCursor \in {0} \cup Pages
      BY ViewModelAssumption DEF Init
    <2>6. QED
      BY <2>1, <2>3, <2>4, <2>5, FirstTask DEF TypeOK
  <1>2. AllFit
    BY FirstTask DEF AllFit, TaskFits
  <1>3. mainQueue = <<1>> /\ bridgeQueue = <<>>
    BY DEF Init
  <1>4. QueuesFit
    BY <1>3, FirstTask DEF QueuesFit, Once, In, MainPcs
  <1>5. QED
    BY <1>1, <1>2, <1>4 DEF ViewFits

LEMMA NextFits == ViewFits /\ [Next]_vars => ViewFits'
  <1> SUFFICES ASSUME ViewFits, [Next]_vars PROVE ViewFits'
    OBVIOUS
  <1>i. TypeOK /\ AllFit /\ QueuesFit
    BY DEF ViewFits
  <1>1. ASSUME NEW t \in DOMAIN tasks, NEW x, TakesTurn(t, x) PROVE ViewFits'
    <2>1. Effect(t) /\ Stepped(t, x) /\ SteppedTasks(t, x)
      BY <1>1 DEF TakesTurn
    <2>2. AllFit' /\ QueuesFit' /\ QueuesOK'
      BY <1>i, <2>1, SteppedFits, SteppedQueues, SteppedQueueTypes
    <2>3. TypeOK'
      BY <1>i, <2>1, <2>2, EffectType DEF TypeOK, SteppedTasks, QueuesOK, Effect, Row
    <2>4. QED
      BY <2>2, <2>3 DEF ViewFits
  <1>2. ASSUME NEW x, AddedTasks(x) PROVE AllFit' /\ QueuesFit' /\ QueuesOK'
    BY <1>i, <1>2, AddedFits, AddedQueues, AddedQueueTypes
  <1>n. /\ Len(tasks) \in Nat /\ Len(tasks) \in 1..MaxTasks
        /\ latestSearchGeneration \in 1..Len(tasks) /\ latestMessageLoadGeneration \in 0..Len(tasks)
    BY <1>i DEF TypeOK
  <1>3. ASSUME NEW value \in Queries, NEW x, StartsSearch(value, x) PROVE ViewFits'
    <2>1. AddedTasks(x) /\ UpdateQuery(value)
      BY <1>3 DEF StartsSearch
    <2>2. /\ tasks' \in Seq(TaskState) /\ Len(tasks') = Len(tasks) + 1
          /\ Len(tasks') \in 1..MaxTasks
      BY <1>n, <2>1, ViewModelAssumption DEF AddedTasks
    <2>3. /\ latestSearchGeneration' \in 1..Len(tasks') /\ searchTask' \in 1..Len(tasks')
          /\ latestMessageLoadGeneration' \in 0..Len(tasks')
      BY <1>n, <2>1, <2>2 DEF UpdateQuery
    <2>4. /\ query' \in Queries /\ selectedMailcart' \in Messages \cup {NoMessage}
          /\ isSearching' \in BOOLEAN /\ isLoadingMore' \in BOOLEAN
          /\ errorMessage' \in {"none", "token", "bridge", "attachment"}
          /\ nextCursor' \in {0} \cup Pages /\ UNCHANGED summaries
      BY <1>i, <2>1 DEF UpdateQuery, TypeOK
    <2>5. TypeOK'
      BY <1>i, <1>2, <2>1, <2>2, <2>3, <2>4 DEF TypeOK, QueuesOK
    <2>6. QED
      BY <1>2, <2>1, <2>5 DEF ViewFits
  <1>4. ASSUME NEW x, StartsMore(x) PROVE ViewFits'
    <2>1. AddedTasks(x) /\ LoadMoreMailcarts
      BY <1>4 DEF StartsMore
    <2>2. TypeOK'
      BY <1>i, <1>n, <1>2, <2>1 DEF TypeOK, QueuesOK, AddedTasks, LoadMoreMailcarts
    <2>3. QED
      BY <1>2, <2>1, <2>2 DEF ViewFits
  <1>5. ASSUME NEW messageId \in Messages, NEW x, StartsRead(messageId, x) PROVE ViewFits'
    <2>1. AddedTasks(x) /\ LoadMailcart(messageId)
      BY <1>5 DEF StartsRead
    <2>2. TypeOK'
      BY <1>i, <1>n, <1>2, <2>1 DEF TypeOK, QueuesOK, AddedTasks, LoadMailcart, published
    <2>3. QED
      BY <1>2, <2>1, <2>2 DEF ViewFits
  <1>6. CASE Quiet
    BY <1>i, <1>6 DEF Quiet, private, queues, ViewFits, TypeOK, AllFit, TaskFits, PageOf, QueuesFit
  <1>7. Steps
    BY NextSteps
  <1>8. QED
    BY <1>1, <1>3, <1>4, <1>5, <1>6, <1>7 DEF Steps

\* Spec keeps every task and queue in a shape the code produces.
LEMMA ViewAlwaysFits == Spec => []ViewFits
  BY InitFits, NextFits, PTL DEF Spec

\* Every variable of the window's model has its type in every reachable state
\* (OutlookMailViewModel.swift), for any number of tasks, pages and messages.
THEOREM ViewTypeCorrect == Spec => []TypeOK
  <1>1. ViewFits => TypeOK
    BY DEF ViewFits
  <1>2. QED
    BY <1>1, ViewAlwaysFits, PTL

-----------------------------------------------------------------------------
(* Rows                                                                    *)

LEMMA AppendRow ==
    ASSUME NEW s \in Seq(Row), NEW row \in Row
    PROVE  /\ Len(s \o <<row>>) = Len(s) + 1 /\ Len(s) \in Nat
           /\ (s \o <<row>>)[Len(s) + 1] = row /\ s \o <<row>> # <<>>
           /\ \A k \in 1..Len(s) : (s \o <<row>>)[k] = s[k]
           /\ DOMAIN (s \o <<row>>) = 1..Len(s) + 1
           /\ <<row>> # <<>> /\ Len(<<row>>) = 1 /\ <<row>>[1] = row /\ DOMAIN <<row>> = {1}
  OBVIOUS

-----------------------------------------------------------------------------
(* The detail is that of the message selected last                         *)

\* Reads are numbered in the order of the selections.
ReadsInv ==
    /\ \A t \in DOMAIN tasks :
          tasks[t].kind = "read" => tasks[t].generation <= latestMessageLoadGeneration
    /\ \A t, u \in DOMAIN tasks :
          /\ tasks[t].kind = "read" /\ tasks[u].kind = "read"
          /\ tasks[t].generation = tasks[u].generation
          => t = u
    /\ DetailIsOfLastSelection

LEMMA TurnReads ==
    ASSUME ViewFits, ReadsInv, NEW t \in DOMAIN tasks, NEW x, TakesTurn(t, x)
    PROVE  ReadsInv'
  <1>1. /\ Effect(t) /\ SameTask(x, tasks[t]) /\ Route(tasks[t].pc, x.pc)
        /\ DOMAIN tasks' = DOMAIN tasks /\ tasks'[t] = x
        /\ \A u \in DOMAIN tasks \ {t} : tasks'[u] = tasks[u]
    BY DEF TakesTurn, Stepped, SteppedTasks
  <1>2. \A u \in DOMAIN tasks : SameTask(tasks'[u], tasks[u])
    BY <1>1 DEF SameTask
  <1>3. latestMessageLoadGeneration' = latestMessageLoadGeneration
    BY <1>1 DEF Effect
  <1>4. ASSUME NEW u \in DOMAIN tasks, tasks[u].kind = "read",
               tasks[u].generation = latestMessageLoadGeneration, tasks'[u].pc = "done"
        PROVE  selectedMailcart' = tasks[u].message
    <2>1. CASE u = t
      <3>1. tasks[t].pc = "publish"
        BY <1>1, <1>4, <2>1 DEF Route, TakesTurn, ViewFits, AllFit, TaskFits
      <3>2. QED
        BY <1>1, <1>4, <2>1, <3>1 DEF Effect
    <2>2. CASE u # t
      <3>1. tasks[u].pc = "done" /\ selectedMailcart = tasks[u].message
        BY <1>1, <1>4, <2>2 DEF ReadsInv, DetailIsOfLastSelection
      <3>2. ~(tasks[t].kind = "read" /\ tasks[t].generation = latestMessageLoadGeneration)
        BY <1>4, <2>2 DEF ReadsInv
      <3>3. QED
        BY <1>1, <3>1, <3>2 DEF Effect
    <2>3. QED
      BY <2>1, <2>2
  <1>5. DetailIsOfLastSelection'
    BY <1>1, <1>2, <1>3, <1>4 DEF DetailIsOfLastSelection, SameTask
  <1>6. QED
    BY <1>1, <1>2, <1>3, <1>5 DEF ReadsInv, SameTask

\* Tasks that are no reads do not matter, nor does a new read to the old ones.
LEMMA StartReads ==
    ASSUME ViewFits, ReadsInv, NEW x, AddedTasks(x), UNCHANGED selectedMailcart,
           \/ x.kind # "read" /\ UNCHANGED latestMessageLoadGeneration
           \/ /\ x.kind = "read" /\ x.generation = latestMessageLoadGeneration + 1
              /\ latestMessageLoadGeneration' = latestMessageLoadGeneration + 1
    PROVE  ReadsInv'
  <1> DEFINE n == Len(tasks) + 1
  <1>1. /\ DOMAIN tasks' = DOMAIN tasks \cup {n} /\ n \notin DOMAIN tasks /\ tasks'[n] = x
        /\ \A u \in DOMAIN tasks : SameTask(tasks'[u], tasks[u]) /\ tasks'[u].pc = tasks[u].pc
        /\ x.pc # "done"
    BY DEF AddedTasks
  <1> HIDE DEF n
  <1>2. /\ latestMessageLoadGeneration \in Nat
        /\ \A u \in DOMAIN tasks : tasks[u].generation \in Nat
    BY TasksDomain DEF ViewFits, TypeOK, TaskState
  <1>3. \A u \in DOMAIN tasks : tasks[u].kind = "read" =>
            /\ tasks[u].generation <= latestMessageLoadGeneration
            /\ x.kind = "read" => tasks[u].generation # x.generation
                                  /\ tasks[u].generation # latestMessageLoadGeneration'
    BY <1>2 DEF ReadsInv
  <1>4. DetailIsOfLastSelection'
    BY <1>1, <1>3 DEF ReadsInv, DetailIsOfLastSelection, SameTask
  <1>5. QED
    BY <1>1, <1>2, <1>3, <1>4 DEF ReadsInv, SameTask

LEMMA NextReads == ViewFits /\ ReadsInv /\ [Next]_vars => ReadsInv'
  <1> SUFFICES ASSUME ViewFits, ReadsInv, [Next]_vars PROVE ReadsInv'
    OBVIOUS
  <1>1. ASSUME NEW t \in DOMAIN tasks, NEW x, TakesTurn(t, x) PROVE ReadsInv'
    BY <1>1, TurnReads
  <1>2. ASSUME NEW value \in Queries, NEW x, StartsSearch(value, x) PROVE ReadsInv'
    BY <1>2, StartReads DEF StartsSearch, UpdateQuery
  <1>3. ASSUME NEW x, StartsMore(x) PROVE ReadsInv'
    BY <1>3, StartReads DEF StartsMore, LoadMoreMailcarts
  <1>4. ASSUME NEW messageId \in Messages, NEW x, StartsRead(messageId, x) PROVE ReadsInv'
    BY <1>4, StartReads DEF StartsRead, LoadMailcart, published
  <1>5. CASE Quiet
    BY <1>5 DEF Quiet, private, queues, ReadsInv, DetailIsOfLastSelection
  <1>6. QED
    BY <1>1, <1>2, <1>3, <1>4, <1>5, NextSteps DEF Steps

\* Late answers of other reads do not replace the message selected last
\* (loadMailcart's generation check), however many reads are on their way.
THEOREM LastSelectionIsShown == Spec => []DetailIsOfLastSelection
  <1>1. Init => ReadsInv
    BY FirstTask DEF ReadsInv, DetailIsOfLastSelection
  <1>2. ReadsInv => DetailIsOfLastSelection
    BY DEF ReadsInv
  <1>3. QED
    BY <1>1, <1>2, NextReads, ViewAlwaysFits, PTL DEF Spec

-----------------------------------------------------------------------------
(* Searches are numbered                                                   *)

Searches == {t \in DOMAIN tasks : tasks[t].kind = "search"}
Mores == {t \in DOMAIN tasks : tasks[t].kind = "more"}
Latest(t) == tasks[t].generation = latestSearchGeneration

\* One search has the latest generation, nobody has a later one, and what has
\* been cancelled is superseded.
GenerationsFit ==
    /\ \A t \in Searches \cup Mores :
          /\ tasks[t].generation <= latestSearchGeneration
          /\ tasks[t].cancelled => tasks[t].generation < latestSearchGeneration
    /\ \A t, u \in Searches : tasks[t].generation = tasks[u].generation => t = u
    /\ \E t \in Searches : Latest(t)

\* The fields and counters the above is about do not change in a turn.
LEMMA TurnKeeps ==
    ASSUME NEW t \in DOMAIN tasks, NEW x, TakesTurn(t, x)
    PROVE  /\ DOMAIN tasks' = DOMAIN tasks /\ Searches' = Searches /\ Mores' = Mores
           /\ latestSearchGeneration' = latestSearchGeneration /\ query' = query
           /\ tasks'[t] = x /\ Route(tasks[t].pc, x.pc) /\ SameTask(x, tasks[t])
           /\ \A u \in DOMAIN tasks \ {t} : tasks'[u] = tasks[u]
           /\ \A u \in DOMAIN tasks : /\ SameTask(tasks'[u], tasks[u])
                                      /\ tasks'[u].cancelled = tasks[u].cancelled
                                      /\ Latest(u)' <=> Latest(u)
  <1>1. /\ Effect(t) /\ SameTask(x, tasks[t]) /\ x.cancelled = tasks[t].cancelled
        /\ DOMAIN tasks' = DOMAIN tasks /\ tasks'[t] = x /\ Route(tasks[t].pc, x.pc)
        /\ \A u \in DOMAIN tasks \ {t} : tasks'[u] = tasks[u]
    BY DEF TakesTurn, Stepped, SteppedTasks
  <1>2. \A u \in DOMAIN tasks : /\ SameTask(tasks'[u], tasks[u])
                                /\ tasks'[u].cancelled = tasks[u].cancelled
    BY <1>1 DEF SameTask
  <1>3. Searches' = Searches /\ Mores' = Mores
    BY <1>1, <1>2 DEF Searches, Mores, SameTask
  <1>4. latestSearchGeneration' = latestSearchGeneration /\ query' = query
    BY <1>1 DEF Effect
  <1>5. \A u \in DOMAIN tasks : Latest(u)' <=> Latest(u)
    BY <1>2, <1>4 DEF Latest, SameTask
  <1>6. QED
    BY <1>1, <1>2, <1>3, <1>4, <1>5

\* A new task is added to those of its kind.
LEMMA StartKeeps ==
    ASSUME ViewFits, NEW x, AddedTasks(x)
    PROVE  LET n == Len(tasks) + 1
           IN  /\ n \notin DOMAIN tasks /\ DOMAIN tasks' = DOMAIN tasks \cup {n}
               /\ tasks'[n] = x
               /\ Searches' = Searches \cup (IF x.kind = "search" THEN {n} ELSE {})
               /\ Mores' = Mores \cup (IF x.kind = "more" THEN {n} ELSE {})
               /\ \A u \in DOMAIN tasks : /\ SameTask(tasks'[u], tasks[u])
                                          /\ tasks'[u].pc = tasks[u].pc
                                          /\ tasks'[u].generation = tasks[u].generation
                                          /\ tasks'[u].query = tasks[u].query
  <1> DEFINE n == Len(tasks) + 1
  <1>1. /\ n \notin DOMAIN tasks /\ DOMAIN tasks' = DOMAIN tasks \cup {n} /\ tasks'[n] = x
        /\ \A u \in DOMAIN tasks : /\ SameTask(tasks'[u], tasks[u])
                                   /\ tasks'[u].pc = tasks[u].pc
                                   /\ tasks'[u].query = tasks[u].query
    BY DEF AddedTasks
  <1> HIDE DEF n
  <1>2. /\ Searches' = Searches \cup (IF x.kind = "search" THEN {n} ELSE {})
        /\ Mores' = Mores \cup (IF x.kind = "more" THEN {n} ELSE {})
    BY <1>1 DEF Searches, Mores, SameTask
  <1>3. \A u \in DOMAIN tasks : tasks'[u].generation = tasks[u].generation
    BY <1>1 DEF SameTask
  <1>4. QED
    BY <1>1, <1>2, <1>3 DEF n

LEMMA GenerationTypes ==
    ASSUME ViewFits
    PROVE  /\ latestSearchGeneration \in Nat
           /\ \A t \in DOMAIN tasks : tasks[t].generation \in Nat
           /\ Searches \subseteq DOMAIN tasks /\ Mores \subseteq DOMAIN tasks
           /\ Searches \cap Mores = {}
  BY TasksDomain DEF ViewFits, TypeOK, TaskState, Searches, Mores

LEMMA NextGenerations == ViewFits /\ GenerationsFit /\ [Next]_vars => GenerationsFit'
  <1> SUFFICES ASSUME ViewFits, GenerationsFit, [Next]_vars PROVE GenerationsFit'
    OBVIOUS
  <1>g. /\ latestSearchGeneration \in Nat /\ \A t \in DOMAIN tasks : tasks[t].generation \in Nat
        /\ Searches \subseteq DOMAIN tasks /\ Mores \subseteq DOMAIN tasks
    BY GenerationTypes
  <1>1. ASSUME NEW t \in DOMAIN tasks, NEW x, TakesTurn(t, x) PROVE GenerationsFit'
    BY <1>g, <1>1, TurnKeeps DEF GenerationsFit, SameTask, Latest
  <1>2. ASSUME NEW value \in Queries, NEW x, StartsSearch(value, x) PROVE GenerationsFit'
    <2> DEFINE n == Len(tasks) + 1
    <2>1. /\ AddedTasks(x) /\ x.kind = "search" /\ x.generation = latestSearchGeneration + 1
          /\ latestSearchGeneration' = latestSearchGeneration + 1 /\ ~x.cancelled
      BY <1>2 DEF StartsSearch, UpdateQuery, AddedTasks
    <2>2. /\ n \notin DOMAIN tasks /\ tasks'[n] = x
          /\ Searches' = Searches \cup {n} /\ Mores' = Mores
          /\ \A u \in DOMAIN tasks : tasks'[u].generation = tasks[u].generation
      BY <2>1, StartKeeps
    <2> HIDE DEF n
    <2>3. \A t \in Searches \cup Mores : tasks'[t].generation < latestSearchGeneration'
      BY <1>g, <2>1, <2>2 DEF GenerationsFit
    <2>4. tasks'[n].generation = latestSearchGeneration' /\ ~tasks'[n].cancelled
      BY <2>1, <2>2
    <2>5. \A t \in (Searches \cup Mores)' :
             /\ tasks'[t].generation <= latestSearchGeneration'
             /\ tasks'[t].cancelled => tasks'[t].generation < latestSearchGeneration'
      BY <1>g, <2>1, <2>2, <2>3, <2>4
    <2>6. \A t, u \in Searches' : tasks'[t].generation = tasks'[u].generation => t = u
      BY <1>g, <2>1, <2>2, <2>3, <2>4 DEF GenerationsFit
    <2>7. QED
      BY <2>2, <2>4, <2>5, <2>6 DEF GenerationsFit, Latest
  <1>3. ASSUME NEW x, AddedTasks(x), x.kind # "search", UNCHANGED latestSearchGeneration,
               x.kind = "more" => x.generation = latestSearchGeneration
        PROVE  GenerationsFit'
    <2> DEFINE n == Len(tasks) + 1
    <2>1. /\ n \notin DOMAIN tasks /\ tasks'[n] = x /\ Searches' = Searches
          /\ Mores' = Mores \cup (IF x.kind = "more" THEN {n} ELSE {})
          /\ \A u \in DOMAIN tasks : tasks'[u].generation = tasks[u].generation
      BY <1>3, StartKeeps
    <2> HIDE DEF n
    <2>2. /\ ~x.cancelled
          /\ \A u \in DOMAIN tasks : tasks'[u].cancelled => tasks[u].cancelled
      BY <1>3 DEF AddedTasks
    <2>3. QED
      BY <1>g, <1>3, <2>1, <2>2 DEF GenerationsFit, Latest
  <1>4. ASSUME NEW x, StartsMore(x) PROVE GenerationsFit'
    BY <1>3, <1>4 DEF StartsMore, LoadMoreMailcarts
  <1>5. ASSUME NEW messageId \in Messages, NEW x, StartsRead(messageId, x)
        PROVE  GenerationsFit'
    BY <1>3, <1>5 DEF StartsRead, LoadMailcart
  <1>6. CASE Quiet
    BY <1>6 DEF Quiet, private, queues, GenerationsFit, Searches, Mores, Latest
  <1>7. QED
    BY <1>1, <1>2, <1>4, <1>5, <1>6, NextSteps DEF Steps

LEMMA InitGenerations == Init => GenerationsFit
  <1> SUFFICES ASSUME Init PROVE GenerationsFit
    OBVIOUS
  <1>1. Searches = {1} /\ Mores = {} /\ Latest(1) /\ latestSearchGeneration = 1
    BY FirstTask DEF Init, Searches, Mores, Latest
  <1>2. QED
    BY <1>1, FirstTask DEF GenerationsFit

\* Of the searches and "load more" tasks, those of the latest generation are
\* the current ones.
LEMMA CurrentIsLatest ==
    ASSUME ViewFits, GenerationsFit, NEW t \in Searches \cup Mores
    PROVE  isCurrent(tasks[t]) <=> Latest(t)
  BY GenerationTypes DEF GenerationsFit, isCurrent, Latest

-----------------------------------------------------------------------------
(* A later search does not overtake a page that is still wanted elsewhere  *)

\* Task t is a "load more" that an edit has superseded before search u started.
Order(t, u) ==
    /\ tasks[t].pc = "request" => tasks[u].pc = "debounce" /\ Ahead(t, u, mainQueue)
    /\ tasks[t].pc = "bridge" =>
          /\ tasks[u].pc \in {"debounce", "sleep", "request", "bridge"}
          /\ Ahead(t, u, bridgeQueue)
    /\ tasks[t].pc = "publish" =>
          /\ tasks[u].pc \in {"debounce", "sleep", "request", "bridge", "publish"}
          /\ tasks[u].pc = "publish" => Ahead(t, u, mainQueue)

NobodyOvertakes ==
    \A t \in Mores, u \in Searches : tasks[t].generation < tasks[u].generation => Order(t, u)

LEMMA AppendAbsent ==
    ASSUME NEW S, NEW q \in Seq(S), NEW z, NEW x, NEW y, ~In(y, q), y # z
    PROVE  Ahead(x, y, Append(q, z))
  <1>1. /\ Len(Append(q, z)) = Len(q) + 1 /\ Len(q) \in Nat
        /\ \A i \in 1..Len(q) : Append(q, z)[i] = q[i]
        /\ Append(q, z)[Len(q) + 1] = z
    OBVIOUS
  <1>2. QED
    BY <1>1 DEF Ahead, In

LEMMA TurnOrder ==
    ASSUME ViewFits, NEW v \in DOMAIN tasks, NEW x, TakesTurn(v, x),
           NEW t \in Mores, NEW u \in Searches, Order(t, u)
    PROVE  Order(t, u)'
  <1>k. /\ t \in DOMAIN tasks /\ u \in DOMAIN tasks /\ t # u
        /\ tasks[t].pc # "sleep"
    BY DEF Mores, Searches, ViewFits, AllFit, TaskFits
  <1> DEFINE M == mainQueue
             B == bridgeQueue
             pt == tasks[t].pc
             pu == tasks[u].pc
  <1>q. M \in Seq(1..Len(tasks)) /\ B \in Seq(1..Len(tasks))
    BY DEF ViewFits, TypeOK
  <1>i. \A w \in DOMAIN tasks : /\ In(w, M) <=> tasks[w].pc \in MainPcs
                                /\ In(w, B) <=> tasks[w].pc = "bridge"
    BY DEF ViewFits, QueuesFit
  <1>s. /\ tasks'[v] = x /\ Route(tasks[v].pc, x.pc)
        /\ \A w \in DOMAIN tasks \ {v} : tasks'[w] = tasks[w]
    BY DEF TakesTurn, Stepped, SteppedTasks
  <1>m. /\ tasks[v].pc \in MainPcs => M # <<>> /\ v = Head(M) /\ M' = Tail(M)
        /\ tasks[v].pc \notin MainPcs /\ x.pc \in MainPcs => M' = Append(M, v)
        /\ tasks[v].pc \notin MainPcs /\ x.pc \notin MainPcs => M' = M
    BY DEF TakesTurn, Stepped
  <1>b. /\ tasks[v].pc = "bridge" => B # <<>> /\ v = Head(B) /\ B' = Tail(B)
        /\ tasks[v].pc # "bridge" /\ x.pc = "bridge" => B' = Append(B, v)
        /\ tasks[v].pc # "bridge" /\ x.pc # "bridge" => B' = B
    BY DEF TakesTurn, Stepped
  <1>1. CASE v # t /\ v # u
    <2>1. pt' = pt /\ pu' = pu
      BY <1>s, <1>k, <1>1
    <2>2. Ahead(t, u, M) => Ahead(t, u, M')
      <3>1. M # <<>> => (Ahead(t, u, M) => Ahead(t, u, Tail(M)))
        BY <1>q, TailIn
      <3>2. Ahead(t, u, M) => Ahead(t, u, Append(M, v))
        BY <1>q, <1>1, AppendAhead
      <3>3. QED
        BY <1>m, <3>1, <3>2
    <2>3. Ahead(t, u, B) => Ahead(t, u, B')
      <3>1. B # <<>> => (Ahead(t, u, B) => Ahead(t, u, Tail(B)))
        BY <1>q, TailIn
      <3>2. Ahead(t, u, B) => Ahead(t, u, Append(B, v))
        BY <1>q, <1>1, AppendAhead
      <3>3. QED
        BY <1>b, <3>1, <3>2
    <2>4. QED
      BY <2>1, <2>2, <2>3 DEF Order
  <1>2. CASE v = t
    <2>1. pt' = x.pc /\ pu' = pu
      BY <1>s, <1>k, <1>2
    <2>2. CASE x.pc = "bridge"
      <3>1. pt = "request" /\ pu = "debounce" /\ B' = Append(B, t)
        BY <1>s, <1>b, <1>2, <2>2 DEF Route, Order
      <3>2. ~In(u, B)
        BY <1>i, <1>k, <3>1
      <3>3. Ahead(t, u, B')
        BY <1>q, <3>1, <3>2, AppendAbsent
      <3>4. QED
        BY <2>1, <2>2, <3>1, <3>3 DEF Order
    <2>3. CASE x.pc = "publish"
      <3>1. pt = "bridge"
        BY <1>s, <1>2, <2>3 DEF Route
      <3>2. QED
        BY <2>1, <2>3, <3>1 DEF Order
    <2>4. CASE x.pc = "request"
      <3>1. pt = "sleep"
        BY <1>s, <1>2, <2>4 DEF Route
      <3>2. QED
        BY <1>k, <3>1
    <2>5. CASE x.pc \notin {"request", "bridge", "publish"}
      BY <2>1, <2>5 DEF Order
    <2>6. QED
      BY <2>2, <2>3, <2>4, <2>5
  <1>3. CASE v = u
    <2>1. pt' = pt /\ pu' = x.pc
      BY <1>s, <1>k, <1>3
    <2>2. pt # "request"
      <3>1. SUFFICES ASSUME pt = "request" PROVE FALSE
        OBVIOUS
      <3>2. pu \in MainPcs /\ Ahead(t, u, M) /\ In(t, M)
        BY <1>i, <1>k, <3>1 DEF Order, MainPcs
      <3>3. QED
        BY <1>q, <1>m, <1>3, <3>2, NotHead
    <2>3. CASE pt = "bridge"
      <3>1. /\ pu \in {"debounce", "sleep", "request", "bridge"} /\ Ahead(t, u, B) /\ In(t, B)
        BY <1>i, <1>k, <2>3 DEF Order
      <3>2. pu # "bridge"
        BY <1>q, <1>b, <1>3, <3>1, NotHead
      <3>3. x.pc \in {"sleep", "request", "bridge"}
        BY <1>s, <1>3, <3>1, <3>2 DEF Route
      <3>4. ~In(u, B)
        BY <1>i, <1>k, <3>2
      <3>5. Ahead(t, u, B')
        BY <1>q, <1>b, <1>3, <3>1, <3>2, <3>4, AppendAhead
      <3>6. QED
        BY <2>1, <2>3, <3>3, <3>5 DEF Order
    <2>4. CASE pt = "publish"
      <3>1. pu # "publish"
        <4>1. SUFFICES ASSUME pu = "publish" PROVE FALSE
          OBVIOUS
        <4>2. pu \in MainPcs /\ Ahead(t, u, M) /\ In(t, M)
          BY <1>i, <1>k, <2>4, <4>1 DEF Order, MainPcs
        <4>3. QED
          BY <1>q, <1>m, <1>3, <4>2, NotHead
      <3>2. pu \in {"debounce", "sleep", "request", "bridge"}
        BY <2>4, <3>1 DEF Order
      <3>3. x.pc \in {"sleep", "request", "bridge", "publish"}
        BY <1>s, <1>3, <3>2 DEF Route
      <3>4. x.pc = "publish" => Ahead(t, u, M')
        <4>1. SUFFICES ASSUME x.pc = "publish" PROVE Ahead(t, u, M')
          OBVIOUS
        <4>2. pu = "bridge"
          BY <1>s, <1>3, <4>1 DEF Route
        <4>3. ~In(u, M)
          BY <1>i, <1>k, <4>2 DEF MainPcs
        <4>4. M' = Append(M, u)
          BY <1>m, <1>3, <4>1, <4>2 DEF MainPcs
        <4>5. QED
          BY <1>q, <1>k, <4>3, <4>4, AppendAhead
      <3>5. QED
        BY <2>1, <2>4, <3>3, <3>4 DEF Order
    <2>5. CASE pt \notin {"request", "bridge", "publish"}
      BY <2>1, <2>5 DEF Order
    <2>6. QED
      BY <2>2, <2>3, <2>4, <2>5
  <1>4. QED
    BY <1>1, <1>2, <1>3

\* A task that starts joins the main queue behind the others.
LEMMA StartOrder ==
    ASSUME ViewFits, NEW x, AddedTasks(x), NEW t \in DOMAIN tasks, NEW u \in DOMAIN tasks,
           Order(t, u)
    PROVE  Order(t, u)'
  <1> DEFINE n == Len(tasks) + 1
  <1>1. /\ mainQueue \in Seq(1..Len(tasks)) /\ n # t /\ mainQueue' = Append(mainQueue, n)
        /\ bridgeQueue' = bridgeQueue
    BY DEF ViewFits, TypeOK, AddedTasks
  <1>2. tasks'[t].pc = tasks[t].pc /\ tasks'[u].pc = tasks[u].pc
    BY StartKeeps
  <1> HIDE DEF n
  <1>3. Ahead(t, u, mainQueue) => Ahead(t, u, mainQueue')
    BY <1>1, AppendAhead
  <1>4. QED
    BY <1>1, <1>2, <1>3 DEF Order

LEMMA NextOrder ==
    ViewFits /\ GenerationsFit /\ NobodyOvertakes /\ [Next]_vars => NobodyOvertakes'
  <1> SUFFICES ASSUME ViewFits, GenerationsFit, NobodyOvertakes, [Next]_vars,
                      NEW t \in Mores', NEW u \in Searches',
                      tasks'[t].generation < tasks'[u].generation
               PROVE  Order(t, u)'
    BY DEF NobodyOvertakes
  <1>g. /\ latestSearchGeneration \in Nat /\ \A v \in DOMAIN tasks : tasks[v].generation \in Nat
        /\ Searches \subseteq DOMAIN tasks /\ Mores \subseteq DOMAIN tasks
    BY GenerationTypes
  <1>1. ASSUME NEW v \in DOMAIN tasks, NEW x, TakesTurn(v, x) PROVE Order(t, u)'
    <2>1. t \in Mores /\ u \in Searches /\ tasks[t].generation < tasks[u].generation
      BY <1>g, <1>1, TurnKeeps DEF SameTask
    <2>2. Order(t, u)
      BY <2>1 DEF NobodyOvertakes
    <2>3. QED
      BY <1>1, <2>1, <2>2, TurnOrder
  <1>2. ASSUME NEW x, AddedTasks(x), t \in Mores, u \in Searches PROVE Order(t, u)'
    <2>1. tasks[t].generation < tasks[u].generation
      BY <1>g, <1>2, StartKeeps
    <2>2. QED
      BY <1>g, <1>2, <2>1, StartOrder DEF NobodyOvertakes
  <1>3. ASSUME NEW value \in Queries, NEW x, StartsSearch(value, x) PROVE Order(t, u)'
    <2> DEFINE n == Len(tasks) + 1
    <2>1. AddedTasks(x) /\ x.kind = "search" /\ x.pc = "debounce"
      BY <1>3 DEF StartsSearch
    <2>2. /\ t \in Mores /\ u \in Searches \cup {n} /\ n \notin DOMAIN tasks
          /\ tasks'[n] = x /\ tasks'[t].pc = tasks[t].pc
      BY <1>g, <2>1, StartKeeps
    <2>3. CASE u = n
      <3>1. /\ mainQueue \in Seq(1..Len(tasks)) /\ bridgeQueue \in Seq(1..Len(tasks))
        BY DEF ViewFits, TypeOK
      <3>2. ~In(n, mainQueue) /\ ~In(n, bridgeQueue)
        BY <3>1, TasksDomain DEF In, ViewFits
      <3>3. /\ mainQueue' = Append(mainQueue, n) /\ bridgeQueue' = bridgeQueue /\ t # n
        BY <1>g, <2>1, <2>2 DEF AddedTasks
      <3> HIDE DEF n
      <3>4. Ahead(t, n, mainQueue')
        BY <3>1, <3>2, <3>3, AppendAhead
      <3>5. Ahead(t, n, bridgeQueue')
        BY <3>1, <3>2, <3>3 DEF Ahead, In
      <3>6. QED
        BY <2>1, <2>2, <2>3, <3>4, <3>5 DEF Order
    <2>4. QED
      BY <1>2, <2>1, <2>2, <2>3
  <1>4. ASSUME NEW x, StartsMore(x) PROVE Order(t, u)'
    <2> DEFINE n == Len(tasks) + 1
    <2>1. AddedTasks(x) /\ x.kind = "more" /\ x.generation = latestSearchGeneration
      BY <1>4 DEF StartsMore
    <2>2. /\ t \in Mores \cup {n} /\ u \in Searches /\ tasks'[n] = x
          /\ tasks'[u].generation = tasks[u].generation
      BY <1>g, <2>1, StartKeeps
    <2>3. t # n
      BY <1>g, <2>1, <2>2 DEF GenerationsFit
    <2>4. QED
      BY <1>2, <2>1, <2>2, <2>3
  <1>5. ASSUME NEW messageId \in Messages, NEW x, StartsRead(messageId, x) PROVE Order(t, u)'
    <2>1. AddedTasks(x) /\ x.kind = "read"
      BY <1>5 DEF StartsRead
    <2>2. t \in Mores /\ u \in Searches
      BY <2>1, StartKeeps
    <2>3. QED
      BY <1>2, <2>1, <2>2
  <1>6. CASE Quiet
    BY <1>6 DEF Quiet, private, queues, NobodyOvertakes, Searches, Mores, Order
  <1>7. QED
    BY <1>1, <1>3, <1>4, <1>5, <1>6, NextSteps DEF Steps

-----------------------------------------------------------------------------
(* The spinners                                                            *)

Works(t) == tasks[t].pc # "done"

SpinnersInv ==
    /\ isSearching <=> \E t \in Searches : Latest(t) /\ Works(t)
    /\ \A t \in Mores : Latest(t) => ~isSearching
    /\ isLoadingMore <=> \E t \in Mores : Latest(t) /\ Works(t)
    /\ \A t, u \in Mores : Latest(t) /\ Works(t) /\ u # t => ~Works(u)

LEMMA TurnSpinners ==
    ASSUME ViewFits, GenerationsFit, SpinnersInv, NEW t \in DOMAIN tasks, NEW x, TakesTurn(t, x)
    PROVE  SpinnersInv'
  <1>k. /\ Searches' = Searches /\ Mores' = Mores
        /\ tasks'[t] = x /\ Route(tasks[t].pc, x.pc) /\ SameTask(x, tasks[t])
        /\ \A u \in DOMAIN tasks \ {t} : tasks'[u] = tasks[u]
        /\ \A u \in DOMAIN tasks : Latest(u)' <=> Latest(u)
    BY TurnKeeps
  <1>d. Searches \subseteq DOMAIN tasks /\ Mores \subseteq DOMAIN tasks
        /\ Searches \cap Mores = {}
    BY GenerationTypes
  <1>e. Effect(t)
    BY DEF TakesTurn
  <1>f. TaskFits(tasks[t]) /\ tasks[t] \in TaskState
    BY TasksDomain DEF ViewFits, AllFit
  <1>p. tasks[t].pc = "publish" => (x.pc = "hop" <=> t \in Mores)
    BY DEF TakesTurn, Stepped, Mores, SameTask
  <1>w. /\ Works(t)
        /\ t \in Mores => (Works(t)' <=> tasks[t].pc # "tail")
        /\ t \in Searches => (Works(t)' <=> tasks[t].pc # "publish")
    BY <1>k, <1>d, <1>f, <1>p DEF Works, Route, TaskFits, Searches, Mores
  <1>o. \A u \in DOMAIN tasks \ {t} : Works(u)' <=> Works(u)
    BY <1>k DEF Works
  <1>s. Shows(t) <=> tasks[t].pc = "publish" /\ t \in Searches \cup Mores /\ Latest(t)
    BY <1>f, CurrentIsLatest DEF Shows, Searches, Mores, TaskState, Kinds
  <1>1. isSearching' <=> \E u \in Searches' : Latest(u)' /\ Works(u)'
    <2>1. CASE Shows(t)
      <3>1. isSearching' = FALSE
        BY <1>e, <2>1 DEF Effect, ShowPage
      <3>2. ASSUME NEW u \in Searches, Latest(u), Works(u)' PROVE FALSE
        <4>1. CASE t \in Searches
          <5>1. u = t
            BY <1>s, <2>1, <3>2, <4>1 DEF GenerationsFit, Latest
          <5>2. QED
            BY <1>w, <2>1, <3>2, <5>1 DEF Shows
        <4>2. CASE t \in Mores
          BY <1>d, <1>o, <1>s, <2>1, <3>2, <4>2 DEF SpinnersInv
        <4>3. QED
          BY <1>s, <2>1, <4>1, <4>2
      <3>3. QED
        BY <1>k, <1>d, <3>1, <3>2
    <2>2. CASE ~Shows(t)
      <3>1. isSearching' = isSearching
        BY <1>e, <2>2 DEF Effect
      <3>2. \A u \in Searches : Latest(u) => (Works(u)' <=> Works(u))
        BY <1>d, <1>w, <1>o, <1>s, <2>2
      <3>3. QED
        BY <1>k, <1>d, <3>1, <3>2 DEF SpinnersInv
    <2>3. QED
      BY <2>1, <2>2
  <1>2. \A u \in Mores' : Latest(u)' => ~isSearching'
    BY <1>k, <1>d, <1>e DEF SpinnersInv, Effect, ShowPage
  <1>3. isLoadingMore' <=> \E u \in Mores' : Latest(u)' /\ Works(u)'
    <2>1. CASE tasks[t].pc = "tail"
      <3>1. isLoadingMore' = FALSE
        BY <1>e, <2>1 DEF Effect
      <3>2. t \in Mores
        BY <1>f, <2>1 DEF Mores, TaskFits, TaskState, Kinds
      <3>3. QED
        BY <1>k, <1>d, <1>w, <1>o, <2>1, <3>1, <3>2 DEF SpinnersInv
    <2>2. CASE tasks[t].pc # "tail"
      <3>1. isLoadingMore' = isLoadingMore
        BY <1>e, <2>2 DEF Effect
      <3>2. \A u \in Mores : Works(u)' <=> Works(u)
        BY <1>d, <1>w, <1>o, <2>2
      <3>3. QED
        BY <1>k, <1>d, <3>1, <3>2 DEF SpinnersInv
    <2>3. QED
      BY <2>1, <2>2
  <1>4. \A u, v \in Mores' : Latest(u)' /\ Works(u)' /\ v # u => ~Works(v)'
    <2>1. \A u \in Mores : Works(u)' => Works(u)
      BY <1>d, <1>w, <1>o
    <2>2. QED
      BY <1>k, <1>d, <2>1 DEF SpinnersInv
  <1>5. QED
    BY <1>1, <1>2, <1>3, <1>4 DEF SpinnersInv

LEMMA StartSearchSpinners ==
    ASSUME ViewFits, GenerationsFit, SpinnersInv, NEW value \in Queries, NEW x,
           StartsSearch(value, x)
    PROVE  SpinnersInv'
  <1>n. PICK n : n = Len(tasks) + 1
    OBVIOUS
  <1>1. /\ AddedTasks(x) /\ x.kind = "search" /\ x.pc = "debounce"
        /\ x.generation = latestSearchGeneration + 1
        /\ latestSearchGeneration' = latestSearchGeneration + 1
        /\ isSearching' = TRUE /\ isLoadingMore' = FALSE
    BY DEF StartsSearch, UpdateQuery
  <1>2. /\ tasks'[n] = x /\ n \in Searches' /\ Mores' = Mores
        /\ \A u \in DOMAIN tasks : tasks'[u].generation = tasks[u].generation
    BY <1>n, <1>1, StartKeeps
  <1>3. Latest(n)' /\ Works(n)'
    BY <1>1, <1>2 DEF Latest, Works
  <1>4. \A u \in Mores : ~Latest(u)'
    BY <1>1, <1>2, GenerationTypes DEF Latest, GenerationsFit
  <1>5. QED
    BY <1>1, <1>2, <1>3, <1>4 DEF SpinnersInv

\* When "load more" may be clicked, every earlier page is over and done with.
LEMMA EarlierPagesAreDone ==
    ASSUME ViewFits, GenerationsFit, NobodyOvertakes, SpinnersInv, TailIsPrompt,
           LoadMoreMailcarts, NEW t \in Mores
    PROVE  ~Works(t)
  <1>1. /\ ~isSearching /\ ~isLoadingMore /\ t \in DOMAIN tasks
        /\ tasks[t].pc \notin {"hop", "tail"}
    BY GenerationTypes DEF LoadMoreMailcarts, canLoadMore
  <1>2. CASE Latest(t)
    BY <1>1, <1>2 DEF SpinnersInv
  <1>3. CASE ~Latest(t)
    <2>1. PICK s \in Searches : Latest(s)
      BY DEF GenerationsFit
    <2>2. tasks[s].pc = "done"
      BY <1>1, <2>1 DEF SpinnersInv, Works
    <2>3. tasks[t].generation < tasks[s].generation
      BY <1>3, <2>1, GenerationTypes DEF GenerationsFit, Latest
    <2>4. Order(t, s)
      BY <2>3 DEF NobodyOvertakes
    <2>5. tasks[t].pc \notin {"request", "bridge", "publish"}
      BY <2>2, <2>4 DEF Order
    <2>6. tasks[t].pc \notin {"debounce", "sleep"} /\ tasks[t].pc \in Pcs
      BY <1>1, TasksDomain DEF ViewFits, AllFit, TaskFits, Mores, TaskState
    <2>7. QED
      BY <1>1, <2>5, <2>6 DEF Works, Pcs
  <1>4. QED
    BY <1>2, <1>3

LEMMA StartMoreSpinners ==
    ASSUME ViewFits, GenerationsFit, NobodyOvertakes, SpinnersInv, TailIsPrompt,
           NEW x, StartsMore(x)
    PROVE  SpinnersInv'
  <1>n. PICK n : n = Len(tasks) + 1
    OBVIOUS
  <1>1. /\ AddedTasks(x) /\ x.kind = "more" /\ x.pc = "request" /\ LoadMoreMailcarts
        /\ x.generation = latestSearchGeneration
        /\ latestSearchGeneration' = latestSearchGeneration
        /\ ~isSearching /\ isSearching' = isSearching /\ isLoadingMore' = TRUE
    BY DEF StartsMore, LoadMoreMailcarts, canLoadMore
  <1>2. /\ tasks'[n] = x /\ Searches' = Searches /\ Mores' = Mores \cup {n}
        /\ \A u \in DOMAIN tasks : /\ tasks'[u].generation = tasks[u].generation
                                   /\ tasks'[u].pc = tasks[u].pc
    BY <1>n, <1>1, StartKeeps
  <1>3. Latest(n)' /\ Works(n)'
    BY <1>1, <1>2 DEF Latest, Works
  <1>4. \A u \in DOMAIN tasks : (Works(u)' <=> Works(u)) /\ (Latest(u)' <=> Latest(u))
    BY <1>1, <1>2 DEF Works, Latest
  <1>5. \A u \in Mores : ~Works(u)
    BY <1>1, EarlierPagesAreDone
  <1>6. Searches \subseteq DOMAIN tasks /\ Mores \subseteq DOMAIN tasks
    BY GenerationTypes
  <1>7. QED
    BY <1>1, <1>2, <1>3, <1>4, <1>5, <1>6 DEF SpinnersInv

LEMMA StartReadSpinners ==
    ASSUME ViewFits, SpinnersInv, NEW messageId \in Messages, NEW x, StartsRead(messageId, x)
    PROVE  SpinnersInv'
  <1>1. /\ AddedTasks(x) /\ x.kind = "read"
        /\ latestSearchGeneration' = latestSearchGeneration
        /\ isSearching' = isSearching /\ isLoadingMore' = isLoadingMore
    BY DEF StartsRead, LoadMailcart, published
  <1>2. /\ Searches' = Searches /\ Mores' = Mores
        /\ \A u \in DOMAIN tasks : /\ tasks'[u].generation = tasks[u].generation
                                   /\ tasks'[u].pc = tasks[u].pc
    BY <1>1, StartKeeps
  <1>3. \A u \in DOMAIN tasks : (Works(u)' <=> Works(u)) /\ (Latest(u)' <=> Latest(u))
    BY <1>1, <1>2 DEF Works, Latest
  <1>4. Searches \subseteq DOMAIN tasks /\ Mores \subseteq DOMAIN tasks
    BY GenerationTypes
  <1>5. QED
    BY <1>1, <1>2, <1>3, <1>4 DEF SpinnersInv

\* The pages and searches of the window keep each other's order.
PagesFit == ViewFits /\ GenerationsFit /\ NobodyOvertakes /\ SpinnersInv

LEMMA InitPages == Init => PagesFit
  <1> SUFFICES ASSUME Init PROVE PagesFit
    OBVIOUS
  <1>1. /\ Searches = {1} /\ Mores = {} /\ Latest(1) /\ Works(1)
        /\ isSearching = TRUE /\ isLoadingMore = FALSE
    BY FirstTask DEF Init, Searches, Mores, Latest, Works
  <1>2. QED
    BY <1>1, InitFits, InitGenerations DEF PagesFit, NobodyOvertakes, SpinnersInv

LEMMA NextPages == TailIsPrompt /\ PagesFit /\ [Next]_vars => PagesFit'
  <1> SUFFICES ASSUME TailIsPrompt, PagesFit, [Next]_vars PROVE PagesFit'
    OBVIOUS
  <1>i. ViewFits /\ GenerationsFit /\ NobodyOvertakes /\ SpinnersInv
    BY DEF PagesFit
  <1>1. Quiet => SpinnersInv'
    BY <1>i DEF Quiet, private, queues, SpinnersInv, Searches, Mores, Latest, Works
  <1>2. SpinnersInv'
    BY <1>i, <1>1, NextSteps, TurnSpinners, StartSearchSpinners, StartMoreSpinners,
       StartReadSpinners DEF Steps
  <1>3. QED
    BY <1>i, <1>2, NextFits, NextGenerations, NextOrder DEF PagesFit

LEMMA PagesAlwaysFit == ASSUME TailIsPrompt PROVE Spec => []PagesFit
  BY TailIsPrompt, InitPages, NextPages, PTL DEF Spec

\* The two spinners of the window tell the truth, if the last turn of a
\* superseded "load more" is not overtaken by a click: one task of the latest
\* search works for a spinner that turns, none for one that stands still
\* (isSearching and isLoadingMore, which also lock the "load more" button).
THEOREM SpinnersTellTheTruth ==
    ASSUME TailIsPrompt
    PROVE  Spec => []SpinnersAreTrue
  <1>1. ASSUME PagesFit PROVE SpinnersAreTrue
    <2>1. ViewFits /\ GenerationsFit /\ SpinnersInv
      BY <1>1 DEF PagesFit
    <2>2. Current("search") = {t \in Searches : Latest(t) /\ Works(t)}
      BY <2>1, CurrentIsLatest DEF Current, Live, Searches, Works
    <2>3. Current("more") = {t \in Mores : Latest(t) /\ Works(t)}
      BY <2>1, CurrentIsLatest DEF Current, Live, Mores, Works
    <2>4. QED
      BY <2>1, <2>2, <2>3 DEF SpinnersAreTrue, SpinnersInv
  <1>2. QED
    BY <1>1, PagesAlwaysFit, PTL

-----------------------------------------------------------------------------
(* The list                                                                *)

\* A search shows what the field holds, a page continues the list.
ListInv ==
    /\ ListIsOneListing
    /\ nextCursor # 1
    /\ \A t \in Searches :
          Latest(t) /\ tasks[t].pc \in {"bridge", "publish"} => tasks[t].query = query
    /\ \A t \in Mores :
          Latest(t) /\ tasks[t].pc \in {"request", "bridge", "publish"} =>
              tasks[t].cursor = nextCursor

\* The latest search replaces the list.
LEMMA SearchShows ==
    ASSUME PagesFit, ListInv, NEW t \in Searches, Effect(t), Shows(t)
    PROVE  ListIsOneListing' /\ nextCursor' # 1
  <1> DEFINE r == tasks[t]
  <1>1. /\ r \in TaskState /\ TaskFits(r) /\ r.kind = "search" /\ r.pc = "publish"
        /\ Latest(t)
    BY TasksDomain, CurrentIsLatest DEF PagesFit, ViewFits, AllFit, Searches, Shows
  <1>2. ShowPage(r) /\ query' = query /\ latestSearchGeneration' = latestSearchGeneration
    BY DEF Effect
  <1>3. PICK row : row = PageOf(r)
    OBVIOUS
  <1>4. /\ row \in Row /\ row.page = 1 /\ row.generation = latestSearchGeneration
        /\ row.filter = query
    BY <1>1, <1>3, RowType DEF TaskFits, ListInv, Latest
  <1>5. /\ summaries' = IF r.answer = "failed" THEN <<>> ELSE <<row>>
        /\ nextCursor' = IF r.answer = "more" THEN 2 ELSE 0
    BY <1>1, <1>2, <1>3, <1>4 DEF ShowPage, RowsOf
  <1>6. CASE summaries' = <<>>
    BY <1>5, <1>6 DEF ListIsOneListing
  <1>7. CASE summaries' = <<row>>
    <2>1. Len(<<row>>) = 1 /\ <<row>>[1] = row /\ DOMAIN <<row>> = {1}
      OBVIOUS
    <2>2. Len(summaries') = 1 /\ summaries'[1] = row /\ DOMAIN (summaries') = {1}
      BY <1>7, <2>1
    <2>3. QED
      BY <1>2, <1>4, <1>5, <2>2 DEF ListIsOneListing
  <1>8. QED
    BY <1>5, <1>6, <1>7

\* A page of the latest search comes behind its other pages.
LEMMA MoreShows ==
    ASSUME PagesFit, ListInv, NEW t \in Mores, Effect(t), Shows(t)
    PROVE  ListIsOneListing' /\ nextCursor' # 1
  <1> DEFINE r == tasks[t]
             s == summaries
  <1>1. /\ r \in TaskState /\ TaskFits(r) /\ r.kind = "more" /\ r.pc = "publish"
        /\ Latest(t) /\ s \in Seq(Row) /\ nextCursor \in {0} \cup Pages
    BY TasksDomain, CurrentIsLatest
       DEF PagesFit, ViewFits, AllFit, Mores, Shows, TypeOK, Row
  <1>2. ShowPage(r) /\ query' = query /\ latestSearchGeneration' = latestSearchGeneration
    BY DEF Effect
  <1>3. ~isSearching /\ r.cursor = nextCursor /\ nextCursor # 0
    BY <1>1 DEF PagesFit, SpinnersInv, ListInv, TaskFits
  <1>4. nextCursor = Len(s) + 1 /\ Len(s) \in Nat /\ DOMAIN s = 1..Len(s)
    BY <1>1, <1>3 DEF ListInv, ListIsOneListing
  <1>5. /\ Len(s) > 0 /\ s # <<>>
        /\ s[1].generation = latestSearchGeneration /\ s[1].filter = query
        /\ \A k \in 1..Len(s) : s[k].page = k /\ s[k].generation = latestSearchGeneration
    BY <1>1, <1>3, <1>4 DEF ListInv, ListIsOneListing
  <1>6. PICK row : row = PageOf(r)
    OBVIOUS
  <1>7. /\ row \in Row /\ row.page = Len(s) + 1 /\ row.generation = latestSearchGeneration
    BY <1>1, <1>3, <1>4, <1>6, RowType DEF Latest
  <1>8. /\ nextCursor' = IF r.answer = "more" THEN Len(s) + 2 ELSE 0
        /\ isSearching' = FALSE
    BY <1>2, <1>4, <1>6, <1>7 DEF ShowPage
  <1>9. CASE r.answer = "failed"
    <2>1. summaries' = s
      BY <1>1, <1>2, <1>9 DEF ShowPage, RowsOf
    <2>2. QED
      BY <1>2, <1>4, <1>5, <1>8, <1>9, <2>1 DEF ListIsOneListing
  <1>10. CASE r.answer # "failed"
    <2>1. PICK all : all = s \o <<row>>
      OBVIOUS
    <2>2. /\ Len(all) = Len(s) + 1 /\ DOMAIN all = 1..Len(s) + 1 /\ all[Len(s) + 1] = row
          /\ \A k \in 1..Len(s) : all[k] = s[k]
      BY <1>1, <1>7, <2>1, AppendRow
    <2>3. summaries' = all
      BY <1>1, <1>2, <1>6, <1>10, <2>1 DEF ShowPage, RowsOf
    <2>4. \A k \in 1..Len(s) + 1 :
             all[k].page = k /\ all[k].generation = latestSearchGeneration
      BY <1>4, <1>5, <1>7, <2>2
    <2>5. all[1].generation = latestSearchGeneration /\ all[1].filter = query
      BY <1>4, <1>5, <2>2
    <2>6. QED
      BY <1>2, <1>4, <1>8, <2>2, <2>3, <2>4, <2>5 DEF ListIsOneListing
  <1>11. nextCursor' # 1
    BY <1>4, <1>5, <1>8
  <1>12. QED
    BY <1>9, <1>10, <1>11

LEMMA TurnList ==
    ASSUME PagesFit, ListInv, NEW t \in DOMAIN tasks, NEW x, TakesTurn(t, x)
    PROVE  ListInv'
  <1>k. /\ Searches' = Searches /\ Mores' = Mores
        /\ tasks'[t] = x /\ Route(tasks[t].pc, x.pc) /\ SameTask(x, tasks[t])
        /\ \A u \in DOMAIN tasks \ {t} : tasks'[u] = tasks[u]
        /\ \A u \in DOMAIN tasks : Latest(u)' <=> Latest(u)
        /\ query' = query /\ latestSearchGeneration' = latestSearchGeneration
    BY TurnKeeps
  <1>d. /\ Searches \subseteq DOMAIN tasks /\ Mores \subseteq DOMAIN tasks
        /\ Searches \cap Mores = {}
    BY GenerationTypes DEF PagesFit
  <1>e. /\ Effect(t)
        /\ x.pc = "bridge" => x.query = query
        /\ x.pc = "publish" => x.query = tasks[t].query
    BY DEF TakesTurn, Stepped
  <1>f. TaskFits(tasks[t]) /\ tasks[t] \in TaskState
    BY TasksDomain DEF PagesFit, ViewFits, AllFit
  <1>s. Shows(t) => t \in Searches \cup Mores /\ Latest(t) /\ Works(t) /\ tasks[t].pc = "publish"
    <2>1. Shows(t) => t \in Searches \cup Mores /\ Works(t) /\ tasks[t].pc = "publish"
      BY <1>f DEF Shows, Searches, Mores, Works, TaskState, Kinds
    <2>2. QED
      BY <2>1, CurrentIsLatest DEF Shows, PagesFit
  <1>1. ListIsOneListing' /\ nextCursor' # 1
    <2>1. CASE Shows(t)
      BY <1>e, <1>s, <2>1, SearchShows, MoreShows
    <2>2. CASE ~Shows(t)
      BY <1>e, <2>2 DEF Effect, ListInv, ListIsOneListing
    <2>3. QED
      BY <2>1, <2>2
  <1>2. ASSUME NEW u \in Searches, Latest(u), tasks'[u].pc \in {"bridge", "publish"}
        PROVE  tasks'[u].query = query
    <2>1. CASE u = t
      BY <1>k, <1>e, <1>2, <2>1 DEF ListInv, Route
    <2>2. CASE u # t
      BY <1>k, <1>d, <1>2, <2>2 DEF ListInv
    <2>3. QED
      BY <2>1, <2>2
  <1>3. ASSUME NEW u \in Mores, Latest(u), tasks'[u].pc \in {"request", "bridge", "publish"}
        PROVE  tasks'[u].cursor = nextCursor'
    <2>1. tasks[u].pc \in {"request", "bridge", "publish"} /\ (u = t => tasks[u].pc # "publish")
      BY <1>k, <1>d, <1>f, <1>3 DEF Route, TaskFits, Mores
    <2>2. tasks'[u].cursor = tasks[u].cursor /\ tasks[u].cursor = nextCursor
      BY <1>k, <1>d, <1>3, <2>1 DEF SameTask, ListInv
    <2>3. ~Shows(t)
      <3>1. SUFFICES ASSUME Shows(t) PROVE FALSE
        OBVIOUS
      <3>2. t # u /\ Latest(t) /\ Works(t) /\ Works(u)
        BY <1>s, <2>1, <3>1 DEF Works
      <3>3. QED
        BY <1>s, <1>3, <3>1, <3>2 DEF PagesFit, SpinnersInv
    <2>4. QED
      BY <1>e, <2>2, <2>3 DEF Effect
  <1>4. QED
    BY <1>k, <1>d, <1>1, <1>2, <1>3 DEF ListInv

LEMMA NextList == PagesFit /\ ListInv /\ [Next]_vars => ListInv'
  <1> SUFFICES ASSUME PagesFit, ListInv, [Next]_vars PROVE ListInv'
    OBVIOUS
  <1>i. ViewFits /\ GenerationsFit
    BY DEF PagesFit
  <1>d. /\ Searches \subseteq DOMAIN tasks /\ Mores \subseteq DOMAIN tasks
        /\ latestSearchGeneration \in Nat /\ \A u \in DOMAIN tasks : tasks[u].generation \in Nat
    BY <1>i, GenerationTypes
  <1>1. ASSUME NEW t \in DOMAIN tasks, NEW x, TakesTurn(t, x) PROVE ListInv'
    BY <1>1, TurnList
  <1>2. ASSUME NEW value \in Queries, NEW x, StartsSearch(value, x) PROVE ListInv'
    <2>n. PICK n : n = Len(tasks) + 1
      OBVIOUS
    <2>1. /\ AddedTasks(x) /\ x.kind = "search" /\ x.pc = "debounce"
          /\ latestSearchGeneration' = latestSearchGeneration + 1
          /\ isSearching' = TRUE /\ nextCursor' = 0 /\ summaries' = summaries
      BY <1>2 DEF StartsSearch, UpdateQuery
    <2>2. /\ tasks'[n] = x /\ Searches' = Searches \cup {n} /\ Mores' = Mores
          /\ \A u \in DOMAIN tasks : tasks'[u].generation = tasks[u].generation
      BY <1>i, <2>n, <2>1, StartKeeps
    <2>3. \A u \in Searches \cup Mores : ~Latest(u)'
      BY <1>i, <1>d, <2>1, <2>2 DEF GenerationsFit, Latest
    <2>4. ListIsOneListing'
      BY <2>1 DEF ListInv, ListIsOneListing
    <2>5. QED
      BY <2>1, <2>2, <2>3, <2>4 DEF ListInv
  <1>3. ASSUME NEW x, AddedTasks(x), x.kind # "search",
               UNCHANGED <<query, summaries, isSearching, nextCursor, latestSearchGeneration>>,
               x.kind = "more" => x.cursor = nextCursor
        PROVE  ListInv'
    <2>n. PICK n : n = Len(tasks) + 1
      OBVIOUS
    <2>1. /\ tasks'[n] = x /\ Searches' = Searches
          /\ Mores' = Mores \cup (IF x.kind = "more" THEN {n} ELSE {})
          /\ \A u \in DOMAIN tasks : /\ tasks'[u].generation = tasks[u].generation
                                     /\ tasks'[u].pc = tasks[u].pc
                                     /\ tasks'[u].query = tasks[u].query
                                     /\ tasks'[u].cursor = tasks[u].cursor
      BY <1>i, <1>3, <2>n, StartKeeps DEF SameTask
    <2>2. \A u \in DOMAIN tasks : Latest(u)' <=> Latest(u)
      BY <1>3, <2>1 DEF Latest
    <2>3. ListIsOneListing'
      BY <1>3 DEF ListInv, ListIsOneListing
    <2>4. QED
      BY <1>d, <1>3, <2>1, <2>2, <2>3 DEF ListInv
  <1>4. ASSUME NEW x, StartsMore(x) PROVE ListInv'
    BY <1>3, <1>4 DEF StartsMore, LoadMoreMailcarts
  <1>5. ASSUME NEW messageId \in Messages, NEW x, StartsRead(messageId, x) PROVE ListInv'
    BY <1>3, <1>5 DEF StartsRead, LoadMailcart, published
  <1>6. CASE Quiet
    BY <1>6 DEF Quiet, private, queues, ListInv, ListIsOneListing, Searches, Mores, Latest
  <1>7. QED
    BY <1>i, <1>1, <1>2, <1>4, <1>5, <1>6, NextSteps DEF Steps

\* The list on the screen is one listing without gap or repetition, and that of
\* the text in the search field once the spinner stops, for any number of
\* searches, pages and late answers (scheduleSearch, fetchPage,
\* loadMoreMailcarts), under the same condition.
THEOREM ListStaysOneListing ==
    ASSUME TailIsPrompt
    PROVE  Spec => []ListIsOneListing
  <1>1. ASSUME Init PROVE ListInv
    <2>1. /\ Searches = {1} /\ Mores = {} /\ summaries = <<>> /\ nextCursor = 0
      BY <1>1, FirstTask DEF Init, Searches, Mores
    <2>2. QED
      BY <2>1, FirstTask, <1>1 DEF ListInv, ListIsOneListing
  <1>2. ListInv => ListIsOneListing
    BY DEF ListInv
  <1>3. QED
    BY <1>1, <1>2, NextList, PagesAlwaysFit, TailIsPrompt, PTL DEF Spec
=============================================================================
