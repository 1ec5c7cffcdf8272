--------------------------- MODULE MailClients_proofs ---------------------------
(* Proofs about MailClients: types, and that the API server and the app keep *)
(* the promise of Filing, for any number of workers, callers, messages and   *)
(* folders.                                                                  *)
EXTENDS MailClients, TLAPS

-----------------------------------------------------------------------------
(* The mailbox                                                             *)

\* Folders are only added, and a deleted one stays deleted.
FoldersGrow ==
    /\ DOMAIN folders \subseteq DOMAIN folders'
    /\ \A f \in DOMAIN folders : folders'[f] = folders[f]
    /\ deleted \subseteq deleted'

LEMMA FoldersDomain ==
    ASSUME MailboxTypeOK
    PROVE  /\ DOMAIN folders = 1..Len(folders)
           /\ Len(folders) \in Nat
           /\ DOMAIN folders \subseteq 1..MaxFolders
           /\ 0 \notin DOMAIN folders
           /\ \A f \in DOMAIN folders : folders[f] \in Names
  BY MailboxAssumption DEF MailboxTypeOK

LEMMA CreateFolderGrows ==
    ASSUME MailboxTypeOK, NEW name \in Names, CreateFolder(name)
    PROVE  /\ MailboxTypeOK' /\ FoldersGrow
           /\ Len(folders) + 1 \in DOMAIN folders'
           /\ folders'[Len(folders) + 1] = name
           /\ Len(folders) + 1 \in 1..MaxFolders
  <1>1. /\ folders' = Append(folders, name)
        /\ folders \in Seq(Names)
        /\ Len(folders) \in Nat /\ Len(folders) < MaxFolders
    BY DEF CreateFolder, MailboxTypeOK
  <1>2. /\ folders' \in Seq(Names) /\ Len(folders') = Len(folders) + 1
        /\ DOMAIN folders' = 1..Len(folders) + 1
        /\ DOMAIN folders = 1..Len(folders)
        /\ \A f \in 1..Len(folders) : folders'[f] = folders[f]
        /\ folders'[Len(folders) + 1] = name
    BY <1>1
  <1>3. UNCHANGED <<deleted, place, moves>>
    BY DEF CreateFolder
  <1>4. QED
    BY <1>1, <1>2, <1>3, MailboxAssumption DEF MailboxTypeOK, FoldersGrow

LEMMA MoveMessageGrows ==
    ASSUME MailboxTypeOK, NEW id \in Ids, NEW f, MoveMessageTo(id, f)
    PROVE  /\ MailboxTypeOK' /\ FoldersGrow
           /\ f \in DOMAIN folders
  <1>1. f \in DOMAIN folders /\ id.message \in Messages
    BY DEF MoveMessageTo, CanMove, Existing, Ids
  <1>2. moves[id.message] + 1 \in 0..MaxMoves
    BY <1>1, MailboxAssumption DEF MoveMessageTo, MailboxTypeOK
  <1>3. QED
    BY <1>1, <1>2 DEF MoveMessageTo, MailboxTypeOK, FoldersGrow

LEMMA OwnerGrows ==
    ASSUME MailboxTypeOK, Owner
    PROVE  MailboxTypeOK' /\ FoldersGrow
  <1>1. CASE OwnerMoves
    <2>1. PICK m \in Messages, f \in Existing \cup {Inbox} :
              /\ moves[m] < MaxMoves
              /\ place' = [place EXCEPT ![m] = f]
              /\ moves' = [moves EXCEPT ![m] = @ + 1]
              /\ UNCHANGED <<folders, deleted>>
      BY <1>1 DEF OwnerMoves
    <2>2. moves[m] + 1 \in 0..MaxMoves
      BY <2>1, MailboxAssumption DEF MailboxTypeOK
    <2>3. QED
      BY <2>1, <2>2 DEF MailboxTypeOK, FoldersGrow, Existing
  <1>2. CASE OwnerDeletesFolder
    BY <1>2 DEF OwnerDeletesFolder, MailboxTypeOK, FoldersGrow, Existing
  <1>3. QED
    BY <1>1, <1>2 DEF Owner

LEMMA MailboxUnchanged ==
    ASSUME MailboxTypeOK, UNCHANGED mailbox
    PROVE  MailboxTypeOK' /\ FoldersGrow
  BY DEF mailbox, MailboxTypeOK, FoldersGrow

-----------------------------------------------------------------------------
(* The API server                                                          *)

FolderFits(f, names) == f \in DOMAIN folders /\ folders[f] \in names

\* Which requests ask to move a message, and what a worker knows of folders
\* between its calls of Graph.
WorkerFits(r) ==
    /\ r.pc = "idle" \/ r.pc \in {"read", "page"} => ~r.moving
    /\ r.pc \in {"list", "create", "move"} => r.moving
    /\ r.pc = "move" => r.folder = 0 \/ FolderFits(r.folder, SameInAscii(r.name))

LEMMA FolderStillFits ==
    ASSUME FoldersGrow, NEW f, NEW names, FolderFits(f, names)
    PROVE  FolderFits(f, names)'
  BY DEF FoldersGrow, FolderFits

LEMMA WorkerStillFits ==
    ASSUME FoldersGrow, NEW r \in WorkerState, WorkerFits(r)
    PROVE  WorkerFits(r)'
  BY DEF WorkerFits, FoldersGrow, FolderFits, SameInAscii

LEMMA UnusedType == Unused \in Ids
  <1>1. \E i \in Ids : i.moves = 0
    <2>1. PICK m \in Messages : TRUE
      BY MailboxAssumption
    <2>2. [message |-> m, moves |-> 0] \in Ids
      BY MailboxAssumption DEF Ids
    <2>3. QED
      BY <2>2
  <1>2. QED
    BY <1>1 DEF Unused

LEMMA IdleWorkerType ==
    /\ IdleWorker \in WorkerState
    /\ IdleWorker.pc = "idle" /\ IdleWorker.moving = FALSE
  BY UnusedType, ApiAssumption, MailboxAssumption DEF IdleWorker, WorkerState, WorkerPcs, Statuses

\* The fields of a worker that are set below, one at a time.
LEMMA SetPc ==
    ASSUME NEW r \in WorkerState,
           NEW x \in WorkerPcs
    PROVE  /\ [r EXCEPT !.pc = x] \in WorkerState
           /\ [r EXCEPT !.pc = x].pc = x
           /\ [r EXCEPT !.pc = x].moving = r.moving
  BY DEF WorkerState

LEMMA SetStatus ==
    ASSUME NEW r \in WorkerState,
           NEW x \in Statuses
    PROVE  /\ [r EXCEPT !.status = x] \in WorkerState
           /\ [r EXCEPT !.status = x].status = x
           /\ [r EXCEPT !.status = x].pc = r.pc
  BY DEF WorkerState

LEMMA SetMoving ==
    ASSUME NEW r \in WorkerState, NEW x \in BOOLEAN
    PROVE  /\ [r EXCEPT !.moving = x] \in WorkerState
           /\ [r EXCEPT !.moving = x].moving = x
           /\ [r EXCEPT !.moving = x].pc = r.pc
           /\ [r EXCEPT !.moving = x].status = r.status
  BY DEF WorkerState

LEMMA SetKnown ==
    ASSUME NEW r \in WorkerState, NEW x \in BOOLEAN
    PROVE  /\ [r EXCEPT !.known = x] \in WorkerState
           /\ [r EXCEPT !.known = x].moving = r.moving
  BY DEF WorkerState

LEMMA AnsweredType ==
    ASSUME NEW status \in Statuses, NEW moving \in BOOLEAN
    PROVE  /\ Answered(status, moving) \in WorkerState
           /\ Answered(status, moving).pc = "answered"
           /\ Answered(status, moving).moving = moving
           /\ Answered(status, moving).status = status
           /\ WorkerFits(Answered(status, moving))
           /\ WorkerFits(Answered(status, moving))'
  <1> DEFINE a == [IdleWorker EXCEPT !.pc = "answered"]
             b == [a EXCEPT !.status = status]
             c == [b EXCEPT !.moving = moving]
  <1>1. a \in WorkerState /\ a.pc = "answered"
    BY IdleWorkerType, SetPc DEF WorkerPcs
  <1> HIDE DEF a
  <1>2. b \in WorkerState /\ b.pc = "answered" /\ b.status = status
    BY <1>1, SetStatus
  <1> HIDE DEF b
  <1>3. c \in WorkerState /\ c.pc = "answered" /\ c.status = status /\ c.moving = moving
    BY <1>2, SetMoving
  <1>4. Answered(status, moving) = c
    BY DEF Answered, a, b
  <1> HIDE DEF c
  <1>5. WorkerFits(c) /\ WorkerFits(c)'
    BY <1>3 DEF WorkerFits
  <1>6. QED
    BY <1>3, <1>4, <1>5

\* A new request is turned down, or begins with a call of Graph.
LEMMA HandlerType ==
    ASSUME NEW r \in Requests, IsMove(r.path) => ValidateMoveBody(r.body)
    PROVE  /\ Handler(r) \in WorkerState
           /\ \/ Handler(r).pc = "list" /\ Handler(r).moving = TRUE
              \/ Handler(r).pc \in {"read", "page"} /\ Handler(r).moving = FALSE
  <1>1. r.id \in Ids /\ r.body \in Names \cup {"none", "bad"}
    BY ApiAssumption
  <1> DEFINE i == [IdleWorker EXCEPT !.id = r.id]
             k == [i EXCEPT !.known = r.path[3] # "malformed"]
  <1>2. i \in WorkerState /\ i.moving = FALSE
    BY <1>1, IdleWorkerType DEF WorkerState
  <1> HIDE DEF i
  <1>3. k \in WorkerState /\ k.moving = FALSE
    <2>1. (r.path[3] # "malformed") \in BOOLEAN
      OBVIOUS
    <2>2. QED
      BY <1>2, <2>1, SetKnown, Zenon
  <1>4. CASE IsMove(r.path)
    <2> DEFINE l == [k EXCEPT !.pc = "list"]
               m == [l EXCEPT !.moving = TRUE]
               n == [m EXCEPT !.name = FolderOfBody(r.body)]
    <2>1. Handler(r) = n
      BY <1>4 DEF Handler, i
    <2> HIDE DEF k
    <2>2. FolderOfBody(r.body) \in Names
      BY <1>1, <1>4, ApiAssumption DEF FolderOfBody, ValidateMoveBody
    <2>3. l \in WorkerState /\ l.pc = "list"
      BY <1>3, SetPc DEF WorkerPcs
    <2> HIDE DEF l
    <2>4. m \in WorkerState /\ m.pc = "list" /\ m.moving = TRUE
      <3>1. TRUE \in BOOLEAN
        OBVIOUS
      <3>2. QED
        BY <2>3, <3>1, SetMoving, Zenon
    <2> HIDE DEF m
    <2>5. n \in WorkerState /\ n.pc = "list" /\ n.moving = TRUE
      BY <2>2, <2>4 DEF WorkerState
    <2>6. QED
      BY <2>1, <2>5
  <1>5. CASE ~IsMove(r.path)
    <2> DEFINE pc == IF r.path[3] = "search" THEN "page" ELSE "read"
    <2>1. Handler(r) = [k EXCEPT !.pc = pc]
      BY <1>5 DEF Handler, i
    <2>2. pc \in {"read", "page"} /\ pc \in WorkerPcs
      BY DEF WorkerPcs
    <2> HIDE DEF k, pc
    <2>3. QED
      BY <1>3, <2>1, <2>2, SetPc
  <1>6. QED
    BY <1>4, <1>5

LEMMA HandleType ==
    ASSUME NEW r \in Requests
    PROVE  /\ HandleApiRequest(r) \in WorkerState
           /\ \/ HandleApiRequest(r).pc = "list" /\ HandleApiRequest(r).moving = TRUE
              \/ HandleApiRequest(r).pc \in {"answered", "read", "page"}
                 /\ HandleApiRequest(r).moving = FALSE
  <1>1. RequireApiWriteToken(r.provided, r.authorization) \in {0, 401, 503}
    BY DEF RequireApiWriteToken
  <1>2. ImmediateStatus(r) \in Statuses
    BY <1>1 DEF ImmediateStatus, Statuses
  <1>3. ImmediateStatus(r) = 0 => (IsMove(r.path) => ValidateMoveBody(r.body))
    BY DEF ImmediateStatus
  <1>4. ASSUME NEW status \in Statuses
        PROVE  /\ Answered(status, FALSE) \in WorkerState
               /\ Answered(status, FALSE).pc = "answered"
               /\ Answered(status, FALSE).moving = FALSE
    <2>1. FALSE \in BOOLEAN
      OBVIOUS
    <2>2. QED
      BY <2>1, AnsweredType, Zenon
  <1>5. QED
    BY <1>2, <1>3, <1>4, HandlerType DEF HandleApiRequest

\* What a step may do to the request of the client that takes it, as Filing
\* sees it: nothing, turn down or begin another one, fail it, or file its message.
KeepsPromise(id, names, before, after, nextId, nextNames) ==
    \/ /\ after = before /\ nextId = id /\ nextNames = names
       /\ UNCHANGED <<place, moves>>
    \/ /\ before # "pending" /\ after \in {"pending", "failed", "none"}
       /\ UNCHANGED <<place, moves>>
    \/ /\ before = "pending" /\ after = "failed"
       /\ UNCHANGED <<place, moves>>
    \/ /\ before = "pending" /\ after \in {"moved", "failed"}
       /\ \E f \in DOMAIN folders : FolderFits(f, names) /\ MoveMessageTo(id, f)

WorkerKeepsPromise(r, x) ==
    KeepsPromise(r.id, SameInAscii(r.name), WorkerReply(r), WorkerReply(x),
                 x.id, SameInAscii(x.name))

LEMMA AnsweredReply ==
    ASSUME NEW status \in Statuses, NEW r \in WorkerState
    PROVE  WorkerReply(Answered(status, r.moving)) =
               IF r.moving THEN IF status = 200 THEN "moved" ELSE "failed" ELSE "none"
  <1>1. r.moving \in BOOLEAN
    BY DEF WorkerState
  <1>2. QED
    BY <1>1, AnsweredType DEF WorkerReply

\* A worker that answers without having changed the mailbox.
LEMMA AnswerFits ==
    ASSUME MailboxTypeOK, NEW r \in WorkerState, WorkerFits(r), NEW status \in Statuses,
           status # 200 \/ ~r.moving, r.pc \notin {"idle", "answered"},
           UNCHANGED <<place, moves>>
    PROVE  LET x == Answered(status, r.moving)
           IN  x \in WorkerState /\ WorkerFits(x)' /\ WorkerKeepsPromise(r, x)
  <1>1. r.moving \in BOOLEAN
    BY DEF WorkerState
  <1>2. WorkerReply(r) = IF r.moving THEN "pending" ELSE "none"
    BY <1>1 DEF WorkerReply
  <1>3. QED
    BY <1>1, <1>2, AnsweredType, AnsweredReply DEF WorkerKeepsPromise, KeepsPromise

\* What a call of Graph leaves the worker with.
LEMMA ContinueGoes ==
    ASSUME worker \in [Workers -> WorkerState], NEW w \in Workers,
           NEW pc \in {"create", "move"}, NEW f \in 0..MaxFolders, Continue(w, pc, f)
    PROVE  \E x \in WorkerState :
               /\ worker' = [worker EXCEPT ![w] = x]
               /\ x.pc = pc /\ x.folder = f
               /\ x.id = worker[w].id /\ x.name = worker[w].name
               /\ x.moving = worker[w].moving
  <1> DEFINE r == worker[w]
             y == [r EXCEPT !.pc = pc]
             z == [y EXCEPT !.folder = f]
  <1>1. /\ y \in WorkerState /\ y.pc = pc
        /\ y.id = r.id /\ y.name = r.name /\ y.moving = r.moving
    BY DEF WorkerState, WorkerPcs
  <1>2. worker' = [worker EXCEPT ![w] = z]
    BY DEF Continue
  <1> HIDE DEF y
  <1>3. /\ z \in WorkerState /\ z.pc = pc /\ z.folder = f
        /\ z.id = r.id /\ z.name = r.name /\ z.moving = r.moving
    BY <1>1 DEF WorkerState
  <1> HIDE DEF z
  <1>4. QED
    BY <1>2, <1>3

\* Every step of a worker: types, what it knows of folders, and the promise.
WorkerGoes(w) ==
    /\ MailboxTypeOK' /\ FoldersGrow
    /\ \E x \in WorkerState :
          /\ worker' = [worker EXCEPT ![w] = x]
          /\ WorkerFits(x)'
          /\ WorkerKeepsPromise(worker[w], x)

LEMMA WorkerAnswers ==
    ASSUME MailboxTypeOK, worker \in [Workers -> WorkerState], NEW w \in Workers,
           WorkerFits(worker[w]), worker[w].pc \notin {"idle", "answered"},
           NEW status \in Statuses, Answer(w, status), status # 200 \/ ~worker[w].moving,
           FoldersGrow, MailboxTypeOK', UNCHANGED <<place, moves>>
    PROVE  WorkerGoes(w)
  BY AnswerFits DEF Answer, WorkerGoes

LEMMA ReceiveGoes ==
    ASSUME MailboxTypeOK, worker \in [Workers -> WorkerState], NEW w \in Workers,
           WorkerFits(worker[w]), Receive(w)
    PROVE  WorkerGoes(w)
  <1>1. PICK r \in Requests : worker' = [worker EXCEPT ![w] = HandleApiRequest(r)]
    BY DEF Receive
  <1>2. PICK x \in WorkerState :
            /\ worker' = [worker EXCEPT ![w] = x]
            /\ \/ x.pc = "list" /\ x.moving = TRUE
               \/ x.pc \in {"answered", "read", "page"} /\ x.moving = FALSE
    BY <1>1, HandleType
  <1>3. WorkerFits(x)'
    BY <1>2 DEF WorkerFits
  <1>4. WorkerReply(x) \in {"pending", "none"}
    BY <1>2 DEF WorkerReply
  <1>5. WorkerReply(worker[w]) # "pending"
    BY DEF Receive, WorkerFits, WorkerReply, WorkerState
  <1>6. UNCHANGED mailbox
    BY DEF Receive
  <1>7. MailboxTypeOK' /\ FoldersGrow
    BY <1>6, MailboxUnchanged
  <1>8. QED
    BY <1>2, <1>3, <1>4, <1>5, <1>6, <1>7
       DEF WorkerGoes, WorkerKeepsPromise, KeepsPromise, mailbox

LEMMA WorkerStepGoes ==
    ASSUME MailboxTypeOK, worker \in [Workers -> WorkerState], NEW w \in Workers,
           WorkerFits(worker[w]), WorkerStep(w)
    PROVE  WorkerGoes(w)
  <1> DEFINE r == worker[w]
  <1>r. r \in WorkerState
    OBVIOUS
  <1>u. UNCHANGED mailbox => MailboxTypeOK' /\ FoldersGrow /\ UNCHANGED <<place, moves>>
    BY MailboxUnchanged DEF mailbox
  <1>s. {200, 404, 500, 502} \subseteq Statuses
    BY DEF Statuses
  <1>1. CASE FailingCall(w)
    <2>1. PICK status \in {404, 500, 502} : Answer(w, status)
      BY <1>1 DEF FailingCall
    <2>2. QED
      BY <1>1, <1>u, <1>s, <2>1, WorkerAnswers DEF FailingCall
  <1>2. CASE ListFolders(w)
    <2>1. UNCHANGED mailbox /\ r.pc = "list" /\ r.moving
      BY <1>2 DEF ListFolders, WorkerAt, WorkerFits
    <2>2. \/ Continue(w, "create", 0) \/ Continue(w, "move", 0)
          \/ \E f \in DOMAIN folders :
                FolderFits(f, SameInAscii(r.name)) /\ Continue(w, "move", f)
      BY <1>2 DEF ListFolders, Listing, Existing, FolderFits
    <2>3. PICK pc \in {"create", "move"}, f \in 0..MaxFolders :
              /\ Continue(w, pc, f)
              /\ pc = "move" => f = 0 \/ FolderFits(f, SameInAscii(r.name))
      <3>1. 0 \in 0..MaxFolders /\ DOMAIN folders \subseteq 0..MaxFolders
        BY FoldersDomain, MailboxAssumption
      <3>2. QED
        BY <2>2, <3>1
    <2>4. PICK x \in WorkerState :
              /\ worker' = [worker EXCEPT ![w] = x]
              /\ x.pc = pc /\ x.folder = f
              /\ x.id = r.id /\ x.name = r.name /\ x.moving = r.moving
      BY <2>3, ContinueGoes
    <2>5. WorkerFits(x)
      BY <2>1, <2>3, <2>4 DEF WorkerFits
    <2>6. WorkerKeepsPromise(r, x)
      BY <1>u, <2>1, <2>4 DEF WorkerKeepsPromise, KeepsPromise, WorkerReply
    <2>7. QED
      BY <1>u, <2>1, <2>4, <2>5, <2>6, WorkerStillFits DEF WorkerGoes
  <1>3. CASE CreateMissingFolder(w)
    <2>1. r.pc = "create" /\ r.moving /\ r.name \in Names
      BY <1>3 DEF CreateMissingFolder, WorkerAt, WorkerFits, WorkerState
    <2>2. /\ MailboxTypeOK' /\ FoldersGrow
          /\ Len(folders) + 1 \in DOMAIN folders' /\ Len(folders) + 1 \in 0..MaxFolders
          /\ folders'[Len(folders) + 1] = r.name
      BY <1>3, <2>1, CreateFolderGrows DEF CreateMissingFolder
    <2>3. UNCHANGED <<place, moves>>
      BY <1>3 DEF CreateMissingFolder, CreateFolder
    <2>4. CASE Answer(w, 502)
      BY <1>s, <2>1, <2>2, <2>3, <2>4, WorkerAnswers
    <2>5. CASE Continue(w, "move", Len(folders) + 1)
      <3>1. PICK f : f = Len(folders) + 1
        OBVIOUS
      <3>2. PICK x \in WorkerState :
                /\ worker' = [worker EXCEPT ![w] = x]
                /\ x.pc = "move" /\ x.folder = f
                /\ x.id = r.id /\ x.name = r.name /\ x.moving = r.moving
        BY <2>2, <2>5, <3>1, ContinueGoes
      <3>3. WorkerFits(x)'
        BY <2>1, <2>2, <3>1, <3>2 DEF WorkerFits, FolderFits, SameInAscii
      <3>4. WorkerKeepsPromise(r, x)
        BY <2>1, <2>3, <3>2 DEF WorkerKeepsPromise, KeepsPromise, WorkerReply
      <3>5. QED
        BY <2>2, <3>2, <3>3, <3>4 DEF WorkerGoes
    <2>6. QED
      BY <1>3, <2>4, <2>5 DEF CreateMissingFolder
  <1>4. CASE CreateConflicts(w)
    BY <1>4, <1>u, <1>s, WorkerAnswers DEF CreateConflicts, WorkerAt
  <1>5. CASE MoveMessage(w)
    <2>1. /\ r.pc = "move" /\ r.moving /\ r.id \in Ids
          /\ MoveMessageTo(r.id, r.folder)
      BY <1>5 DEF MoveMessage, WorkerAt, WorkerFits, WorkerState
    <2>2. MailboxTypeOK' /\ FoldersGrow
      BY <2>1, MoveMessageGrows
    <2>3. PICK status \in {200, 502} : Answer(w, status)
      BY <1>5 DEF MoveMessage
    <2>4. PICK moving \in BOOLEAN : moving = r.moving
      BY DEF WorkerState
    <2>5. PICK x \in WorkerState :
              /\ worker' = [worker EXCEPT ![w] = x]
              /\ WorkerFits(x)'
              /\ WorkerReply(x) \in {"moved", "failed"}
      <3>1. worker' = [worker EXCEPT ![w] = Answered(status, moving)]
        BY <2>3, <2>4 DEF Answer
      <3>2. /\ Answered(status, moving) \in WorkerState
            /\ WorkerFits(Answered(status, moving))'
        BY <1>s, AnsweredType
      <3>3. WorkerReply(Answered(status, moving)) \in {"moved", "failed"}
        <4>1. /\ Answered(status, moving).pc = "answered"
              /\ Answered(status, moving).moving = moving
          BY <1>s, AnsweredType
        <4>2. QED
          BY <2>1, <2>4, <4>1 DEF WorkerReply
      <3>4. QED
        BY <3>1, <3>2, <3>3
    <2>6. WorkerReply(r) = "pending"
      BY <2>1 DEF WorkerReply
    <2>7. WorkerKeepsPromise(r, x)
      <3>1. FolderFits(r.folder, SameInAscii(r.name)) /\ r.folder \in DOMAIN folders
        BY <2>1, FoldersDomain, MoveMessageGrows DEF WorkerFits
      <3>2. QED
        BY <2>1, <2>5, <2>6, <3>1 DEF WorkerKeepsPromise, KeepsPromise
    <2>8. QED
      BY <2>2, <2>5, <2>7 DEF WorkerGoes
  <1>6. CASE MoveNotFound(w)
    BY <1>6, <1>u, <1>s, WorkerAnswers DEF MoveNotFound, WorkerAt
  <1>7. CASE GetMessage(w)
    <2>1. r.pc = "read" /\ ~r.moving
      BY <1>7 DEF GetMessage, WorkerAt, WorkerFits
    <2>2. \E status \in {200, 404} : Answer(w, status)
      BY <1>7 DEF GetMessage
    <2>3. QED
      BY <1>7, <1>u, <1>s, <2>1, <2>2, WorkerAnswers DEF GetMessage
  <1>8. CASE SearchMessages(w)
    <2>1. r.pc = "page" /\ ~r.moving
      BY <1>8 DEF SearchMessages, WorkerAt, WorkerFits
    <2>2. QED
      BY <1>8, <1>u, <1>s, <2>1, WorkerAnswers DEF SearchMessages
  <1>9. QED
    BY <1>1, <1>2, <1>3, <1>4, <1>5, <1>6, <1>7, <1>8 DEF WorkerStep

-----------------------------------------------------------------------------
(* The app                                                                 *)

TokensOK ==
    /\ issued \in 1..MaxTokens
    /\ cached \in 0..issued
    /\ expired \subseteq 1..issued
    /\ rejected \subseteq 1..issued

\* An operation under way has no outcome, one that is not has no leg; the
\* folder of a move has the name asked for.
CallerFits(r) ==
    /\ r.pc \in {"idle", "done"} => r.leg = "none"
    /\ r.pc \notin {"idle", "done"} => r.outcome = "none"
    /\ r.leg = "move" => FolderFits(r.folder, SameToApp(r.name))

CallerKeepsPromise(r, x) ==
    KeepsPromise(r.id, SameToApp(r.name), CallerReply(r), CallerReply(x),
                 x.id, SameToApp(x.name))

LEMMA CallerStillFits ==
    ASSUME FoldersGrow, NEW r \in CallerState, CallerFits(r)
    PROVE  CallerFits(r)'
  BY DEF CallerFits, FoldersGrow, FolderFits, SameToApp

LEMMA ResolvedType ==
    ASSUME TokensOK
    PROVE  ResolveGraphToken \in Tokens
  BY BridgeAssumption DEF TokensOK, ResolveGraphToken, TokenFromCacheFile, Tokens

LEMMA IdleCallerType ==
    /\ IdleCaller \in CallerState
    /\ IdleCaller.pc = "idle" /\ IdleCaller.leg = "none" /\ IdleCaller.outcome = "none"
  <1>1. SomeId \in Ids /\ SomeId = Unused
    BY UnusedType DEF SomeId, Unused
  <1>2. SomeName \in Names
    BY BridgeAssumption DEF SomeName
  <1>3. 0 \in Tokens /\ 0 \in 0..MaxFolders
    BY BridgeAssumption, MailboxAssumption DEF Tokens
  <1>4. QED
    BY <1>1, <1>2, <1>3 DEF IdleCaller, CallerState, Pcs, Legs, Outcomes

LEMMA FinishType ==
    ASSUME NEW outcome \in Outcomes
    PROVE  /\ Finish(outcome) \in CallerState
           /\ Finish(outcome).pc = "done" /\ Finish(outcome).leg = "none"
           /\ Finish(outcome).outcome = outcome
  <1> DEFINE a == [IdleCaller EXCEPT !.pc = "done"]
             c == [a EXCEPT !.outcome = outcome]
  <1>1. a \in CallerState /\ a.pc = "done" /\ a.leg = "none"
    BY IdleCallerType DEF CallerState, Pcs
  <1>2. Finish(outcome) = c
    BY DEF Finish
  <1> HIDE DEF a
  <1>3. c \in CallerState /\ c.pc = "done" /\ c.leg = "none" /\ c.outcome = outcome
    BY <1>1 DEF CallerState
  <1>4. QED
    BY <1>2, <1>3

\* The record r is on another leg, or another part of the same one; nothing
\* else that matters to the promise has changed.
OnLeg(x, r, pc, leg) ==
    /\ x \in CallerState /\ x.pc = pc /\ x.leg = leg
    /\ x.id = r.id /\ x.name = r.name /\ x.outcome = r.outcome

\* The fields of a caller that do not matter to it.
LEMMA SetToken ==
    ASSUME NEW r \in CallerState, NEW t \in Tokens
    PROVE  LET x == [r EXCEPT !.token = t]
           IN  OnLeg(x, r, r.pc, r.leg) /\ x.folder = r.folder /\ x.captured = r.captured
  BY DEF CallerState, OnLeg

LEMMA SetTried ==
    ASSUME NEW r \in CallerState, NEW t \in Tokens
    PROVE  LET x == [r EXCEPT !.tried = t]
           IN  OnLeg(x, r, r.pc, r.leg) /\ x.folder = r.folder /\ x.captured = r.captured
  BY DEF CallerState, OnLeg

LEMMA SetSaved ==
    ASSUME NEW r \in CallerState, NEW t \in BOOLEAN
    PROVE  LET x == [r EXCEPT !.saved = t]
           IN  OnLeg(x, r, r.pc, r.leg) /\ x.folder = r.folder /\ x.captured = r.captured
  BY DEF CallerState, OnLeg

LEMMA SetCallerPc ==
    ASSUME NEW r \in CallerState, NEW pc \in Pcs
    PROVE  LET x == [r EXCEPT !.pc = pc]
           IN  OnLeg(x, r, pc, r.leg) /\ x.folder = r.folder /\ x.captured = r.captured
  BY DEF CallerState, OnLeg

LEMMA LegType ==
    ASSUME NEW r \in CallerState, NEW leg \in Legs
    PROVE  /\ OnLeg(Leg(r, leg), r, "resolve", leg)
           /\ Leg(r, leg).captured = r.captured /\ Leg(r, leg).folder = r.folder
  <1> DEFINE a == [r EXCEPT !.pc = "resolve"]
             b == [a EXCEPT !.leg = leg]
             c == [b EXCEPT !.token = 0]
             d == [c EXCEPT !.tried = 0]
             e == [d EXCEPT !.saved = FALSE]
  <1>0. 0 \in Tokens /\ FALSE \in BOOLEAN /\ "resolve" \in Pcs
    BY BridgeAssumption DEF Tokens, Pcs
  <1>1. OnLeg(a, r, "resolve", r.leg) /\ a.folder = r.folder /\ a.captured = r.captured
    BY <1>0, SetCallerPc
  <1>2. Leg(r, leg) = e
    BY DEF Leg
  <1> HIDE DEF a
  <1>3. OnLeg(b, r, "resolve", leg) /\ b.folder = r.folder /\ b.captured = r.captured
    BY <1>1 DEF CallerState, OnLeg
  <1> HIDE DEF b
  <1>4. OnLeg(c, r, "resolve", leg) /\ c.folder = r.folder /\ c.captured = r.captured
    BY <1>0, <1>3, SetToken DEF OnLeg
  <1> HIDE DEF c
  <1>5. OnLeg(d, r, "resolve", leg) /\ d.folder = r.folder /\ d.captured = r.captured
    BY <1>0, <1>4, SetTried DEF OnLeg
  <1> HIDE DEF d
  <1>6. OnLeg(e, d, d.pc, d.leg) /\ e.folder = d.folder /\ e.captured = d.captured
    BY <1>0, <1>5, SetSaved, Zenon DEF OnLeg
  <1> HIDE DEF e
  <1>7. QED
    BY <1>2, <1>5, <1>6 DEF OnLeg

LEMMA MoveLegType ==
    ASSUME NEW r \in CallerState, NEW f \in 0..MaxFolders
    PROVE  OnLeg(MoveLeg(r, f), r, "send", "move") /\ MoveLeg(r, f).folder = f
  <1> DEFINE l == Leg(r, "move")
             a == [l EXCEPT !.pc = "send"]
             b == [a EXCEPT !.token = r.captured]
             c == [b EXCEPT !.folder = f]
  <1>0. r.captured \in Tokens /\ "send" \in Pcs /\ "move" \in Legs
    BY DEF CallerState, Pcs, Legs
  <1>1. OnLeg(l, r, "resolve", "move")
    BY <1>0, LegType
  <1>2. MoveLeg(r, f) = c
    BY DEF MoveLeg
  <1> HIDE DEF l
  <1>3. OnLeg(a, r, "send", "move")
    BY <1>0, <1>1, SetCallerPc DEF OnLeg
  <1> HIDE DEF a
  <1>4. OnLeg(b, r, "send", "move")
    BY <1>0, <1>3, SetToken DEF OnLeg
  <1> HIDE DEF b
  <1>5. OnLeg(c, r, "send", "move") /\ c.folder = f
    BY <1>4 DEF CallerState, OnLeg
  <1> HIDE DEF c
  <1>6. QED
    BY <1>2, <1>5

\* A leg that fails ends the operation or leads to the next leg; a request to
\* move a message is then refused or still open.
LEMMA LegFailedType ==
    ASSUME NEW r \in CallerState
    PROVE  \/ r.leg = "list" /\ OnLeg(LegFailed(r), r, "resolve", "create")
           \/ /\ r.leg # "list"
              /\ \E outcome \in Outcomes :
                    /\ LegFailed(r) = Finish(outcome)
                    /\ outcome # "moved"
                    /\ outcome = "unmoved" <=> r.leg \in {"create", "move"}
  <1>1. CASE r.leg = "list"
    <2>1. LegFailed(r) = Leg(r, "create") /\ "create" \in Legs
      BY <1>1 DEF LegFailed, Legs
    <2>2. QED
      BY <1>1, <2>1, LegType
  <1>2. CASE r.leg # "list"
    BY <1>2 DEF LegFailed, Outcomes
  <1>3. QED
    BY <1>1, <1>2

\* Every step of a caller: types, what it knows of folders, and the promise.
CallerGoes(b) ==
    /\ MailboxTypeOK' /\ FoldersGrow
    /\ \E x \in CallerState :
          /\ caller' = [caller EXCEPT ![b] = x]
          /\ CallerFits(x)'
          /\ CallerKeepsPromise(caller[b], x)

Busy(b) == caller[b].pc \notin {"idle", "done"}

LEMMA LegPasses ==
    ASSUME MailboxTypeOK, caller \in [Callers -> CallerState], NEW b \in Callers,
           CallerFits(caller[b]), Busy(b), UNCHANGED mailbox,
           NEW x, caller' = [caller EXCEPT ![b] = x],
           NEW pc \in Pcs \ {"idle", "done"},
           OnLeg(x, caller[b], pc, caller[b].leg), x.folder = caller[b].folder
    PROVE  CallerGoes(b)
  <1>1. MailboxTypeOK' /\ FoldersGrow /\ UNCHANGED <<place, moves>>
    BY MailboxUnchanged DEF mailbox
  <1>2. x \in CallerState /\ CallerFits(x)
    BY DEF OnLeg, CallerFits, Busy
  <1>3. CallerKeepsPromise(caller[b], x)
    BY <1>1 DEF CallerKeepsPromise, KeepsPromise, CallerReply, OnLeg, Busy
  <1>4. QED
    BY <1>1, <1>2, <1>3, CallerStillFits DEF CallerGoes

LEMMA LegFails ==
    ASSUME MailboxTypeOK, caller \in [Callers -> CallerState], NEW b \in Callers,
           CallerFits(caller[b]), Busy(b), Set(b, LegFailed(caller[b])),
           MailboxTypeOK', FoldersGrow, UNCHANGED <<place, moves>>
    PROVE  CallerGoes(b)
  <1> DEFINE r == caller[b]
  <1>1. PICK x : x = LegFailed(r) /\ caller' = [caller EXCEPT ![b] = x]
    BY DEF Set
  <1>2. r \in CallerState
    OBVIOUS
  <1>3. CASE r.leg = "list" /\ OnLeg(x, r, "resolve", "create")
    <2>1. CallerFits(x)'
      BY <1>3 DEF CallerFits, OnLeg, Busy
    <2>2. CallerKeepsPromise(r, x)
      BY <1>3 DEF CallerKeepsPromise, KeepsPromise, CallerReply, OnLeg, Busy
    <2>3. QED
      BY <1>1, <1>3, <2>1, <2>2 DEF CallerGoes, OnLeg
  <1>4. ASSUME NEW outcome \in Outcomes, x = Finish(outcome), outcome # "moved",
               r.leg # "list", outcome = "unmoved" <=> r.leg \in {"create", "move"}
        PROVE  CallerGoes(b)
    <2>1. /\ x \in CallerState /\ x.pc = "done" /\ x.leg = "none"
          /\ x.outcome = outcome
      BY <1>4, FinishType
    <2>2. CallerFits(x)'
      BY <2>1 DEF CallerFits
    <2>3. CallerKeepsPromise(r, x)
      BY <1>4, <2>1 DEF CallerKeepsPromise, KeepsPromise, CallerReply, Busy
    <2>4. QED
      BY <1>1, <2>1, <2>2, <2>3 DEF CallerGoes
  <1>5. QED
    BY <1>1, <1>2, <1>3, <1>4, LegFailedType

\* An operation that is none of a move's ends, or goes on.
LEMMA ReadGoes ==
    ASSUME MailboxTypeOK, caller \in [Callers -> CallerState], NEW b \in Callers,
           CallerFits(caller[b]), Busy(b), UNCHANGED mailbox,
           caller[b].leg \notin {"list", "create", "move"},
           \/ \E outcome \in Outcomes \ {"moved", "unmoved"} : Set(b, Finish(outcome))
           \/ Set(b, Leg(caller[b], "attachments"))
    PROVE  CallerGoes(b)
  <1> DEFINE r == caller[b]
  <1>1. MailboxTypeOK' /\ FoldersGrow /\ UNCHANGED <<place, moves>>
    BY MailboxUnchanged DEF mailbox
  <1>2. ASSUME NEW outcome \in Outcomes \ {"moved", "unmoved"}, Set(b, Finish(outcome))
        PROVE  CallerGoes(b)
    <2>1. PICK x : x = Finish(outcome) /\ caller' = [caller EXCEPT ![b] = x]
      BY <1>2 DEF Set
    <2>2. /\ x \in CallerState /\ x.pc = "done" /\ x.leg = "none"
          /\ x.outcome = outcome
      BY <2>1, FinishType
    <2>3. CallerFits(x)'
      BY <2>2 DEF CallerFits
    <2>4. CallerKeepsPromise(r, x)
      BY <1>1, <2>2 DEF CallerKeepsPromise, KeepsPromise, CallerReply, Busy
    <2>5. QED
      BY <1>1, <2>1, <2>2, <2>3, <2>4 DEF CallerGoes
  <1>3. CASE Set(b, Leg(r, "attachments"))
    <2>1. PICK x : x = Leg(r, "attachments") /\ caller' = [caller EXCEPT ![b] = x]
      BY <1>3 DEF Set
    <2>2. OnLeg(x, r, "resolve", "attachments")
      BY <2>1, LegType DEF Legs
    <2>3. CallerFits(x)'
      BY <2>2 DEF CallerFits, OnLeg, Busy
    <2>4. CallerKeepsPromise(r, x)
      BY <1>1, <2>2 DEF CallerKeepsPromise, KeepsPromise, CallerReply, OnLeg, Busy
    <2>5. QED
      BY <1>1, <2>1, <2>2, <2>3, <2>4 DEF CallerGoes, OnLeg
  <1>4. QED
    BY <1>2, <1>3

LEMMA StartGoes ==
    ASSUME MailboxTypeOK, TokensOK, caller \in [Callers -> CallerState], NEW b \in Callers,
           CallerFits(caller[b]), StartOperation(b)
    PROVE  CallerGoes(b)
  <1>1. /\ UNCHANGED mailbox
        /\ MailboxTypeOK' /\ FoldersGrow /\ UNCHANGED <<place, moves>>
    BY MailboxUnchanged DEF mailbox, StartOperation
  <1>2. CallerReply(caller[b]) # "pending"
    BY DEF StartOperation, CallerAt, CallerFits, CallerReply
  <1>3. ASSUME NEW x \in CallerState, caller' = [caller EXCEPT ![b] = x],
               \/ x.pc = "done" /\ x.leg = "none" /\ x.outcome = "unmoved"
               \/ x.pc = "resolve" /\ x.leg # "move" /\ x.outcome = "none"
        PROVE  CallerGoes(b)
    <2>1. CallerFits(x)'
      BY <1>3 DEF CallerFits
    <2>2. CallerKeepsPromise(caller[b], x)
      BY <1>1, <1>2, <1>3 DEF CallerKeepsPromise, KeepsPromise, CallerReply
    <2>3. QED
      BY <1>1, <1>3, <2>1, <2>2 DEF CallerGoes
  <1>4. PICK m \in Messages :
            LET id == [message |-> m, moves |-> moves[m]] IN
            \/ \E name \in AppNames : BeginMove(b, id, name)
            \/ \E leg \in {"message", "file", "search"} : Begin(b, id, leg)
    BY DEF StartOperation
  <1>5. PICK id \in Ids : id = [message |-> m, moves |-> moves[m]]
    BY DEF MailboxTypeOK, Ids
  <1>6. ASSUME NEW r \in CallerState, r.outcome = "none",
               NEW leg \in Legs \ {"move"}, Set(b, Leg(r, leg))
        PROVE  CallerGoes(b)
    <2>1. PICK x : x = Leg(r, leg) /\ caller' = [caller EXCEPT ![b] = x]
      BY <1>6 DEF Set
    <2>2. x \in CallerState /\ x.pc = "resolve" /\ x.leg = leg /\ x.outcome = "none"
      BY <1>6, <2>1, LegType DEF OnLeg
    <2>3. QED
      BY <1>3, <2>1, <2>2
  <1>7. ASSUME NEW name \in AppNames, BeginMove(b, id, name) PROVE CallerGoes(b)
    <2>1. CASE ResolveGraphToken = 0
      <3>1. PICK x : x = Finish("unmoved") /\ caller' = [caller EXCEPT ![b] = x]
        BY <1>7, <2>1 DEF BeginMove, Set
      <3>2. x \in CallerState /\ x.pc = "done" /\ x.leg = "none" /\ x.outcome = "unmoved"
        BY <3>1, FinishType DEF Outcomes
      <3>3. QED
        BY <1>3, <3>1, <3>2
    <2>2. CASE ResolveGraphToken # 0
      <3> DEFINE i == [IdleCaller EXCEPT !.id = id]
                 n == [i EXCEPT !.name = name]
                 c == [n EXCEPT !.captured = ResolveGraphToken]
      <3>1. Set(b, Leg(c, "list"))
        BY <1>7, <2>2 DEF BeginMove
      <3>2. i \in CallerState /\ i.outcome = "none"
        BY IdleCallerType DEF CallerState
      <3> HIDE DEF i
      <3>3. n \in CallerState /\ n.outcome = "none"
        BY <3>2, BridgeAssumption DEF CallerState
      <3> HIDE DEF n
      <3>4. c \in CallerState /\ c.outcome = "none"
        BY <3>3, ResolvedType DEF CallerState
      <3> HIDE DEF c
      <3>5. "list" \in Legs \ {"move"}
        BY DEF Legs
      <3>6. QED
        BY <1>6, <3>1, <3>4, <3>5
    <2>3. QED
      BY <2>1, <2>2
  <1>8. ASSUME NEW leg \in {"message", "file", "search"}, Begin(b, id, leg) PROVE CallerGoes(b)
    <2>1. PICK r : r = [IdleCaller EXCEPT !.id = id] /\ Set(b, Leg(r, leg))
      BY <1>8 DEF Begin
    <2>2. r \in CallerState /\ r.outcome = "none"
      BY <2>1, IdleCallerType DEF CallerState
    <2>3. leg \in Legs \ {"move"}
      BY DEF Legs
    <2>4. QED
      BY <1>6, <2>1, <2>2, <2>3
  <1>9. QED
    BY <1>4, <1>5, <1>7, <1>8

LEMMA CallerStepGoes ==
    ASSUME MailboxTypeOK, TokensOK, caller \in [Callers -> CallerState], NEW b \in Callers,
           CallerFits(caller[b]), CallerStep(b)
    PROVE  CallerGoes(b)
  <1> DEFINE r == caller[b]
  <1>r. r \in CallerState
    OBVIOUS
  <1>u. UNCHANGED mailbox => MailboxTypeOK' /\ FoldersGrow /\ UNCHANGED <<place, moves>>
    BY MailboxUnchanged DEF mailbox
  <1>t. ResolveGraphToken \in Tokens /\ r.token \in Tokens
    BY ResolvedType DEF CallerState
  <1>f. ASSUME Busy(b), UNCHANGED mailbox, Set(b, LegFailed(r)) PROVE CallerGoes(b)
    BY <1>f, <1>u, LegFails
  <1>s. ASSUME Busy(b), UNCHANGED mailbox,
               Set(b, [r EXCEPT !.pc = "send", !.token = ResolveGraphToken])
        PROVE  CallerGoes(b)
    <2> DEFINE y == [r EXCEPT !.pc = "send"]
    <2>1. OnLeg(y, r, "send", r.leg) /\ y.folder = r.folder
      BY <1>r, SetCallerPc DEF Pcs
    <2>2. PICK x : /\ x = [y EXCEPT !.token = ResolveGraphToken]
                   /\ caller' = [caller EXCEPT ![b] = x]
      BY <1>s DEF Set
    <2> HIDE DEF y
    <2>3. OnLeg(x, r, "send", r.leg) /\ x.folder = r.folder
      BY <1>t, <2>1, <2>2, SetToken DEF OnLeg
    <2>4. QED
      BY <1>s, <2>2, <2>3, LegPasses DEF Pcs
  <1>1. CASE ResolveToken(b)
    BY <1>1, <1>f, <1>s DEF ResolveToken, CallerAt, Busy
  <1>2. CASE Unauthorized(b)
    <2>1. Busy(b) /\ UNCHANGED mailbox
      BY <1>2 DEF Unauthorized, CallerAt, Busy, mailbox
    <2>2. CASE Set(b, [r EXCEPT !.pc = "refresh", !.tried = r.token])
      <3> DEFINE y == [r EXCEPT !.pc = "refresh"]
      <3>1. OnLeg(y, r, "refresh", r.leg) /\ y.folder = r.folder
        BY <1>r, SetCallerPc DEF Pcs
      <3>2. PICK x : /\ x = [y EXCEPT !.tried = r.token]
                     /\ caller' = [caller EXCEPT ![b] = x]
        BY <2>2 DEF Set
      <3> HIDE DEF y
      <3>3. OnLeg(x, r, "refresh", r.leg) /\ x.folder = r.folder
        BY <1>t, <3>1, <3>2, SetTried DEF OnLeg
      <3>4. QED
        BY <2>1, <3>2, <3>3, LegPasses DEF Pcs
    <2>3. QED
      BY <1>2, <1>f, <2>1, <2>2 DEF Unauthorized
  <1>3. CASE AttemptRefreshGraphToken(b)
    <2>1. Busy(b) /\ UNCHANGED mailbox
      BY <1>3 DEF AttemptRefreshGraphToken, CallerAt, Busy, mailbox
    <2>2. ASSUME NEW saved \in BOOLEAN, Set(b, [r EXCEPT !.pc = "again", !.saved = saved])
          PROVE  CallerGoes(b)
      <3> DEFINE y == [r EXCEPT !.pc = "again"]
      <3>1. OnLeg(y, r, "again", r.leg) /\ y.folder = r.folder
        BY <1>r, SetCallerPc DEF Pcs
      <3>2. PICK x : /\ x = [y EXCEPT !.saved = saved]
                     /\ caller' = [caller EXCEPT ![b] = x]
        BY <2>2 DEF Set
      <3> HIDE DEF y
      <3>3. OnLeg(x, r, "again", r.leg) /\ x.folder = r.folder
        BY <3>1, <3>2, SetSaved DEF OnLeg
      <3>4. QED
        BY <2>1, <3>2, <3>3, LegPasses DEF Pcs
    <2>3. \/ Set(b, LegFailed(r))
          \/ \E saved \in BOOLEAN : Set(b, [r EXCEPT !.pc = "again", !.saved = saved])
      BY <1>3 DEF AttemptRefreshGraphToken
    <2>4. QED
      BY <1>f, <2>1, <2>2, <2>3
  <1>4. CASE ResolveAgain(b)
    BY <1>4, <1>f, <1>s DEF ResolveAgain, CallerAt, Busy
  <1>5. CASE FailingLeg(b)
    BY <1>5, <1>f DEF FailingLeg, CallerAt, Busy
  <1>6. CASE FindMailFolder(b)
    <2>1. /\ Busy(b) /\ r.leg = "list" /\ UNCHANGED mailbox
          /\ CallerReply(r) = "pending" /\ r.outcome = "none"
      BY <1>6 DEF FindMailFolder, AcceptedFor, CallerAt, Busy, CallerFits, CallerReply
    <2>2. CASE Set(b, Leg(r, "create"))
      <3>1. PICK x : x = Leg(r, "create") /\ caller' = [caller EXCEPT ![b] = x]
        BY <2>2 DEF Set
      <3>2. OnLeg(x, r, "resolve", "create")
        BY <3>1, LegType DEF Legs
      <3>3. CallerFits(x)' /\ CallerKeepsPromise(r, x)
        BY <1>u, <2>1, <3>2
           DEF CallerFits, CallerKeepsPromise, KeepsPromise, CallerReply, OnLeg
      <3>4. QED
        BY <1>u, <2>1, <3>1, <3>2, <3>3 DEF CallerGoes, OnLeg
    <2>3. ASSUME NEW f \in Listing(FolderPage), folders[f] \in SameToApp(r.name),
                 Set(b, MoveLeg(r, f))
          PROVE  CallerGoes(b)
      <3>1. f \in DOMAIN folders /\ FolderFits(f, SameToApp(r.name))
        BY <2>3 DEF Listing, Existing, FolderFits
      <3>2. f \in 0..MaxFolders
        BY <3>1, FoldersDomain, MailboxAssumption
      <3>3. PICK x : x = MoveLeg(r, f) /\ caller' = [caller EXCEPT ![b] = x]
        BY <2>3 DEF Set
      <3>4. OnLeg(x, r, "send", "move") /\ x.folder = f
        BY <1>r, <3>2, <3>3, MoveLegType
      <3>5. CallerFits(x) /\ CallerKeepsPromise(r, x)
        BY <1>u, <2>1, <3>1, <3>4
           DEF CallerFits, CallerKeepsPromise, KeepsPromise, CallerReply, OnLeg
      <3>6. QED
        BY <1>u, <2>1, <3>3, <3>4, <3>5, CallerStillFits DEF CallerGoes, OnLeg
    <2>4. QED
      BY <1>6, <2>2, <2>3 DEF FindMailFolder
  <1>7. CASE CreateMailFolder(b)
    <2>1. /\ Busy(b) /\ r.leg = "create" /\ r.name \in Names
          /\ CallerReply(r) = "pending" /\ r.outcome = "none"
      BY <1>7 DEF CreateMailFolder, AcceptedFor, CallerAt, Busy, CallerFits, CallerReply,
                  CallerState
    <2>2. /\ MailboxTypeOK' /\ FoldersGrow
          /\ Len(folders) + 1 \in DOMAIN folders' /\ Len(folders) + 1 \in 0..MaxFolders
          /\ folders'[Len(folders) + 1] = r.name
          /\ UNCHANGED <<place, moves>>
      BY <1>7, <2>1, CreateFolderGrows DEF CreateMailFolder, CreateFolder
    <2>3. CASE Set(b, MoveLeg(r, Len(folders) + 1))
      <3>1. PICK f \in 0..MaxFolders : f = Len(folders) + 1
        BY <2>2
      <3>2. PICK x : x = MoveLeg(r, f) /\ caller' = [caller EXCEPT ![b] = x]
        BY <2>3, <3>1 DEF Set
      <3>3. OnLeg(x, r, "send", "move") /\ x.folder = f
        BY <1>r, <3>2, MoveLegType
      <3>4. CallerFits(x)'
        BY <2>1, <2>2, <3>1, <3>3 DEF CallerFits, FolderFits, SameToApp, OnLeg
      <3>5. CallerKeepsPromise(r, x)
        BY <2>1, <2>2, <3>3 DEF CallerKeepsPromise, KeepsPromise, CallerReply, OnLeg
      <3>6. QED
        BY <2>2, <3>2, <3>3, <3>4, <3>5 DEF CallerGoes, OnLeg
    <2>4. QED
      BY <1>7, <2>1, <2>2, <2>3, LegFails DEF CreateMailFolder
  <1>8. CASE MailFolderConflicts(b)
    BY <1>8, <1>f DEF MailFolderConflicts, AcceptedFor, CallerAt, Busy
  <1>9. CASE PostMove(b)
    <2>1. /\ Busy(b) /\ r.leg = "move" /\ CallerReply(r) = "pending"
          /\ r.folder \in DOMAIN folders /\ FolderFits(r.folder, SameToApp(r.name))
          /\ r.id \in Ids /\ MoveMessageTo(r.id, r.folder)
      BY <1>9 DEF PostMove, AcceptedFor, CallerAt, Busy, CallerFits, FolderFits, CallerReply,
                  CallerState
    <2>2. MailboxTypeOK' /\ FoldersGrow
      BY <2>1, MoveMessageGrows
    <2>3. \E outcome \in {"moved", "unmoved"} : Set(b, Finish(outcome))
      BY <1>9, <2>1 DEF PostMove, LegFailed
    <2>4. PICK outcome \in {"moved", "unmoved"} :
              \E x : x = Finish(outcome) /\ caller' = [caller EXCEPT ![b] = x]
      BY <2>3 DEF Set
    <2>5. PICK x : x = Finish(outcome) /\ caller' = [caller EXCEPT ![b] = x]
      BY <2>4
    <2>6. /\ x \in CallerState /\ x.pc = "done" /\ x.leg = "none"
          /\ x.outcome \in {"moved", "unmoved"}
      BY <2>5, FinishType DEF Outcomes
    <2>7. CallerFits(x)'
      BY <2>6 DEF CallerFits
    <2>8. CallerKeepsPromise(r, x)
      BY <2>1, <2>6 DEF CallerKeepsPromise, KeepsPromise, CallerReply
    <2>9. QED
      BY <2>2, <2>5, <2>6, <2>7, <2>8 DEF CallerGoes
  <1>10. CASE NotFound(b)
    BY <1>10, <1>f DEF NotFound, AcceptedFor, CallerAt, Busy
  <1>11. CASE GetMessagePayload(b) \/ GetAttachments(b) \/ OpenAttachmentFile(b)
              \/ GetSearchPage(b)
    <2>1. /\ Busy(b) /\ UNCHANGED mailbox /\ r.leg \notin {"list", "create", "move"}
          /\ \/ \E outcome \in Outcomes \ {"moved", "unmoved"} : Set(b, Finish(outcome))
             \/ Set(b, Leg(r, "attachments"))
      BY <1>11 DEF GetMessagePayload, GetAttachments, OpenAttachmentFile, GetSearchPage,
                   AcceptedFor, CallerAt, Busy, Outcomes
    <2>2. QED
      BY <2>1, ReadGoes
  <1>12. QED
    BY <1>1, <1>2, <1>3, <1>4, <1>5, <1>6, <1>7, <1>8, <1>9, <1>10, <1>11 DEF CallerStep

-----------------------------------------------------------------------------
(* All of them together                                                    *)

ClientsInv ==
    /\ TypeOK
    /\ \A w \in Workers : WorkerFits(worker[w])
    /\ \A b \in Callers : CallerFits(caller[b])

\* What one step does: a worker or a caller takes it, or neither.
ClientsStep ==
    /\ MailboxTypeOK' /\ FoldersGrow
    /\ \/ \E w \in Workers : WorkerGoes(w) /\ UNCHANGED caller
       \/ \E b \in Callers : CallerGoes(b) /\ UNCHANGED worker
       \/ UNCHANGED <<worker, caller>> /\ (UNCHANGED <<place, moves>> \/ OwnerMoves)

LEMMA ClientsInvInit == Init => ClientsInv
  <1> SUFFICES ASSUME Init PROVE ClientsInv
    OBVIOUS
  <1>1. MailboxTypeOK
    BY MailboxAssumption DEF Init, MailboxInit, MailboxTypeOK, Inbox
  <1>2. /\ environment \in Environments
        /\ worker \in [Workers -> WorkerState]
        /\ \A w \in Workers : WorkerFits(worker[w])
    BY IdleWorkerType DEF Init, ApiInit, WorkerFits
  <1>3. /\ caller \in [Callers -> CallerState]
        /\ \A b \in Callers : CallerFits(caller[b])
    BY IdleCallerType DEF Init, BridgeInit, CallerFits
  <1>4. TokensOK
    BY BridgeAssumption DEF Init, BridgeInit, TokensOK
  <1>5. QED
    BY <1>1, <1>2, <1>3, <1>4 DEF ClientsInv, TypeOK, TokensOK

\* A refresh only adds a token.
LEMMA TokensStayOK ==
    ASSUME TokensOK, NEW b \in Callers, StartOperation(b) \/ CallerStep(b)
    PROVE  TokensOK'
  <1>1. CASE UNCHANGED tokens
    BY <1>1 DEF tokens, TokensOK
  <1>2. CASE AttemptRefreshGraphToken(b)
    <2>1. CASE UNCHANGED <<cached, issued>>
      BY <1>2, <2>1 DEF AttemptRefreshGraphToken, TokensOK
    <2>2. CASE /\ issued < MaxTokens /\ issued' = issued + 1
               /\ cached' \in {issued + 1, cached}
      <3>1. issued \in 1..MaxTokens /\ MaxTokens \in Nat
        BY BridgeAssumption DEF TokensOK
      <3>2. issued' \in 1..MaxTokens /\ cached' \in 0..issued' /\ 1..issued \subseteq 1..issued'
        BY <2>2, <3>1 DEF TokensOK
      <3>3. QED
        BY <1>2, <3>2 DEF AttemptRefreshGraphToken, TokensOK
    <2>3. QED
      BY <1>2, <2>1, <2>2 DEF AttemptRefreshGraphToken
  <1>3. StartOperation(b) => UNCHANGED tokens
    BY DEF StartOperation
  <1>4. CallerStep(b) => UNCHANGED tokens \/ AttemptRefreshGraphToken(b)
    BY DEF CallerStep, ResolveToken, Unauthorized, ResolveAgain, FailingLeg, FindMailFolder,
           CreateMailFolder, MailFolderConflicts, PostMove, NotFound, GetMessagePayload,
           GetAttachments, OpenAttachmentFile, GetSearchPage
  <1>5. QED
    BY <1>1, <1>2, <1>3, <1>4

LEMMA WorldGoes ==
    ASSUME MailboxTypeOK, TokensOK, World
    PROVE  TokensOK' /\ UNCHANGED <<caller, mailbox>>
  <1>1. CASE OthersRefresh
    BY <1>1, BridgeAssumption DEF OthersRefresh, TokensOK
  <1>2. CASE TokenExpires
    BY <1>2 DEF TokenExpires, TokensOK
  <1>3. CASE TokenRejected
    BY <1>3 DEF TokenRejected, TokensOK
  <1>4. QED
    BY <1>1, <1>2, <1>3 DEF World

LEMMA StepGoes ==
    ASSUME ClientsInv, [Next]_vars
    PROVE  ClientsStep /\ TokensOK' /\ environment' \in Environments
  <1>t. MailboxTypeOK /\ TokensOK /\ environment \in Environments
    BY DEF ClientsInv, TypeOK, TokensOK
  <1>w. ASSUME NEW w \in Workers
        PROVE  worker \in [Workers -> WorkerState] /\ WorkerFits(worker[w])
    BY DEF ClientsInv, TypeOK
  <1>b. ASSUME NEW b \in Callers
        PROVE  caller \in [Callers -> CallerState] /\ CallerFits(caller[b])
    BY DEF ClientsInv, TypeOK
  <1>1. ASSUME NEW w \in Workers, Receive(w) \/ WorkerStep(w), UNCHANGED bridgeVars
        PROVE  ClientsStep /\ TokensOK' /\ environment' \in Environments
    <2>1. WorkerGoes(w)
      BY <1>t, <1>w, <1>1, ReceiveGoes, WorkerStepGoes
    <2>2. TokensOK' /\ UNCHANGED caller
      BY <1>t, <1>1 DEF bridgeVars, tokens, TokensOK
    <2>3. UNCHANGED environment
      BY <1>1 DEF Receive, WorkerStep, FailingCall, ListFolders, CreateMissingFolder,
                  CreateConflicts, MoveMessage, MoveNotFound, GetMessage, SearchMessages
    <2>4. QED
      BY <1>t, <2>1, <2>2, <2>3 DEF ClientsStep, WorkerGoes
  <1>2. ASSUME NEW b \in Callers, StartOperation(b) \/ CallerStep(b), UNCHANGED apiVars
        PROVE  ClientsStep /\ TokensOK' /\ environment' \in Environments
    <2>1. CallerGoes(b)
      BY <1>t, <1>b, <1>2, StartGoes, CallerStepGoes
    <2>2. TokensOK'
      BY <1>t, <1>2, TokensStayOK
    <2>3. QED
      BY <1>t, <1>2, <2>1, <2>2 DEF ClientsStep, CallerGoes, apiVars
  <1>3. CASE World /\ UNCHANGED apiVars
    <2>1. TokensOK' /\ UNCHANGED <<caller, mailbox>>
      BY <1>t, <1>3, WorldGoes
    <2>2. QED
      BY <1>t, <1>3, <2>1, MailboxUnchanged DEF ClientsStep, apiVars, mailbox
  <1>4. CASE Owner /\ UNCHANGED <<apiVars, bridgeVars>>
    <2>1. MailboxTypeOK' /\ FoldersGrow
      BY <1>t, <1>4, OwnerGrows
    <2>2. UNCHANGED <<place, moves>> \/ OwnerMoves
      BY <1>4 DEF Owner, OwnerDeletesFolder
    <2>3. QED
      BY <1>t, <1>4, <2>1, <2>2 DEF ClientsStep, apiVars, bridgeVars, tokens, TokensOK
  <1>5. CASE UNCHANGED vars
    BY <1>t, <1>5, MailboxUnchanged
       DEF vars, apiVars, bridgeVars, tokens, TokensOK, mailbox, ClientsStep
  <1>6. QED
    BY <1>1, <1>2, <1>3, <1>4, <1>5 DEF Next

\* What is known of a worker or caller is known of its record, whenever.
LEMMA WorkerFitsNext ==
    ASSUME NEW w \in Workers, NEW x, worker'[w] = x, WorkerFits(x)'
    PROVE  WorkerFits(worker[w])'
  BY DEF WorkerFits, FolderFits, SameInAscii

LEMMA CallerFitsNext ==
    ASSUME NEW b \in Callers, NEW x, caller'[b] = x, CallerFits(x)'
    PROVE  CallerFits(caller[b])'
  BY DEF CallerFits, FolderFits, SameToApp

LEMMA ClientsInvStep == ClientsInv /\ [Next]_vars => ClientsInv'
  <1> SUFFICES ASSUME ClientsInv, [Next]_vars PROVE ClientsInv'
    OBVIOUS
  <1>1. ClientsStep /\ TokensOK' /\ environment' \in Environments
    BY StepGoes
  <1>2. /\ worker \in [Workers -> WorkerState] /\ caller \in [Callers -> CallerState]
        /\ FoldersGrow
    BY <1>1 DEF ClientsInv, TypeOK, ClientsStep
  <1>3. \E r \in [Workers -> WorkerState] :
            worker' = r /\ \A w \in Workers : WorkerFits(r[w])'
    <2>1. ASSUME NEW w \in Workers PROVE WorkerFits(worker[w])
      BY DEF ClientsInv
    <2>2. ASSUME NEW w \in Workers PROVE \E x \in WorkerState : x = worker[w] /\ WorkerFits(x)'
      <3>1. PICK x \in WorkerState : x = worker[w]
        BY <1>2
      <3>2. WorkerFits(x)
        BY <2>1, <3>1
      <3>3. QED
        BY <1>2, <3>1, <3>2, WorkerStillFits
    <2>3. CASE UNCHANGED worker
      <3>1. PICK r \in [Workers -> WorkerState] : r = worker
        BY <1>2
      <3>2. QED
        BY <2>2, <2>3, <3>1
    <2>4. ASSUME NEW v \in Workers, WorkerGoes(v)
          PROVE  \E r \in [Workers -> WorkerState] :
                     worker' = r /\ \A w \in Workers : WorkerFits(r[w])'
      <3>1. PICK x \in WorkerState : worker' = [worker EXCEPT ![v] = x] /\ WorkerFits(x)'
        BY <2>4 DEF WorkerGoes
      <3>2. PICK r \in [Workers -> WorkerState] : r = [worker EXCEPT ![v] = x]
        BY <1>2
      <3>3. ASSUME NEW w \in Workers PROVE WorkerFits(r[w])'
        <4>1. CASE w = v
          BY <1>2, <3>1, <3>2, <4>1
        <4>2. CASE w # v
          BY <1>2, <2>2, <3>2, <4>2
        <4>3. QED
          BY <4>1, <4>2
      <3>4. QED
        BY <3>1, <3>2, <3>3
    <2>5. QED
      BY <1>1, <2>3, <2>4 DEF ClientsStep
  <1>4. \E r \in [Callers -> CallerState] :
            caller' = r /\ \A b \in Callers : CallerFits(r[b])'
    <2>1. ASSUME NEW b \in Callers PROVE CallerFits(caller[b])
      BY DEF ClientsInv
    <2>2. ASSUME NEW b \in Callers PROVE \E x \in CallerState : x = caller[b] /\ CallerFits(x)'
      <3>1. PICK x \in CallerState : x = caller[b]
        BY <1>2
      <3>2. CallerFits(x)
        BY <2>1, <3>1
      <3>3. QED
        BY <1>2, <3>1, <3>2, CallerStillFits
    <2>3. CASE UNCHANGED caller
      <3>1. PICK r \in [Callers -> CallerState] : r = caller
        BY <1>2
      <3>2. QED
        BY <2>2, <2>3, <3>1
    <2>4. ASSUME NEW v \in Callers, CallerGoes(v)
          PROVE  \E r \in [Callers -> CallerState] :
                     caller' = r /\ \A b \in Callers : CallerFits(r[b])'
      <3>1. PICK x \in CallerState : caller' = [caller EXCEPT ![v] = x] /\ CallerFits(x)'
        BY <2>4 DEF CallerGoes
      <3>2. PICK r \in [Callers -> CallerState] : r = [caller EXCEPT ![v] = x]
        BY <1>2
      <3>3. ASSUME NEW b \in Callers PROVE CallerFits(r[b])'
        <4>1. CASE b = v
          BY <1>2, <3>1, <3>2, <4>1
        <4>2. CASE b # v
          BY <1>2, <2>2, <3>2, <4>2
        <4>3. QED
          BY <4>1, <4>2
      <3>4. QED
        BY <3>1, <3>2, <3>3
    <2>5. QED
      BY <1>1, <2>3, <2>4 DEF ClientsStep
  <1>5. \A w \in Workers : WorkerFits(worker[w])'
    BY <1>3, WorkerFitsNext
  <1>6. \A b \in Callers : CallerFits(caller[b])'
    BY <1>4, CallerFitsNext
  <1>7. QED
    BY <1>1, <1>3, <1>4, <1>5, <1>6 DEF ClientsInv, TypeOK, TokensOK, ClientsStep

LEMMA ClientsInvariant == Spec => []ClientsInv
  BY ClientsInvInit, ClientsInvStep, PTL DEF Spec

\* Every variable keeps its type, whatever the requests, the folders and the
\* tokens (MailClients.tla): a worker's and a caller's folder is one there is.
THEOREM ClientsTypeCorrect == Spec => []TypeOK
  <1>1. ClientsInv => TypeOK
    BY DEF ClientsInv
  <1>2. QED
    BY <1>1, ClientsInvariant, PTL

-----------------------------------------------------------------------------
(* The clients keep the promise of Filing                                  *)

Clients == Workers \cup Callers

LEMMA RequestType ==
    ASSUME NEW id \in Ids, NEW names \in SUBSET Names
    PROVE  MoveRequest(id, names) \in FiledMoves!Request
  BY DEF MoveRequest, FiledMoves!Request, Ids

\* Folders come and go, but a message that stays where it is keeps its label.
LEMMA LabelStays ==
    ASSUME MailboxTypeOK, FoldersGrow, NEW m \in Messages, place'[m] = place[m]
    PROVE  LabelOf(m)' = LabelOf(m)
  <1>1. place[m] = Inbox \/ place[m] \in DOMAIN folders
    BY DEF MailboxTypeOK
  <1>2. QED
    BY <1>1 DEF LabelOf, FoldersGrow

Labelled == [m \in Messages |-> LabelOf(m)]

LEMMA LabelsStay ==
    ASSUME MailboxTypeOK, FoldersGrow, UNCHANGED place
    PROVE  UNCHANGED Labelled
  BY LabelStays DEF Labelled

LEMMA MovedLabel ==
    ASSUME MailboxTypeOK, FoldersGrow, NEW m \in Messages,
           NEW f \in DOMAIN folders \cup {Inbox},
           place' = [place EXCEPT ![m] = f], UNCHANGED folders
    PROVE  Labelled' = [Labelled EXCEPT ![m] = IF f = Inbox THEN "Inbox" ELSE folders[f]]
  <1>1. place'[m] = f /\ \A n \in Messages : n # m => place'[n] = place[n]
    BY DEF MailboxTypeOK
  <1>2. LabelOf(m)' = IF f = Inbox THEN "Inbox" ELSE folders[f]
    BY <1>1 DEF LabelOf, Inbox
  <1>3. ASSUME NEW n \in Messages, n # m PROVE LabelOf(n)' = LabelOf(n)
    BY <1>1, <1>3, LabelStays
  <1>4. QED
    BY <1>2, <1>3 DEF Labelled

\* A step of client c that keeps the promise is one of Filing.
LEMMA PromiseIsKept ==
    ASSUME MailboxTypeOK, FoldersGrow, NEW c \in Clients,
           NEW id \in Ids, NEW names \in SUBSET Names, NEW before,
           NEW nextId \in Ids, NEW nextNames \in SUBSET Names, NEW after,
           RequestOf(c) = MoveRequest(id, names), ReplyTo(c) = before,
           RequestOf(c)' = MoveRequest(nextId, nextNames), ReplyTo(c)' = after,
           \A d \in Clients \ {c} : RequestOf(d)' = RequestOf(d) /\ ReplyTo(d)' = ReplyTo(d),
           KeepsPromise(id, names, before, after, nextId, nextNames)
    PROVE  [FiledMoves!Next]_(FiledMoves!vars)
  <1> DEFINE request == [d \in Clients |-> RequestOf(d)]
             reply == [d \in Clients |-> ReplyTo(d)]
  <1>1. /\ request' = [request EXCEPT ![c] = MoveRequest(nextId, nextNames)]
        /\ reply' = [reply EXCEPT ![c] = after]
        /\ request[c] = MoveRequest(id, names) /\ reply[c] = before
    OBVIOUS
  <1>2. ASSUME NEW answer, after = answer PROVE FiledMoves!Becomes(c, answer)
    BY <1>1, <1>2, RequestType DEF FiledMoves!Becomes, Clients
  <1>3. ASSUME UNCHANGED <<place, moves>>
        PROVE  UNCHANGED <<Labelled, moves>>
    BY <1>3, LabelsStay
  <1>4. CASE /\ after = before /\ nextId = id /\ nextNames = names
             /\ UNCHANGED <<place, moves>>
    <2>1. request' = request /\ reply' = reply
      BY <1>1, <1>4
    <2>2. QED
      BY <1>3, <1>4, <2>1 DEF FiledMoves!vars, Labelled, Clients
  <1>5. CASE /\ before # "pending" /\ after \in {"pending", "failed", "none"}
             /\ UNCHANGED <<place, moves>>
    <2>1. FiledMoves!Ask(c)
      BY <1>1, <1>2, <1>3, <1>5 DEF FiledMoves!Ask, Labelled, Clients
    <2>2. QED
      BY <2>1 DEF FiledMoves!Next, Clients
  <1>6. CASE /\ before = "pending" /\ after = "failed"
             /\ UNCHANGED <<place, moves>>
    <2>1. FiledMoves!Fail(c)
      BY <1>1, <1>2, <1>3, <1>6 DEF FiledMoves!Fail, Labelled, Clients
    <2>2. QED
      BY <2>1 DEF FiledMoves!Next, Clients
  <1>7. ASSUME before = "pending", after \in {"moved", "failed"},
               NEW f \in DOMAIN folders, FolderFits(f, names), MoveMessageTo(id, f)
        PROVE  [FiledMoves!Next]_(FiledMoves!vars)
    <2>1. /\ MoveRequest(id, names).message = id.message
          /\ MoveRequest(id, names).moves = id.moves
          /\ MoveRequest(id, names).names = names
      BY DEF MoveRequest
    <2>2. id.message \in Messages /\ f # Inbox
      BY FoldersDomain DEF Ids, Inbox
    <2>3. \E l \in names : Labelled' = [Labelled EXCEPT ![id.message] = l]
      <3>1. /\ place' = [place EXCEPT ![id.message] = f] /\ UNCHANGED folders
            /\ folders[f] \in names
        BY <1>7 DEF MoveMessageTo, FolderFits
      <3>2. PICK m \in Messages : m = id.message
        BY <2>2
      <3>3. Labelled' = [Labelled EXCEPT ![m] = IF f = Inbox THEN "Inbox" ELSE folders[f]]
        BY <3>1, <3>2, MovedLabel
      <3>4. QED
        BY <2>2, <3>1, <3>2, <3>3
    <2>4. /\ moves[id.message] = id.moves /\ id.moves < MaxMoves
          /\ moves' = [moves EXCEPT ![id.message] = @ + 1]
      BY <1>7 DEF MoveMessageTo, CanMove, IsCurrent
    <2>5. FiledMoves!File(c)
      BY <1>1, <1>2, <1>7, <2>1, <2>3, <2>4 DEF FiledMoves!File, Labelled, Clients
    <2>6. QED
      BY <2>5 DEF FiledMoves!Next, Clients
  <1>8. QED
    BY <1>4, <1>5, <1>6, <1>7 DEF KeepsPromise

\* The initial states and the steps of the clients are those of Filing.
LEMMA FilingInit == Init /\ ClientsInv => FiledMoves!Init
  <1> SUFFICES ASSUME Init, ClientsInv PROVE FiledMoves!Init
    OBVIOUS
  <1>1. \A m \in Messages : LabelOf(m) = "Inbox"
    BY DEF Init, MailboxInit, LabelOf
  <1>2. ASSUME NEW c \in Clients
        PROVE  RequestOf(c) \in FiledMoves!Request /\ ReplyTo(c) = "none"
    <2>1. CASE c \in Workers
      <3>1. worker[c] = IdleWorker /\ worker[c].id \in Ids /\ worker[c].name \in Names
        BY <2>1, IdleWorkerType DEF Init, ApiInit, WorkerState
      <3>2. QED
        BY <2>1, <3>1, IdleWorkerType, RequestType DEF RequestOf, ReplyTo, WorkerReply, SameInAscii
    <2>2. CASE c \in Callers /\ c \notin Workers
      <3>1. caller[c] = IdleCaller /\ caller[c].id \in Ids /\ caller[c].name \in Names
        BY <2>2, IdleCallerType DEF Init, BridgeInit, CallerState
      <3>2. QED
        BY <2>2, <3>1, IdleCallerType, RequestType DEF RequestOf, ReplyTo, CallerReply, SameToApp
    <2>3. QED
      BY <1>2, <2>1, <2>2 DEF Clients
  <1>3. QED
    BY <1>1, <1>2 DEF FiledMoves!Init, Clients, Init, MailboxInit

LEMMA FilingStep == ClientsInv /\ ClientsInv' /\ [Next]_vars => [FiledMoves!Next]_(FiledMoves!vars)
  <1> SUFFICES ASSUME ClientsInv, ClientsInv', [Next]_vars
               PROVE  [FiledMoves!Next]_(FiledMoves!vars)
    OBVIOUS
  <1>1. ClientsStep /\ MailboxTypeOK /\ FoldersGrow
        /\ worker \in [Workers -> WorkerState] /\ caller \in [Callers -> CallerState]
    BY StepGoes DEF ClientsInv, TypeOK, ClientsStep
  <1>2. ASSUME NEW w \in Workers, WorkerGoes(w), UNCHANGED caller
        PROVE  [FiledMoves!Next]_(FiledMoves!vars)
    <2>1. PICK x \in WorkerState :
              worker' = [worker EXCEPT ![w] = x] /\ WorkerKeepsPromise(worker[w], x)
      BY <1>2 DEF WorkerGoes
    <2>2. worker'[w] = x /\ \A d \in Workers \ {w} : worker'[d] = worker[d]
      BY <1>1, <2>1
    <2>3. /\ RequestOf(w) = MoveRequest(worker[w].id, SameInAscii(worker[w].name))
          /\ ReplyTo(w) = WorkerReply(worker[w])
          /\ RequestOf(w)' = MoveRequest(x.id, SameInAscii(x.name))
          /\ ReplyTo(w)' = WorkerReply(x)
      BY <2>2 DEF RequestOf, ReplyTo, MoveRequest, WorkerReply, SameInAscii
    <2>4. \A d \in Clients \ {w} : RequestOf(d)' = RequestOf(d) /\ ReplyTo(d)' = ReplyTo(d)
      <3> SUFFICES ASSUME NEW d \in Clients \ {w}
                   PROVE  RequestOf(d)' = RequestOf(d) /\ ReplyTo(d)' = ReplyTo(d)
        OBVIOUS
      <3>1. caller' = caller /\ (d \in Workers => worker'[d] = worker[d])
        BY <1>2, <2>2
      <3>2. QED
        BY <3>1 DEF RequestOf, ReplyTo, MoveRequest, WorkerReply, CallerReply,
                    SameInAscii, SameToApp
    <2>5. /\ worker[w].id \in Ids /\ SameInAscii(worker[w].name) \in SUBSET Names
          /\ x.id \in Ids /\ SameInAscii(x.name) \in SUBSET Names /\ w \in Clients
      BY <1>1, <2>1 DEF WorkerState, Clients, SameInAscii
    <2>6. QED
      BY <1>1, <2>1, <2>3, <2>4, <2>5, PromiseIsKept DEF WorkerKeepsPromise
  <1>3. ASSUME NEW b \in Callers, CallerGoes(b), UNCHANGED worker
        PROVE  [FiledMoves!Next]_(FiledMoves!vars)
    <2>1. PICK x \in CallerState :
              caller' = [caller EXCEPT ![b] = x] /\ CallerKeepsPromise(caller[b], x)
      BY <1>3 DEF CallerGoes
    <2>2. /\ caller'[b] = x /\ \A d \in Callers \ {b} : caller'[d] = caller[d]
          /\ b \notin Workers
      BY <1>1, <2>1, ClientsAssumption
    <2>3. /\ RequestOf(b) = MoveRequest(caller[b].id, SameToApp(caller[b].name))
          /\ ReplyTo(b) = CallerReply(caller[b])
          /\ RequestOf(b)' = MoveRequest(x.id, SameToApp(x.name))
          /\ ReplyTo(b)' = CallerReply(x)
      BY <2>2 DEF RequestOf, ReplyTo, MoveRequest, CallerReply, SameToApp
    <2>4. \A d \in Clients \ {b} : RequestOf(d)' = RequestOf(d) /\ ReplyTo(d)' = ReplyTo(d)
      BY <1>3, <2>2 DEF Clients, RequestOf, ReplyTo, MoveRequest, WorkerReply, CallerReply,
             SameInAscii, SameToApp
    <2>5. /\ caller[b].id \in Ids /\ SameToApp(caller[b].name) \in SUBSET Names
          /\ x.id \in Ids /\ SameToApp(x.name) \in SUBSET Names /\ b \in Clients
      BY <1>1, <2>1 DEF CallerState, Clients, SameToApp
    <2>6. QED
      BY <1>1, <2>1, <2>3, <2>4, <2>5, PromiseIsKept DEF CallerKeepsPromise
  <1>4. ASSUME UNCHANGED <<worker, caller>>, UNCHANGED <<place, moves>> \/ OwnerMoves
        PROVE  [FiledMoves!Next]_(FiledMoves!vars)
    <2>1. /\ [c \in Clients |-> RequestOf(c)]' = [c \in Clients |-> RequestOf(c)]
          /\ [c \in Clients |-> ReplyTo(c)]' = [c \in Clients |-> ReplyTo(c)]
      BY <1>4 DEF RequestOf, ReplyTo, MoveRequest, WorkerReply, CallerReply,
                  SameInAscii, SameToApp
    <2>2. CASE UNCHANGED <<place, moves>>
      BY <1>1, <2>1, <2>2, LabelsStay DEF FiledMoves!vars, Labelled, Clients
    <2>3. CASE OwnerMoves
      <3>1. PICK m \in Messages, f \in Existing \cup {Inbox} :
                /\ moves[m] < MaxMoves
                /\ place' = [place EXCEPT ![m] = f]
                /\ moves' = [moves EXCEPT ![m] = @ + 1]
                /\ UNCHANGED <<folders, deleted>>
        BY <2>3 DEF OwnerMoves
      <3>2. PICK l \in Names \cup {"Inbox"} :
                Labelled' = [Labelled EXCEPT ![m] = l]
        <4>1. f \in DOMAIN folders \cup {Inbox}
          BY DEF Existing
        <4>2. Labelled' = [Labelled EXCEPT ![m] =
                               IF f = Inbox THEN "Inbox" ELSE folders[f]]
          BY <1>1, <3>1, <4>1, MovedLabel
        <4>3. f # Inbox => folders[f] \in Names
          BY <1>1, <4>1, FoldersDomain
        <4>4. QED
          BY <4>2, <4>3
      <3>3. FiledMoves!Elsewhere
        BY <2>1, <3>1, <3>2 DEF FiledMoves!Elsewhere, Labelled, Clients
      <3>4. QED
        BY <3>3 DEF FiledMoves!Next
    <2>4. QED
      BY <1>4, <2>2, <2>3
  <1>5. QED
    BY <1>1, <1>2, <1>3, <1>4 DEF ClientsStep

\* The API server's POST .../move and the app's moveMessageToFolder implement
\* Filing, next to each other and to the owner's other programs: "moved" is
\* said of a message only if it was filed for this request, once, in a folder
\* of the name asked for.
THEOREM ClientsImplementFiling == Spec => MovesAreFiled
  <1>1. Spec => FiledMoves!Init /\ [][FiledMoves!Next]_(FiledMoves!vars)
    BY ClientsInvariant, FilingInit, FilingStep, PTL DEF Spec
  <1>2. QED
    BY <1>1 DEF MovesAreFiled, FiledMoves!Spec

-----------------------------------------------------------------------------
(* The app's retry                                                         *)

\* A refused token was issued; once a refresh has reached the cache file, the
\* cache has another one, and so has the second attempt.
RetryFits(r) ==
    /\ r.tried \in 0..issued
    /\ r.pc = "resolve" => r.tried = 0
    /\ r.pc = "again" /\ r.saved => cached # r.tried
    /\ r.pc = "send" /\ r.tried # 0 /\ r.saved =>
           r.token \in {EnvToken} \cup (Tokens \ {r.tried})

FreshInv == \A b \in Callers : RetryFits(caller[b])

\* Between two legs of an operation a caller has no refused token.
LEMMA BetweenLegs ==
    /\ \A outcome : LET x == Finish(outcome) IN x.tried = 0 /\ x.pc = "done"
    /\ \A r \in CallerState : \A leg : LET x == Leg(r, leg) IN x.tried = 0 /\ x.pc = "resolve"
    /\ \A r \in CallerState : \A f : LET x == MoveLeg(r, f) IN x.tried = 0 /\ x.pc = "send"
    /\ \A r \in CallerState : LET x == LegFailed(r) IN x.tried = 0 /\ x.pc \in {"done", "resolve"}
  <1>1. \A outcome : LET x == Finish(outcome) IN x.tried = 0 /\ x.pc = "done"
    BY DEF Finish, IdleCaller
  <1>2. \A r \in CallerState : \A leg : LET x == Leg(r, leg) IN x.tried = 0 /\ x.pc = "resolve"
    BY DEF Leg, CallerState
  <1>3. \A r \in CallerState : \A f : LET x == MoveLeg(r, f) IN x.tried = 0 /\ x.pc = "send"
    BY DEF MoveLeg, Leg, CallerState
  <1>4. QED
    BY <1>1, <1>2, <1>3 DEF LegFailed

\* A token that is resolved comes from the cache or the environment.
LEMMA ResolvedFrom == ResolveGraphToken \in {cached, EnvToken}
  BY DEF ResolveGraphToken, TokenFromCacheFile

\* Every step of a caller keeps FreshInv.
LEMMA CallerRetries ==
    ASSUME TypeOK, FreshInv, NEW b \in Callers, StartOperation(b) \/ CallerStep(b)
    PROVE  FreshInv'
  <1> DEFINE r == caller[b]
  <1>r. r \in CallerState /\ RetryFits(r) /\ caller \in [Callers -> CallerState]
    BY DEF TypeOK, FreshInv
  <1>i. /\ issued \in 1..MaxTokens /\ MaxTokens \in Nat /\ EnvToken \in Tokens
        /\ cached \in 0..issued
    BY BridgeAssumption DEF TypeOK
  <1>n. \A outcome : Finish(outcome).tried = 0 /\ Finish(outcome).pc = "done"
    BY BetweenLegs
  <1>l. \A s \in CallerState : \A leg : Leg(s, leg).tried = 0 /\ Leg(s, leg).pc = "resolve"
    BY BetweenLegs
  <1>m. \A f : MoveLeg(r, f).tried = 0 /\ MoveLeg(r, f).pc = "send"
    BY <1>r, BetweenLegs
  <1>f. LegFailed(r).tried = 0 /\ LegFailed(r).pc \in {"done", "resolve"}
    BY <1>r, BetweenLegs
  \* the caller goes on as x, and nobody has refreshed
  <1>s. ASSUME NEW x, Set(b, x), UNCHANGED <<issued, cached>>, RetryFits(x) PROVE FreshInv'
    BY <1>r, <1>s DEF Set, FreshInv, RetryFits
  <1>z. ASSUME NEW x, x.tried = 0, x.pc # "again" PROVE RetryFits(x)
    BY <1>i, <1>z DEF RetryFits
  <1>q. ASSUME NEW x, Set(b, x), UNCHANGED <<issued, cached>>, x.tried = 0, x.pc # "again"
        PROVE  FreshInv'
    BY <1>s, <1>z, <1>q
  <1> HIDE DEF r
  <1>1. CASE StartOperation(b)
    <2>1. UNCHANGED <<issued, cached>>
      BY <1>1 DEF StartOperation, tokens
    <2>2. ASSUME NEW id \in Ids, NEW leg, Begin(b, id, leg) PROVE FreshInv'
      <3>1. [IdleCaller EXCEPT !.id = id] \in CallerState
        BY IdleCallerType DEF CallerState
      <3>2. QED
        BY <1>l, <1>q, <2>1, <2>2, <3>1 DEF Begin
    <2>3. ASSUME NEW id \in Ids, NEW name \in AppNames, BeginMove(b, id, name) PROVE FreshInv'
      <3>1. ResolveGraphToken \in Tokens
        BY <1>i, ResolvedFrom DEF Tokens
      <3> DEFINE s == [IdleCaller EXCEPT !.id = id, !.name = name, !.captured = ResolveGraphToken]
      <3>2. s \in CallerState
        BY <3>1, IdleCallerType, BridgeAssumption DEF CallerState
      <3> HIDE DEF s
      <3>3. Set(b, IF ResolveGraphToken = 0 THEN Finish("unmoved") ELSE Leg(s, "list"))
        BY <2>3 DEF BeginMove, s
      <3>4. QED
        BY <1>l, <1>n, <1>q, <2>1, <3>2, <3>3
    <2>4. PICK m \in Messages : LET id == [message |-> m, moves |-> moves[m]] IN
              \/ \E name \in AppNames : BeginMove(b, id, name)
              \/ \E leg \in {"message", "file", "search"} : Begin(b, id, leg)
      BY <1>1 DEF StartOperation
    <2>5. [message |-> m, moves |-> moves[m]] \in Ids
      BY DEF TypeOK, MailboxTypeOK, Ids
    <2>6. QED
      BY <2>2, <2>3, <2>4, <2>5
  <1>2. CASE ResolveToken(b)
    <2> DEFINE x == [r EXCEPT !.pc = "send", !.token = ResolveGraphToken]
    <2>1. r.pc = "resolve" /\ r.tried = 0
      BY <1>2, <1>r DEF ResolveToken, CallerAt, RetryFits, r
    <2>2. x.tried = 0 /\ x.pc = "send"
      BY <1>r, <2>1 DEF CallerState
    <2>3. UNCHANGED <<issued, cached>> /\ Set(b, IF ResolveGraphToken = 0 THEN LegFailed(r) ELSE x)
      BY <1>2 DEF ResolveToken, tokens, r
    <2> HIDE DEF x
    <2>4. QED
      BY <1>f, <1>q, <2>2, <2>3
  <1>3. CASE Unauthorized(b)
    <2> DEFINE x == [r EXCEPT !.pc = "refresh", !.tried = r.token]
    <2>1. x.pc = "refresh" /\ x.tried = r.token
      BY <1>r DEF CallerState
    <2>2. r.token \in 0..issued
      BY <1>3, <1>i DEF Unauthorized, TypeOK, r
    <2>3. UNCHANGED <<issued, cached>> /\ Set(b, IF r.tried = 0 THEN x ELSE LegFailed(r))
      BY <1>3 DEF Unauthorized, tokens, r
    <2> HIDE DEF x
    <2>4. RetryFits(x)
      BY <2>1, <2>2 DEF RetryFits
    <2>5. QED
      BY <1>f, <1>q, <1>s, <2>3, <2>4
  <1>4. CASE AttemptRefreshGraphToken(b)
    <2>1. CASE Set(b, LegFailed(r)) /\ UNCHANGED <<cached, issued>>
      BY <1>f, <1>q, <2>1
    <2>2. ASSUME NEW saved \in BOOLEAN, issued' = issued + 1,
                 cached' = IF saved THEN issued + 1 ELSE cached,
                 Set(b, [r EXCEPT !.pc = "again", !.saved = saved])
          PROVE  FreshInv'
      <3>0. PICK x : x = [r EXCEPT !.pc = "again", !.saved = saved]
        OBVIOUS
      <3>1. x.pc = "again" /\ x.saved = saved /\ x.tried = r.tried
        BY <1>r, <3>0 DEF CallerState
      <3>2. caller'[b] = x /\ \A c \in Callers \ {b} : caller'[c] = caller[c]
        BY <1>r, <2>2, <3>0 DEF Set
      <3>3. RetryFits(x)'
        <4>1. x.tried \in 0..issued /\ x.tried # issued + 1 /\ x.tried \in 0..issued'
          BY <1>i, <1>r, <2>2, <3>1 DEF RetryFits
        <4>2. x.pc = "again" /\ (x.saved => cached' = issued + 1)
          BY <2>2, <3>1
        <4>3. QED
          BY <4>1, <4>2 DEF RetryFits
      <3>4. \A c \in Callers \ {b} : RetryFits(caller[c])'
        <4>1. SUFFICES ASSUME NEW c \in Callers \ {b} PROVE RetryFits(caller[c])'
          OBVIOUS
        <4>2. RetryFits(caller[c]) /\ caller'[c] = caller[c]
          BY <3>2 DEF FreshInv
        <4>3. /\ caller[c].tried \in 0..issued' /\ caller[c].tried # issued + 1
              /\ cached' \in {cached, issued + 1}
          BY <1>i, <2>2, <4>2 DEF RetryFits
        <4>4. QED
          BY <4>2, <4>3 DEF RetryFits
      <3>5. QED
        BY <3>2, <3>3, <3>4 DEF FreshInv, RetryFits
    <2>3. QED
      BY <1>4, <2>1, <2>2 DEF AttemptRefreshGraphToken, r
  <1>5. CASE ResolveAgain(b)
    <2> DEFINE x == [r EXCEPT !.pc = "send", !.token = ResolveGraphToken]
    <2>1. x.pc = "send" /\ x.token = ResolveGraphToken /\ x.tried = r.tried /\ x.saved = r.saved
      BY <1>r DEF CallerState
    <2>2. /\ r.pc = "again" /\ UNCHANGED <<issued, cached>>
          /\ Set(b, IF ResolveGraphToken = 0 THEN LegFailed(r) ELSE x)
      BY <1>5 DEF ResolveAgain, CallerAt, tokens, r
    <2> HIDE DEF x
    <2>3. cached \in Tokens
      BY <1>i DEF Tokens
    <2>4. RetryFits(x)
      BY <1>r, <2>1, <2>2, <2>3, ResolvedFrom DEF RetryFits
    <2>5. QED
      BY <1>f, <1>q, <1>s, <2>2, <2>4
  <1>6. CASE \/ FailingLeg(b) \/ FindMailFolder(b) \/ CreateMailFolder(b)
             \/ MailFolderConflicts(b) \/ PostMove(b) \/ NotFound(b) \/ GetMessagePayload(b)
             \/ GetAttachments(b) \/ OpenAttachmentFile(b) \/ GetSearchPage(b)
    <2>1. UNCHANGED <<issued, cached>>
      BY <1>6 DEF FailingLeg, FindMailFolder, CreateMailFolder, MailFolderConflicts, PostMove,
           NotFound, GetMessagePayload, GetAttachments, OpenAttachmentFile, GetSearchPage, tokens
    <2>2. \/ Set(b, LegFailed(r)) \/ \E leg : Set(b, Leg(r, leg))
          \/ \E f : Set(b, MoveLeg(r, f)) \/ \E outcome : Set(b, Finish(outcome))
      BY <1>6 DEF FailingLeg, FindMailFolder, CreateMailFolder, MailFolderConflicts, PostMove,
           NotFound, GetMessagePayload, GetAttachments, OpenAttachmentFile, GetSearchPage, r
    <2>3. QED
      BY <1>f, <1>l, <1>m, <1>n, <1>q, <1>r, <2>1, <2>2
  <1>7. QED
    BY <1>1, <1>2, <1>3, <1>4, <1>5, <1>6 DEF CallerStep

\* After a 401 (FetchGraphGetData and FetchGraphRequestData,
\* OutlookGraphHttpClient.mm) and a refresh that has been saved, the second
\* attempt carries another token than the first, or that of the environment,
\* however many callers and other programs refresh at the same time.
THEOREM RetriesAreFresh == Spec => []RetryIsFresh
  <1>1. Init => FreshInv
    BY BridgeAssumption DEF Init, BridgeInit, FreshInv, RetryFits, IdleCaller
  <1>2. TypeOK /\ FreshInv /\ [Next]_vars => FreshInv'
    <2> SUFFICES ASSUME TypeOK, FreshInv, [Next]_vars PROVE FreshInv'
      OBVIOUS
    <2>1. CASE UNCHANGED <<caller, issued, cached>>
      BY <2>1 DEF FreshInv, RetryFits
    <2>2. CASE OthersRefresh
      <3>1. issued' = issued + 1 /\ cached' = issued + 1 /\ UNCHANGED caller /\ issued \in Nat
        BY <2>2 DEF OthersRefresh, TypeOK
      <3>2. QED
        BY <3>1 DEF FreshInv, RetryFits
    <2>3. QED
      BY <2>1, <2>2, CallerRetries
         DEF Next, vars, bridgeVars, tokens, World, TokenExpires, TokenRejected
  <1>3. FreshInv => RetryIsFresh
    BY DEF FreshInv, RetryFits, RetryIsFresh
  <1>4. QED
    BY <1>1, <1>2, <1>3, ClientsTypeCorrect, PTL DEF Spec
=============================================================================
