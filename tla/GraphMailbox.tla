---------------------------- MODULE GraphMailbox ----------------------------
(***************************************************************************)
(* The mailbox behind Microsoft Graph, as the API server (cpp_core/src/    *)
(* api.cpp, graph.cpp) and the macOS app (macos_app/Bridge) use it: the    *)
(* top-level folders in the order Graph lists them, and the folder of      *)
(* every message.  Nothing in here is code of the repository; it is what   *)
(* that code relies on.                                                    *)
(*   - A folder is its position in folders, whether deleted since or not.  *)
(*   - No two folders have the same display name up to case, by a rule of  *)
(*     Graph's own (Fold): creating one that exists is refused.            *)
(*   - A move gives the message a new id ("result_id" of a move's answer): *)
(*     an id is a message and the number of moves before it was issued.    *)
(***************************************************************************)
EXTENDS Naturals, Sequences, FiniteSets

CONSTANTS
    Messages,
    Names,         \* display names
    Fold,          \* names with the same Fold are one name to Graph
    InitFolders,   \* display names of the folders there are at the start
    MaxFolders,    \* bound on the folders ever created
    MaxMoves       \* bound on the moves of one message

ASSUME MailboxAssumption ==
    /\ Fold \in [Names -> Names]
    /\ InitFolders \in Seq(Names) /\ Len(InitFolders) <= MaxFolders
    /\ MaxFolders \in Nat
    /\ MaxMoves \in Nat
    /\ Messages # {}

VARIABLES
    folders,   \* display names of the folders
    deleted,   \* the folders that have been deleted
    place,     \* place[m]: the folder of message m, or Inbox
    moves      \* moves[m]: how often message m has been moved

mailbox == <<folders, deleted, place, moves>>

Inbox == 0
Existing == DOMAIN folders \ deleted
Ids == [message : Messages, moves : 0..MaxMoves]

MailboxInit ==
    /\ folders = InitFolders
    /\ deleted = {}
    /\ place = [m \in Messages |-> Inbox]
    /\ moves = [m \in Messages |-> 0]

MailboxTypeOK ==
    /\ folders \in Seq(Names) /\ Len(folders) <= MaxFolders
    /\ deleted \subseteq DOMAIN folders
    /\ place \in [Messages -> {Inbox} \cup DOMAIN folders]
    /\ moves \in [Messages -> 0..MaxMoves]

-----------------------------------------------------------------------------

\* There is a folder of the name.
Taken(name) == \E f \in Existing : Fold[folders[f]] = Fold[name]

\* A listing returns at most top folders and no hint that there are more.
Listing(top) == {f \in Existing : Cardinality({g \in Existing : g < f}) < top}

IsCurrent(id) == moves[id.message] = id.moves
CanMove(id, f) == IsCurrent(id) /\ f \in Existing

\* The folder is created, behind the others.
CreateFolder(name) ==
    /\ Len(folders) < MaxFolders
    /\ ~Taken(name)
    /\ folders' = Append(folders, name)
    /\ UNCHANGED <<deleted, place, moves>>

MoveMessageTo(id, f) ==
    /\ CanMove(id, f)
    /\ moves[id.message] < MaxMoves
    /\ place' = [place EXCEPT ![id.message] = f]
    /\ moves' = [moves EXCEPT ![id.message] = @ + 1]
    /\ UNCHANGED <<folders, deleted>>

\* The owner of the mailbox moves a message with another mail program, or
\* deletes an empty folder.
OwnerMoves ==
    \E m \in Messages, f \in Existing \cup {Inbox} :
        /\ moves[m] < MaxMoves
        /\ f # place[m]
        /\ place' = [place EXCEPT ![m] = f]
        /\ moves' = [moves EXCEPT ![m] = @ + 1]
        /\ UNCHANGED <<folders, deleted>>

OwnerDeletesFolder ==
    \E f \in Existing :
        /\ \A m \in Messages : place[m] # f
        /\ deleted' = deleted \cup {f}
        /\ UNCHANGED <<folders, place, moves>>
=============================================================================
