--------------------------- MODULE NotebookCommands ---------------------------
(***************************************************************************)
(* What a user does with a result shown in a notebook: copy rows, continue *)
(* with them or enrich them in a new cell.  The grid posts a request, the  *)
(* host (NotebookResultManager) handles it over several awaits, and        *)
(* KustoNotebookManager inserts the cell through the queue that also gives *)
(* the notebook's cells their identifiers.                                 *)
(*                                                                         *)
(* Concurrency.  Requests are handled in parallel; meanwhile the view of   *)
(* the table changes (see ResultGrid) and the user edits the notebook.  VS *)
(* Code refuses an edit of a notebook changed since the edit was made.     *)
(*                                                                         *)
(* Abstractions.  One table, shown by one grid and made by the cell keyed  *)
(* Source.  Rows are known by the revision they were selected in.  What a  *)
(* snapshot holds is what the server makes of the request.                 *)
(***************************************************************************)
EXTENDS Client, Integers, SequencesExt

CONSTANTS
    MaxRevision,    \* bound: views of the table
    MaxPosts,       \* bound: requests posted
    MaxCellEdits,   \* bound: edits of the notebook by its user
    Pages           \* projections a copy reads

ASSUME CommandsAssumption ==
    /\ MaxRevision \in Nat /\ MaxPosts \in Nat /\ MaxCellEdits \in Nat /\ Pages \in Nat \ {0}
    /\ None \notin Nat

Source == 1
Revisions == 0 .. MaxRevision
PostIds == 1 .. MaxPosts

VARIABLES
    readyView,      \* the server's ready revision of the table
    panel,          \* the grid: its revision, the revision its rows were selected
                    \* in, whether a view change is under way, the continuation
                    \* and the enrichment it waits for
    posted,         \* how many requests it has posted
    requested,      \* those the host has yet to receive
    replied,        \* replies the grid has yet to receive
    handling,       \* requests being handled
    copied,         \* the text the last copy put on the clipboard: the pages' revisions
    book,           \* the notebook's cells
    sessionHeld,    \* the session of the result is the source cell's
    jobs,           \* operations enqueued on the notebook
    job,            \* the running one, its edit being applied
    cellEdits,      \* what the user has done to the notebook
    lastId,         \* identifiers given so far
    idsRefused,     \* history: the last edit that gave identifiers was refused
    copiedAbove     \* history: a cell was pasted above the one it is a copy of

cmVars == <<readyView, panel, posted, requested, replied, handling, copied,
            book, sessionHeld, jobs, job, cellEdits, lastId, idsRefused, copiedAbove>>
hostVars == <<requested, replied, handling, copied>>
bookVars == <<book, sessionHeld, cellEdits, copiedAbove>>
queueVars == <<jobs, job, lastId, idsRefused>>

Types == {"copy", "continue", "enrich"}
Panel == [revision: Revisions, selected: Revisions \union {None}, changing: BOOLEAN,
          continuing: 0 .. MaxPosts, enriching: 0 .. MaxPosts]
Request == [type: Types, id: PostIds, revision: Revisions, rows: Revisions]
Reply == [type: Types, id: PostIds, ok: BOOLEAN, moves: Revisions \union {None}]
Handling == [request: Request, read: Seq(Revisions),
            at: {"reading", "picking", "creating", "asking", "queued", "inserted", "dismissed", "failed"}]
BookCell == [key: Nat, id: Nat \union {None}, of: Nat \union {None}, from: Nat \union {None}]
Job == [kind: {"ids", "insert"}, id: PostIds \union {0}]
BookEdit == [op: Job, at: Nat, of: Nat \union {None}, stale: BOOLEAN]

ASSUME BookEditAssumption == None \notin BookEdit

CmTypeOK ==
    /\ readyView \in Revisions /\ posted \in 0 .. MaxPosts
    /\ panel \in Panel
    /\ requested \in Seq(Request) /\ replied \in Seq(Reply) /\ handling \subseteq Handling
    /\ copied = None \/ copied \in Seq(Revisions)
    /\ book \in Seq(BookCell) /\ sessionHeld \in BOOLEAN /\ jobs \in Seq(Job)
    /\ job = None \/ job \in BookEdit
    /\ cellEdits \in 0 .. MaxCellEdits /\ lastId \in Nat
    /\ idsRefused \in BOOLEAN /\ copiedAbove \in BOOLEAN

CmInit ==
    /\ readyView = 0 /\ posted = 0
    /\ panel = [revision |-> 0, selected |-> None, changing |-> FALSE, continuing |-> 0, enriching |-> 0]
    /\ requested = <<>> /\ replied = <<>> /\ handling = {} /\ copied = None
    /\ book = [k \in 1 .. 2 |-> [key |-> k, id |-> k, of |-> None, from |-> None]]
    /\ sessionHeld = TRUE /\ jobs = <<>> /\ job = None
    /\ cellEdits = 0 /\ lastId = 2 /\ idsRefused = FALSE /\ copiedAbove = FALSE
-----------------------------------------------------------------------------
(* The grid.  Its view changes are those of ResultGrid. *)

\* The view changes: synchronizeReadyView, or a viewResult.
Moved(revision) == [panel EXCEPT !.revision = revision, !.changing = FALSE, !.selected = None]

AskView ==
    /\ ~panel.changing /\ panel' = [panel EXCEPT !.changing = TRUE]
    /\ UNCHANGED <<readyView, posted, hostVars, bookVars, queueVars>>

\* The view asked for here, or in another editor, becomes the ready one.
ViewReady ==
    /\ readyView < MaxRevision /\ readyView' = readyView + 1
    /\ UNCHANGED <<panel, posted, hostVars, bookVars, queueVars>>

ViewAnswered ==
    /\ panel.changing /\ panel' \in {Moved(readyView), [panel EXCEPT !.changing = FALSE]}
    /\ UNCHANGED <<readyView, posted, hostVars, bookVars, queueVars>>

Select ==
    /\ panel' = [panel EXCEPT !.selected = panel.revision]
    /\ UNCHANGED <<readyView, posted, hostVars, bookVars, queueVars>>

PostRequest(type, rows) ==
    /\ posted < MaxPosts /\ posted' = posted + 1
    /\ requested' = Append(requested, [type |-> type, id |-> posted + 1,
                                       revision |-> panel.revision, rows |-> rows])
    /\ UNCHANGED <<readyView, replied, handling, copied, bookVars, queueVars>>

\* copySelection.
CopySelection ==
    /\ panel.selected # None /\ PostRequest("copy", panel.selected) /\ UNCHANGED panel

\* continueResults, when updateContinueButton enables it: without a selection
\* all rows of the view are meant.
ContinueResults ==
    /\ ~panel.changing /\ panel.continuing = 0
    /\ PostRequest("continue", IF panel.selected = None THEN panel.revision ELSE panel.selected)
    /\ panel' = [panel EXCEPT !.continuing = posted + 1]

\* requestEnrichment, of the row right-clicked and those selected.
RequestEnrichment ==
    /\ ~panel.changing /\ panel.enriching = 0
    /\ PostRequest("enrich", IF panel.selected = None THEN panel.revision ELSE panel.selected)
    /\ panel' = [panel EXCEPT !.enriching = posted + 1]

\* receive: continuationResult, enrichmentResult, their cancellations and
\* requestError, whose status may move the grid to another revision.
ReceiveReply ==
    /\ replied # <<>> /\ replied' = Tail(replied)
    /\ LET m == Head(replied)
           p == IF m.moves \in {None, panel.revision} THEN panel
                ELSE [Moved(m.moves) EXCEPT !.changing = panel.changing] IN
       panel' = [p EXCEPT !.continuing = IF @ = m.id THEN 0 ELSE @,
                          !.enriching = IF @ = m.id THEN 0 ELSE @]
    /\ UNCHANGED <<readyView, posted, requested, handling, copied, bookVars, queueVars>>
-----------------------------------------------------------------------------
(* handleRendererMessage *)

Position(key) == {i \in DOMAIN book : book[i].key = key}

\* assertActiveSession and findSourceCell.
Opens(q) == sessionHeld /\ (q.type # "copy" => Position(Source) # {})

First(q) == CASE ~Opens(q) -> "failed" [] q.type = "copy" -> "reading"
              [] q.type = "continue" -> "creating" [] q.type = "enrich" -> "picking"

HandleRequest ==
    /\ requested # <<>> /\ requested' = Tail(requested)
    /\ LET q == Head(requested) IN
       handling' = handling \union {[request |-> q, read |-> <<>>, at |-> First(q)]}
    /\ UNCHANGED <<readyView, panel, posted, replied, copied, bookVars, queueVars>>

HandlingGoes(c, at) == handling' = (handling \ {c}) \union {[c EXCEPT !.at = at]}

\* Fault: the pages after the first are read from whatever view is ready.
AnyPage(c) == sessionHeld /\ (c.read = <<>> => c.request.revision = readyView)

\* ValidateViewRevision of the server.
Valid(c) == sessionHeld /\ c.request.revision = readyView

\* copyProjection: another page, and the clipboard once there is no more.
ReadPage(c) ==
    /\ c.at = "reading"
    /\ IF ~Valid(c) THEN HandlingGoes(c, "failed") /\ UNCHANGED copied
       ELSE LET read == Append(c.read, readyView) IN
            /\ handling' = (handling \ {c}) \union
                    {[c EXCEPT !.read = read, !.at = IF Len(read) = Pages THEN "inserted" ELSE @]}
            /\ copied' = IF Len(read) = Pages THEN read ELSE copied
    /\ UNCHANGED <<readyView, panel, posted, requested, replied, bookVars, queueVars>>

\* enrichInNewCell: the enrichment is picked, or not, or the session is gone.
Pick(c) ==
    /\ c.at = "picking"
    /\ \/ ~sessionHeld /\ HandlingGoes(c, "failed")
       \/ sessionHeld /\ \E at \in {"creating", "dismissed", "failed"} : HandlingGoes(c, at)
    /\ UNCHANGED <<readyView, panel, posted, requested, replied, copied, bookVars, queueVars>>

Enqueued(op) == jobs' = Append(jobs, op)

\* The server makes the query, which may be too large to insert unasked or at all.
Create(c) ==
    /\ c.at = "creating"
    /\ \/ ~Valid(c) /\ HandlingGoes(c, "failed") /\ UNCHANGED jobs
       \/ Valid(c) /\ \E at \in {"asking", "failed"} : HandlingGoes(c, at) /\ UNCHANGED jobs
       \/ Valid(c) /\ HandlingGoes(c, "queued") /\ Enqueued([kind |-> "insert", id |-> c.request.id])
    /\ UNCHANGED <<readyView, panel, posted, requested, replied, copied, bookVars, job, lastId, idsRefused>>

\* The user answers the warning.
Confirm(c) ==
    /\ c.at = "asking"
    /\ \/ HandlingGoes(c, "dismissed") /\ UNCHANGED jobs
       \/ HandlingGoes(c, "queued") /\ Enqueued([kind |-> "insert", id |-> c.request.id])
    /\ UNCHANGED <<readyView, panel, posted, requested, replied, copied, bookVars, job, lastId, idsRefused>>

Reported(c) == c.at \in {"inserted", "dismissed", "failed"}

\* The command is over: a failed one sends the status, while there is a session.
ReplyCommand(c) ==
    /\ c.at \in {"inserted", "dismissed", "failed"} /\ handling' = handling \ {c}
    /\ replied' = IF ~Reported(c) THEN replied
                  ELSE Append(replied, [type |-> c.request.type, id |-> c.request.id, ok |-> c.at = "inserted",
                            moves |-> IF c.at = "failed" /\ sessionHeld THEN readyView ELSE None])
    /\ UNCHANGED <<readyView, panel, posted, requested, copied, bookVars, queueVars>>
-----------------------------------------------------------------------------
(* The notebook and its queue *)

Stale == job' = IF job = None THEN None ELSE [job EXCEPT !.stale = TRUE]
IdsJob == [kind |-> "ids", id |-> 0]

\* Cells without an identifier, or with one that an earlier cell has.
Unidentified ==
    {i \in DOMAIN book : book[i].id = None \/ \E j \in 1 .. (i - 1) : book[j].id = book[i].id}

UserEdits == cellEdits < MaxCellEdits /\ cellEdits' = cellEdits + 1

\* Cells added or removed by the user: the change event enqueues ensureCellIdsCore.
EditBook(cells, held) ==
    /\ UserEdits /\ book' = cells /\ sessionHeld' = held /\ Enqueued(IdsJob) /\ Stale
    /\ UNCHANGED <<readyView, panel, posted, hostVars, lastId, idsRefused>>

NewKey == Max({0} \union {book[i].key : i \in DOMAIN book} \union {Source}) + 1

DeleteCell(i) ==
    /\ EditBook(RemoveAt(book, i), sessionHeld /\ book[i].key # Source) /\ UNCHANGED copiedAbove

\* A copy of cell i becomes cell j, with the metadata of i.
PasteCell(i, j) ==
    /\ EditBook(InsertAt(book, j, [book[i] EXCEPT !.key = NewKey]), sessionHeld)
    /\ copiedAbove' = (copiedAbove \/ j <= i)

\* Typing in a cell, or clearing its output: no cell was added or removed.
EditCell(held) ==
    /\ UserEdits /\ sessionHeld' = (held /\ sessionHeld) /\ Stale
    /\ UNCHANGED <<readyView, panel, posted, hostVars, book, jobs, lastId, idsRefused, copiedAbove>>

\* onWillSaveNotebookDocument.
SaveBook ==
    /\ UserEdits /\ Enqueued(IdsJob)
    /\ UNCHANGED <<readyView, panel, posted, hostVars, book, sessionHeld, job, lastId, idsRefused, copiedAbove>>

Inserting(id) == CHOOSE c \in handling : c.request.id = id /\ c.at = "queued"

\* Fault: the cell goes where its source was in the notebook as it was opened.
InsertionAtOpen == 2

\* After the source cell, wherever that is by now.
InsertionIndex == (CHOOSE i \in Position(Source) : TRUE) + 1

RunJob(op, at, of) ==
    /\ job' = [op |-> op, at |-> at, of |-> of, stale |-> FALSE] /\ jobs' = Tail(jobs)
    /\ UNCHANGED handling

\* ensureCellIdsCore and insertContinuationCellCore, up to their applyEdit.
StartJob ==
    /\ job = None /\ jobs # <<>>
    /\ LET op == Head(jobs) IN
       IF op.kind = "ids"
       THEN IF Unidentified # {} THEN RunJob(op, 0, None)
            ELSE jobs' = Tail(jobs) /\ UNCHANGED <<job, handling>>
       ELSE IF Position(Source) # {} THEN
                LET id == book[CHOOSE i \in Position(Source) : TRUE].id IN
                IF id # None THEN RunJob(op, InsertionIndex, id)
                ELSE jobs' = Tail(jobs) /\ HandlingGoes(Inserting(op.id), "failed") /\ UNCHANGED job
            ELSE jobs' = Tail(jobs) /\ HandlingGoes(Inserting(op.id), "failed") /\ UNCHANGED job
    /\ idsRefused' = (idsRefused /\ Head(jobs).kind # "ids")
    /\ UNCHANGED <<readyView, panel, posted, requested, replied, copied, bookVars, lastId>>

Identified(cells) ==
    [i \in DOMAIN cells |->
        IF i \in Unidentified
        THEN [cells[i] EXCEPT !.id = lastId + Cardinality({j \in Unidentified : j <= i})] ELSE cells[i]]

\* VS Code applies the identifiers, or refuses them.
ApplyIds ==
    /\ job # None /\ job.op.kind = "ids" /\ job' = None
    /\ IF job.stale THEN idsRefused' = TRUE /\ UNCHANGED <<book, lastId>>
       ELSE /\ book' = Identified(book) /\ lastId' = lastId + Cardinality(Unidentified)
            /\ UNCHANGED idsRefused
    /\ UNCHANGED <<readyView, panel, posted, hostVars, sessionHeld, jobs, cellEdits, copiedAbove>>

\* It inserts the cell, which is a change of the notebook, or refuses it.
ApplyInsert ==
    /\ job # None /\ job.op.kind = "insert" /\ job' = None
    /\ LET c == Inserting(job.op.id)
           cell == [key |-> NewKey, id |-> lastId + 1, of |-> job.of, from |-> Source] IN
       IF job.stale THEN HandlingGoes(c, "failed") /\ UNCHANGED <<book, jobs, lastId>>
       ELSE /\ book' = InsertAt(book, job.at, cell) /\ lastId' = lastId + 1
            /\ Enqueued(IdsJob) /\ HandlingGoes(c, "inserted")
    /\ UNCHANGED <<readyView, panel, posted, requested, replied, copied, sessionHeld, cellEdits,
                   idsRefused, copiedAbove>>

HostSteps ==
    \/ HandleRequest \/ ReceiveReply \/ StartJob \/ ApplyIds \/ ApplyInsert
    \/ \E c \in handling : ReadPage(c) \/ Pick(c) \/ Create(c) \/ Confirm(c) \/ ReplyCommand(c)

CmNext ==
    \/ HostSteps
    \/ AskView \/ ViewReady \/ ViewAnswered \/ Select
    \/ CopySelection \/ ContinueResults \/ RequestEnrichment
    \/ \E i \in DOMAIN book : DeleteCell(i) \/ \E j \in 1 .. (Len(book) + 1) : PasteCell(i, j)
    \/ \E held \in BOOLEAN : EditCell(held)
    \/ SaveBook

CmSpec == CmInit /\ [][CmNext]_cmVars

\* What handleRendererMessage does next with a message.
HandlingMoves(n) == \E c \in handling :
    c.request.id = n /\ (ReadPage(c) \/ Pick(c) \/ Create(c) \/ Confirm(c) \/ ReplyCommand(c))

\* The host's calls return, its messages arrive, and the user answers dialogs.
CmFairness ==
    /\ WF_cmVars(HandleRequest) /\ WF_cmVars(ReceiveReply)
    /\ WF_cmVars(StartJob) /\ WF_cmVars(ApplyIds \/ ApplyInsert)
    /\ \A n \in PostIds : WF_cmVars(HandlingMoves(n))
-----------------------------------------------------------------------------
\* A request names the revision its rows were selected in: the rows copied or
\* continued with are those the user selected.
RequestsNameTheirRows ==
    \A q \in ToSet(requested) \union {c.request : c \in handling} : q.rows = q.revision

\* What a copy puts on the clipboard comes from one view of the table.
CopiesAreWhole == copied # None => Cardinality(ToSet(copied)) = 1

\* A cell made from a result comes right after the cell that made the result,
\* whatever the user did to the notebook meanwhile.
ContinuationFollowsItsSource ==
    [][\A i \in DOMAIN book' : book'[i].from # None /\ book'[i].key \notin {c.key : c \in ToSet(book)}
                               /\ Len(book') > Len(book) /\ cellEdits' = cellEdits
            => i > 1 /\ book'[i - 1].key = Source]_cmVars

\* Once the queue is empty the identifiers of cells are unique, unless the last
\* edit to make them so was refused.
QuietIdsAreUnique ==
    jobs = <<>> /\ job = None /\ ~idsRefused => IsInjective([i \in DOMAIN book |-> book[i].id])

\* A continuation names its source, unless a copy was pasted above the original
\* and took its identifier over.
SourceIsNamed ==
    ~copiedAbove => \A i, j \in DOMAIN book :
        book[i].from # None /\ book[j].key = book[i].from => book[i].of = book[j].id

\* The buttons of the grid do not wait for ever.
CommandsAreAnswered ==
    /\ panel.continuing # 0 ~> panel.continuing = 0
    /\ panel.enriching # 0 ~> panel.enriching = 0

\* Copies and continuations take the rows the user saw, whole, and name their
\* source (see the parts above).
CommandsAreFaithful ==
    CmTypeOK /\ RequestsNameTheirRows /\ CopiesAreWhole /\ QuietIdsAreUnique /\ SourceIsNamed
===============================================================================
