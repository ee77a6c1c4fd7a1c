------------------------- MODULE NotebookConnections -------------------------
(***************************************************************************)
(* How the connection in a notebook's metadata reaches its cells:          *)
(* KustoNotebookManager's queue of operations on one notebook, and the     *)
(* transient connections that ConnectionManager keeps for the cells and    *)
(* reports to the language server.                                         *)
(*                                                                         *)
(* Concurrency.  Operations of the queue run one after another, each step  *)
(* of one waits for listeners; meanwhile the user edits the notebook, its  *)
(* metadata (undo included) or, in a cell's editor, the cell's connection. *)
(*                                                                         *)
(* Abstractions.  The server infers nothing for a cell.  What a listener   *)
(* tells the server is what the step it belongs to tells it next.          *)
(***************************************************************************)
EXTENDS Client, Integers, Sequences

CONSTANTS
    KqlCells,       \* code cells the notebook ever has
    NbConns,        \* connections
    MaxChanges      \* bound on what the user does

ASSUME NotebookConnAssumption == None \notin NbConns \union KqlCells /\ MaxChanges \in Nat

VARIABLES
    isOpen,         \* the notebook is open
    cells,          \* its code cells
    meta,           \* the connection in its metadata
    edits,          \* setConnection calls whose workspace edit is being applied
    applied,        \* setConnection calls whose edit was applied, not yet resumed
    queue,          \* operations enqueued, the running one apart
    work,           \* the running operation
    synced,         \* synchronizedCells
    transient,      \* transientDocumentConnections
    cellSaved,      \* documentConnections, of cells
    cellTold,       \* what the server knows of each cell
    pick,           \* a setDocumentConnection on a cell under way
    picked,         \* history: cells whose connection was picked by hand
    missed,         \* history: the last operation to start failed, or was given
                    \* another connection than the metadata's
    changes         \* what the user has done so far

ncVars == <<isOpen, cells, meta, edits, applied, queue, work, synced, transient,
            cellSaved, cellTold, pick, picked, missed, changes>>
notebook == <<isOpen, cells, meta>>
cellVars == <<transient, cellSaved, cellTold>>

ConnOrNone == NbConns \union {None}
Op == [kind: {"event", "explicit", "close"}, conn: ConnOrNone]
Event == [kind |-> "event", conn |-> None]
\* clear and set: the cells still to be cleared or set; now: the one whose
\* listeners are being awaited; all: the cells seen when the operation began.
Work == [clear: SUBSET KqlCells, set: SUBSET KqlCells, all: SUBSET KqlCells,
         now: KqlCells \union {None}, conn: ConnOrNone, close: BOOLEAN]

\* None is no operation.
ASSUME WorkAssumption == None \notin Work

NcTypeOK ==
    /\ isOpen \in BOOLEAN /\ cells \subseteq KqlCells /\ meta \in ConnOrNone
    /\ edits \in Seq(NbConns) /\ applied \in Seq(NbConns) /\ queue \in Seq(Op)
    /\ work \in Work \union {None}
    /\ work # None => work.clear \intersect work.set = {}
    /\ synced \subseteq KqlCells
    /\ transient \in [KqlCells -> ConnOrNone]
    /\ cellSaved \in [KqlCells -> ConnOrNone]
    /\ cellTold \in [KqlCells -> ConnOrNone]
    /\ pick \in (KqlCells \X NbConns) \union {None}
    /\ picked \subseteq KqlCells /\ missed \in BOOLEAN
    /\ changes \in 0 .. MaxChanges

\* A notebook is opened, or is open when the extension starts.
NcInit ==
    /\ isOpen = TRUE /\ cells \in SUBSET KqlCells /\ meta \in ConnOrNone
    /\ edits = <<>> /\ applied = <<>>
    /\ queue = <<Event>>
    /\ work = None /\ synced = {}
    /\ transient = [c \in KqlCells |-> None]
    /\ cellSaved = [c \in KqlCells |-> None]
    /\ cellTold = [c \in KqlCells |-> None]
    /\ pick = None /\ picked = {} /\ missed = FALSE /\ changes = 0
-----------------------------------------------------------------------------
Enqueue(op) == queue' = Append(queue, op)
UserActs == isOpen /\ changes < MaxChanges /\ changes' = changes + 1

EditCells ==
    /\ UserActs
    /\ \E c \in KqlCells : cells' = IF c \in cells THEN cells \ {c} ELSE cells \union {c}
    /\ Enqueue(Event)
    /\ UNCHANGED <<isOpen, meta, edits, applied, work, synced, cellVars, pick, picked, missed>>

\* The metadata is edited by hand, undone or redone.
EditMetadata ==
    /\ UserActs
    /\ \E x \in ConnOrNone \ {meta} : meta' = x
    /\ Enqueue(Event)
    /\ UNCHANGED <<isOpen, cells, edits, applied, work, synced, cellVars, pick, picked, missed>>

CloseNotebook ==
    /\ UserActs
    /\ isOpen' = FALSE
    /\ Enqueue([kind |-> "close", conn |-> None])
    /\ UNCHANGED <<cells, meta, edits, applied, work, synced, cellVars, pick, picked, missed>>

\* setConnection: an equal connection is only synchronized again.
SetConnection(x) ==
    /\ UserActs
    /\ IF x = meta THEN Enqueue([kind |-> "explicit", conn |-> x]) /\ UNCHANGED edits
       ELSE edits' = Append(edits, x) /\ UNCHANGED queue
    /\ UNCHANGED <<notebook, applied, work, synced, cellVars, pick, picked, missed>>

\* The edit is applied, and its change event comes first; or refused, and
\* setConnection throws.
EditApplied(accepted) ==
    /\ edits # <<>>
    /\ edits' = Tail(edits)
    /\ IF isOpen /\ accepted
       THEN /\ meta' = Head(edits)
            /\ applied' = Append(applied, Head(edits))
            /\ IF meta = Head(edits) THEN UNCHANGED queue ELSE Enqueue(Event)
       ELSE UNCHANGED <<meta, applied, queue>>
    /\ UNCHANGED <<isOpen, cells, work, synced, cellVars, pick, picked, missed, changes>>

\* setConnection resumes.
SynchronizeExplicit ==
    /\ applied # <<>>
    /\ applied' = Tail(applied)
    /\ Enqueue([kind |-> "explicit", conn |-> Head(applied)])
    /\ UNCHANGED <<notebook, edits, work, synced, cellVars, pick, picked, missed, changes>>

\* Fault: cells that were removed are not cleared.
WorkForgetful(op) ==
    [clear |-> IF op.kind = "close" THEN synced ELSE {},
     set |-> IF op.kind = "close" THEN {} ELSE cells, all |-> cells,
     now |-> None, close |-> op.kind = "close",
     conn |-> IF op.conn = None THEN meta ELSE op.conn]

\* The synchronous start of synchronizeConnectionCore and of clearConnections.
WorkOf(op) ==
    [clear |-> IF op.kind = "close" THEN synced ELSE synced \ cells,
     set |-> IF op.kind = "close" THEN {} ELSE cells, all |-> cells,
     now |-> None, close |-> op.kind = "close",
     conn |-> IF op.conn = None THEN meta ELSE op.conn]

\* The next operation starts; an event first makes the cell ids unique (Fail).
StartWork ==
    /\ work = None /\ queue # <<>>
    /\ LET op == Head(queue) IN
       /\ queue' = Tail(queue)
       /\ work' = WorkOf(op)
       /\ synced' = IF op.kind = "close" THEN {} ELSE synced
       /\ missed' = CASE op.kind = "event" -> FALSE
                      [] op.kind = "explicit" -> op.conn # meta \/ ~isOpen
                      [] op.kind = "close" -> missed
    /\ UNCHANGED <<notebook, edits, applied, cellVars, pick, picked, changes>>

\* The cell ids could not be assigned: the operation fails, the next one runs.
Fail ==
    /\ work = None /\ queue # <<>> /\ Head(queue).kind = "event"
    /\ queue' = Tail(queue)
    /\ missed' = TRUE
    /\ UNCHANGED <<notebook, edits, applied, work, synced, cellVars, pick, picked, changes>>

\* clearTransientDocumentConnection up to its listeners: of a removed cell, or
\* of each cell when the notebook has no connection.
ClearCell(c) ==
    /\ work # None /\ work.now = None
    /\ c \in work.clear \/ (work.clear = {} /\ c \in work.set /\ work.conn = None)
    /\ transient' = [transient EXCEPT ![c] = None]
    /\ work' = [work EXCEPT !.clear = @ \ {c},
                            !.set = IF c \in work.clear THEN @ ELSE @ \ {c},
                            !.now = IF transient[c] = None THEN None ELSE c]
    /\ UNCHANGED <<notebook, edits, applied, queue, synced, cellSaved, cellTold, pick, picked, missed, changes>>

\* setTransientDocumentConnection up to its listeners, which an unchanged
\* connection does not call; the server is told either way.
SetCell(c) ==
    /\ work # None /\ work.now = None /\ work.clear = {} /\ c \in work.set
    /\ work.conn # None
    /\ transient' = [transient EXCEPT ![c] = work.conn]
    /\ work' = [work EXCEPT !.set = @ \ {c},
                            !.now = IF transient[c] = work.conn THEN None ELSE c]
    /\ cellTold' = IF transient[c] = work.conn THEN [cellTold EXCEPT ![c] = work.conn] ELSE cellTold
    /\ UNCHANGED <<notebook, edits, applied, queue, synced, cellSaved, pick, picked, missed, changes>>

\* Listeners done: the server is told.
TellServer ==
    /\ work # None /\ work.now # None
    /\ cellTold' = [cellTold EXCEPT ![work.now] =
                  IF work.now \in work.all /\ ~work.close THEN work.conn ELSE None]
    /\ work' = [work EXCEPT !.now = None]
    /\ UNCHANGED <<notebook, edits, applied, queue, synced, transient, cellSaved, pick, picked, missed, changes>>

Finish ==
    /\ work # None /\ work.now = None /\ work.clear = {} /\ work.set = {}
    /\ work' = None
    /\ synced' = IF work.close THEN synced ELSE work.all
    /\ UNCHANGED <<notebook, edits, applied, queue, cellVars, pick, picked, missed, changes>>

\* The user picks a connection in the tree while a cell's editor is active:
\* setDocumentConnection, which takes the cell for any other document.
PickConnection(c, x) ==
    /\ UserActs /\ c \in cells /\ pick = None
    /\ transient' = [transient EXCEPT ![c] = None]
    /\ pick' = <<c, x>>
    /\ picked' = picked \union {c}
    /\ UNCHANGED <<notebook, edits, applied, queue, work, synced, cellSaved, cellTold, missed>>

PickSaved ==
    /\ pick # None
    /\ cellSaved' = [cellSaved EXCEPT ![pick[1]] = pick[2]]
    /\ cellTold' = [cellTold EXCEPT ![pick[1]] = pick[2]]
    /\ pick' = None
    /\ UNCHANGED <<notebook, edits, applied, queue, work, synced, transient, picked, missed, changes>>
-----------------------------------------------------------------------------
Progress ==
    \/ StartWork \/ Finish \/ TellServer \/ PickSaved \/ SynchronizeExplicit
    \/ \E c \in KqlCells : ClearCell(c) \/ SetCell(c)
    \/ \E accepted \in BOOLEAN : EditApplied(accepted)
    \/ Fail

NcNext ==
    \/ EditCells \/ EditMetadata \/ CloseNotebook
    \/ \E x \in NbConns : SetConnection(x) \/ \E c \in KqlCells : PickConnection(c, x)
    \/ Progress

NcSpec == NcInit /\ [][NcNext]_ncVars
\* Awaits are answered; the user need not do anything.
NcFairSpec == NcSpec /\ WF_ncVars(Progress)
-----------------------------------------------------------------------------
Idle == queue = <<>> /\ work = None /\ edits = <<>> /\ applied = <<>> /\ pick = None

\* With nothing under way, each cell of an open notebook has the connection of
\* the notebook's metadata, in the client and on the server, unless the cell's
\* was picked by hand or the last operation failed or was overtaken.
CellsFollowTheNotebook ==
    Idle /\ isOpen /\ ~missed =>
        \A c \in cells \ picked : transient[c] = meta /\ cellTold[c] = meta

\* A cell that is gone, or whose notebook is closed, has no connection left.
NothingOutlivesTheNotebook ==
    Idle /\ ~missed =>
        \A c \in KqlCells \ picked : ~isOpen \/ c \notin cells => transient[c] = None /\ cellTold[c] = None

\* Every operation on the notebook ends, whatever fails on the way.
QueueDrains == <>[]Idle

\* Cells have the connection of their notebook, and none without one (see the parts above).
CellsAgree == NcTypeOK /\ CellsFollowTheNotebook /\ NothingOutlivesTheNotebook
=============================================================================
