----------------------------- MODULE ResultGrid -----------------------------
(***************************************************************************)
(* A grid that shows a result table: ResultGrid of kustoResultRenderer.js, *)
(* handleRendererMessage of NotebookResultManager, and the server's views  *)
(* of the table, known by their promise ViewService.  Other editors may    *)
(* show the table and change its view as well.                             *)
(*                                                                         *)
(* The grid and the extension host exchange messages in order; the host    *)
(* has a call under way for each request whose answer takes more than one  *)
(* reply of the server.  The grid keeps the page that is on its screen,    *)
(* and filter and sort together are a view.                                *)
(***************************************************************************)
EXTENDS Integers, Sequences

CONSTANTS
    Views,          \* what the user may ask to see
    AllRows,        \* the view of an unfiltered, unsorted table
    MaxGridActs,    \* bound: how often users do anything to the views
    MaxRenders      \* bound: how often the output is rendered

ASSUME GridAssumption ==
    AllRows \in Views /\ MaxGridActs \in Nat /\ MaxRenders \in Nat

VARIABLES
    rev, ready, status, gone,   \* the server: see ViewService
    viewOf,         \* the views the server accepted, by revision
    grid,           \* the state of the grid, from getTableState
    renders,        \* how often the output was rendered
    gridActs,       \* how often users did anything, see MaxGridActs
    outbox,         \* messages from the grid to the host
    inbox,          \* messages from the host to the grid
    gridCalls       \* invocations of handleRendererMessage under way

serverVars == <<rev, ready, status, gone>>
gridVars == <<serverVars, viewOf, grid, renders, gridActs, outbox, inbox, gridCalls>>

Session == INSTANCE ViewService

\* The view behind a revision: nothing was filtered or sorted at revision 0.
ViewAt(r) == IF r = 0 THEN AllRows ELSE viewOf[r]

NoPage == -1
NoView == [id |-> 0, revision |-> 0, view |-> AllRows, cancelled |-> FALSE]

\* getTableState for an output that was created when its query completed.
\* missed is a history variable: a reply changed the revision of the grid and
\* its rows were not drawn again.
Fresh ==
    [number |-> 0,          \* requestNumber
     revision |-> 0, next |-> 0,
     applied |-> AllRows,   \* sort and filters
     draft |-> AllRows,     \* draftSort and draftFilters
     pending |-> NoView,    \* pendingView
     queued |-> FALSE, timer |-> FALSE, retries |-> 0,
     page |-> NoPage,       \* pages: the revision of the visible page
     awaited |-> 0,         \* pendingPages: its request
     requests |-> {},       \* pageRequests
     drawn |-> NoPage,      \* the revision of the rows on the screen
     missed |-> FALSE]

MaxRetries == 1     \* MAX_AUTOMATIC_VIEW_RETRIES

\* The part of a status reply that grids use; NoStatus: it names no table.
NoStatus == [rev |-> 0, ready |-> -1]
Status == IF gone THEN NoStatus ELSE [rev |-> rev, ready |-> ready]

GridInit ==
    /\ Session!VsInit
    /\ viewOf = <<>>
    /\ grid = Fresh
    /\ renders = 0
    /\ gridActs = 0
    /\ outbox = <<>>
    /\ inbox = <<>>
    /\ gridCalls = {}

-----------------------------------------------------------------------------
(* The grid.  Its operations take and return what they change: the state x.t *)
(* of the grid and the messages x.sent it has posted.                        *)

With(t) == [t |-> t, sent |-> <<>>]

Post(x, type, view) ==
    LET t == [x.t EXCEPT !.number = @ + 1]
    IN  [t |-> t,
         sent |-> Append(x.sent,
            [type |-> type, id |-> t.number, view |-> view,
             revision |-> IF type = "setView" THEN t.next + 1 ELSE t.revision])]

\* renderRows: a page that is neither there nor asked for is requested.
Draw(x) ==
    LET y == IF x.t.page # NoPage \/ x.t.awaited # 0 THEN x
             ELSE LET p == Post(x, "page", AllRows)
                  IN  [p EXCEPT !.t.awaited = p.t.number,
                                !.t.requests = @ \union {[id |-> p.t.number, revision |-> p.t.revision]}]
    IN  [y EXCEPT !.t.drawn = y.t.page, !.t.missed = FALSE]

\* sendViewChange
SendView(x) ==
    IF x.t.pending.id # 0
    THEN [x EXCEPT !.t.timer = FALSE, !.t.queued = TRUE]
    ELSE LET p == Post(x, "setView", x.t.draft)
         IN  [p EXCEPT !.t.timer = FALSE,
                       !.t.pending = [id |-> p.t.number, revision |-> p.t.next + 1,
                                      view |-> p.t.draft, cancelled |-> FALSE]]

SendQueued(x) ==
    IF x.t.queued THEN SendView([x EXCEPT !.t.queued = FALSE]) ELSE x

\* The grid moves to another revision: its pages are of no use any more.
MovedTo(t, revision, view) ==
    [t EXCEPT !.revision = revision, !.applied = view, !.page = NoPage, !.awaited = 0]

\* synchronizeReadyView
Synchronized(t, at, preserveDraft) ==
    [MovedTo(t, at.ready, ViewAt(at.ready)) EXCEPT
        !.next = IF at.rev > @ THEN at.rev ELSE @,
        !.draft = IF preserveDraft THEN @ ELSE ViewAt(at.ready)]

CanRetry(t) == t.retries < MaxRetries
Retry(t) == [t EXCEPT !.retries = @ + 1, !.queued = TRUE]

\* The step in which the grid becomes x.t and posts x.sent.
Becomes(x) ==
    /\ grid' = x.t
    /\ outbox' = outbox \o x.sent

-----------------------------------------------------------------------------
(* receive, one action for each type of reply that has an effect *)

Arrives(types) ==
    /\ inbox # <<>>
    /\ Head(inbox).type \in types
    /\ inbox' = Tail(inbox)
    /\ UNCHANGED <<serverVars, viewOf, renders, gridActs, gridCalls>>

Known(t, m) == \E q \in t.requests : q.id = m.id

\* The request of a page was answered.
PageAnswered(t, m) ==
    [t EXCEPT !.requests = {q \in @ : q.id # m.id},
              !.awaited = IF @ = m.id THEN 0 ELSE @]

\* Fault: the revision of a page is not looked at.
ReceiveAnyPage ==
    LET t == grid
        m == Head(inbox)
    IN  /\ Arrives({"page"})
        /\ Becomes(
            IF ~Known(t, m) THEN With(t)
            ELSE Draw(With([PageAnswered(t, m) EXCEPT !.page = m.revision])))

ReceivePage ==
    LET t == grid
        m == Head(inbox)
    IN  /\ Arrives({"page"})
        /\ Becomes(
            IF ~Known(t, m) THEN With(t)
            ELSE IF m.revision # t.revision THEN With(PageAnswered(t, m))
            ELSE Draw(With([PageAnswered(t, m) EXCEPT !.page = m.revision])))

\* viewResult: the view is ready, or it failed and the previous one stays.
ReceiveView ==
    LET t == grid
        m == Head(inbox)
        v == t.pending
        answered == [t EXCEPT !.pending = NoView, !.next = v.revision]
        moved == [MovedTo(answered, v.revision, v.view) EXCEPT
                    !.draft = IF t.queued THEN @ ELSE v.view]
    IN  /\ Arrives({"viewReady", "viewFailed"})
        /\ Becomes(
            IF v.id # m.id THEN With(t)
            ELSE SendQueued(Draw(With(IF m.type = "viewReady" THEN moved ELSE answered))))

ReceiveCancelled ==
    LET t == grid
        m == Head(inbox)
        answered == [t EXCEPT !.pending = NoView]
    IN  /\ Arrives({"viewCancelled"})
        /\ Becomes(
            IF t.pending.id # m.id THEN With(t)
            ELSE SendQueued(Draw(With(
                IF m.at # NoStatus THEN Synchronized(answered, m.at, t.queued)
                ELSE [answered EXCEPT !.next = t.pending.revision]))))

\* viewRejected: another editor changed the view first.  The rows on the
\* screen are left as they are.
ReceiveRejected ==
    LET t == grid
        m == Head(inbox)
        answered == [t EXCEPT !.pending = NoView]
        informed == IF m.at # NoStatus
                    THEN [Synchronized(answered, m.at, TRUE) EXCEPT !.missed = TRUE]
                    ELSE [answered EXCEPT !.next = m.revision]
    IN  /\ Arrives({"viewRejected"})
        /\ Becomes(
            IF t.pending.id # m.id THEN With(t)
            ELSE SendQueued(With(IF CanRetry(t) THEN Retry(informed) ELSE informed)))

\* Fault: only a failed view protects the draft.
ReceiveErrorOverwriting ==
    LET t == grid
        m == Head(inbox)
        outdated == \E q \in t.requests : q.id = m.id /\ q.revision # t.revision
        failedView == t.pending.id = m.id
        answered == [PageAnswered(t, m) EXCEPT !.pending = IF failedView THEN NoView ELSE @]
    IN  /\ Arrives({"error"})
        /\ Becomes(
            IF outdated THEN With(PageAnswered(t, m))
            ELSE IF m.at = NoStatus \/ m.at.ready = t.revision THEN SendQueued(With(answered))
            ELSE SendQueued(Draw(With(Synchronized(answered, m.at, failedView)))))

\* requestError, for a page or for a view.
ReceiveError ==
    LET t == grid
        m == Head(inbox)
        outdated == \E q \in t.requests : q.id = m.id /\ q.revision # t.revision
        failedView == t.pending.id = m.id
        answered == [PageAnswered(t, m) EXCEPT !.pending = IF failedView THEN NoView ELSE @]
        preserveDraft == t.queued \/ t.pending # NoView \/ t.timer
        synchronized == m.at # NoStatus /\ m.at.ready # t.revision
        retry == failedView /\ ~t.queued /\ CanRetry(t)
        moved == Synchronized(answered, m.at, preserveDraft)
    IN  /\ Arrives({"error"})
        /\ Becomes(
            IF outdated THEN With(PageAnswered(t, m))
            ELSE IF ~synchronized THEN SendQueued(With(answered))
            ELSE SendQueued(Draw(With(IF retry THEN Retry(moved) ELSE moved))))

Receive ==
    ReceivePage \/ ReceiveView \/ ReceiveCancelled
        \/ ReceiveRejected \/ ReceiveError

-----------------------------------------------------------------------------
(* The user *)

\* A user does something in an editor; see MaxGridActs.
GridActs ==
    /\ renders > 0
    /\ gridActs < MaxGridActs
    /\ gridActs' = gridActs + 1
    /\ UNCHANGED <<serverVars, viewOf, renders, inbox, gridCalls>>

\* The output is rendered, for the first time or again.
RenderOutput ==
    /\ renders < MaxRenders
    /\ renders' = renders + 1
    /\ Becomes(Draw(With(Fresh)))
    /\ UNCHANGED <<serverVars, viewOf, gridActs, inbox, gridCalls>>

\* queueViewChange, after a filter is typed (debounced) or anything else.
Edit ==
    LET t == grid IN
    /\ GridActs
    /\ \E v \in Views \ {t.draft}, debounce \in BOOLEAN :
        LET edited == [t EXCEPT !.draft = v, !.retries = 0, !.timer = FALSE]
        IN  Becomes(
                IF t.pending # NoView THEN With([edited EXCEPT !.queued = TRUE])
                ELSE IF debounce THEN With([edited EXCEPT !.timer = TRUE])
                ELSE SendView(With(edited)))

\* cancelViewChange; the button is enabled once for each view that is sent.
Cancel ==
    LET t == grid IN
    /\ GridActs
    /\ t.pending # NoView /\ ~t.pending.cancelled
    /\ Becomes(Post(With([t EXCEPT !.timer = FALSE, !.queued = FALSE,
                                      !.draft = t.applied, !.pending.cancelled = TRUE]),
                       "cancelView", AllRows))

\* The user scrolls, or selects a row.
Scroll ==
    /\ GridActs
    /\ Becomes(Draw(With(grid)))

\* The timer of a debounced edit.
GridTimerFires ==
    /\ grid.timer
    /\ Becomes(SendView(With(grid)))
    /\ UNCHANGED <<serverVars, viewOf, renders, gridActs, inbox, gridCalls>>

-----------------------------------------------------------------------------
(* The host and the server *)

GridCall(m, phase) ==
    [id |-> m.id, revision |-> m.revision, phase |-> phase, at |-> NoStatus,
     render |-> renders, listed |-> m.type = "setView", cancelled |-> FALSE]

\* viewCancellations has one entry for the grid: that of its newest call.  The
\* rendering tells calls of the same number apart.
WithCall(c) == {[d EXCEPT !.listed = FALSE] : d \in gridCalls} \union {c}

\* The next message is handled, up to the reply of the server to it.
Handles(type) ==
    /\ outbox # <<>>
    /\ Head(outbox).type = type
    /\ outbox' = Tail(outbox)
    /\ UNCHANGED <<grid, renders, gridActs>>

\* A page of the ready view; for any other view the status is asked for.
HandlePage ==
    LET m == Head(outbox) IN
    /\ Handles("page")
    /\ gridCalls' = gridCalls \union {GridCall(m, IF gone \/ m.revision # ready THEN "outdated" ELSE "page")}
    /\ UNCHANGED <<serverVars, viewOf, inbox>>

\* setResultSessionView: accepted, rejected with the revision of the server,
\* refused, or cancelled before the server looked at it.
HandleSetView ==
    LET m == Head(outbox) IN
    /\ Handles("setView")
    /\ UNCHANGED inbox
    /\ \/ /\ ~gone /\ m.revision = rev + 1
          /\ Session!Submit
          /\ viewOf' = Append(viewOf, m.view)
          /\ gridCalls' = WithCall(GridCall(m, IF status' = "failed" THEN "answered" ELSE "evaluating"))
       \/ /\ ~gone /\ m.revision # rev + 1
          /\ gridCalls' = WithCall([GridCall(m, "rejected") EXCEPT !.revision = rev])
          /\ UNCHANGED <<serverVars, viewOf>>
       \/ /\ gone
          /\ gridCalls' = WithCall(GridCall(m, "refused"))
          /\ UNCHANGED <<serverVars, viewOf>>
       \/ /\ \E i \in 2 .. Len(outbox) : outbox[i].type = "cancelView"
          /\ gridCalls' = WithCall(GridCall(m, "cancelled"))
          /\ UNCHANGED <<serverVars, viewOf>>

Cancellable == {"evaluating", "answered", "rejected"}

Cancelled == {[c EXCEPT !.cancelled = @ \/ (c.listed /\ c.phase \in Cancellable)] : c \in gridCalls}

HandleCancelView ==
    /\ Handles("cancelView")
    /\ gridCalls' = Cancelled
    /\ UNCHANGED <<serverVars, viewOf, inbox>>

\* The call c goes on to another phase.
GoesOn(c, phase) ==
    /\ gridCalls' = (gridCalls \ {c}) \union {[c EXCEPT !.phase = phase]}
    /\ UNCHANGED <<viewOf, grid, renders, gridActs, outbox, inbox>>

\* setResultSessionView returns or throws.  A cancellation may come too late
\* to keep the view from being published, and ends the call all the same.
EvaluationEnds(c) ==
    /\ c.phase = "evaluating"
    /\ IF c.revision = rev /\ ~gone
       THEN Session!Publish \/ Session!Fail
       ELSE UNCHANGED serverVars
    /\ GoesOn(c, IF c.cancelled THEN "cancelled" ELSE "answered")

\* Fault: waitForView does not notice that the view was replaced.
PollIgnoresNewer(c) ==
    /\ c.phase = "answered"
    /\ gone \/ c.cancelled
    /\ GoesOn(c, IF c.cancelled THEN "cancelled" ELSE "recovering")
    /\ UNCHANGED serverVars

\* waitForView finds out that the view was replaced, withdrawn or cancelled.
PollFails(c) ==
    /\ c.phase = "answered"
    /\ gone \/ rev # c.revision \/ c.cancelled
    /\ GoesOn(c, IF c.cancelled THEN "cancelled" ELSE "recovering")
    /\ UNCHANGED serverVars

\* The server has answered the call: type is the reply that is due, and at the
\* status that goes with it.
Ends(c, type, at) ==
    /\ gridCalls' = (gridCalls \ {c}) \union {[c EXCEPT !.phase = type, !.at = at]}
    /\ UNCHANGED <<serverVars, viewOf, grid, renders, gridActs, outbox, inbox>>

Replies == {"page", "viewReady", "viewFailed", "viewCancelled", "viewRejected", "error"}

\* The host posts the reply and the call is over.  The server's answers to
\* different calls may overtake each other.
ReplyTo(c) ==
    /\ c.phase \in Replies
    /\ inbox' = Append(inbox, [type |-> c.phase, id |-> c.id, revision |-> c.revision, at |-> c.at])
    /\ gridCalls' = gridCalls \ {c}
    /\ UNCHANGED <<serverVars, viewOf, grid, renders, gridActs, outbox>>

\* waitForView returns.
PollSucceeds(c) ==
    /\ c.phase = "answered"
    /\ ~gone /\ rev = c.revision
    /\ \/ status = "ready" /\ Ends(c, "viewReady", NoStatus)
       \/ status = "failed" /\ Ends(c, "viewFailed", NoStatus)

\* The status is asked for once more, where it is of use, and reported.
CallEnds(c) ==
    \/ c.phase = "refused" /\ Ends(c, "error", NoStatus)
    \/ c.phase \in {"outdated", "recovering"} /\ Ends(c, "error", Status)
    \/ c.phase = "cancelled" /\ Ends(c, "viewCancelled", Status)
    \/ c.phase = "rejected" /\ Ends(c, "viewRejected", Status)
    \/ c.phase = "rejected" /\ gone /\ ~c.cancelled /\ Ends(c, "error", NoStatus)
    \/ c.phase = "rejected" /\ gone /\ c.cancelled /\ Ends(c, "viewCancelled", NoStatus)

\* The session is disposed, by the host or because the server needs the room;
\* the host cancels its views (cancelViewsForSession).
WithdrawTable ==
    /\ Session!Withdraw
    /\ gridCalls' \in {gridCalls, Cancelled}
    /\ UNCHANGED <<viewOf, grid, renders, gridActs, outbox, inbox>>

\* Another editor changes the view, and its view is evaluated.
ChangeElsewhere ==
    /\ gridActs < MaxGridActs
    /\ gridActs' = gridActs + 1
    /\ Session!Submit
    /\ \E v \in Views : viewOf' = Append(viewOf, v)
    /\ UNCHANGED <<grid, renders, outbox, inbox, gridCalls>>

EvaluateElsewhere ==
    /\ \A c \in gridCalls : c.phase = "evaluating" => c.revision # rev
    /\ Session!Publish \/ Session!Fail
    /\ UNCHANGED <<viewOf, grid, renders, gridActs, outbox, inbox, gridCalls>>

-----------------------------------------------------------------------------
Host == HandlePage \/ HandleSetView \/ HandleCancelView

CallMoves(c) == EvaluationEnds(c) \/ PollFails(c) \/ PollSucceeds(c) \/ CallEnds(c) \/ ReplyTo(c)

GridUser == RenderOutput \/ Edit \/ Cancel \/ Scroll

Elsewhere == WithdrawTable \/ ChangeElsewhere \/ EvaluateElsewhere

GridNext ==
    \/ GridUser \/ GridTimerFires \/ Receive \/ Host
    \/ \E c \in gridCalls : CallMoves(c)
    \/ Elsewhere

GridSpec == GridInit /\ [][GridNext]_gridVars

\* Messages arrive and are handled, timers fire, calls get their answers.
GridFairness ==
    /\ WF_gridVars(GridTimerFires)
    /\ WF_gridVars(Receive)
    /\ WF_gridVars(Host)
    /\ WF_gridVars(\E c \in gridCalls : CallMoves(c))

GridLiveSpec == GridSpec /\ GridFairness

-----------------------------------------------------------------------------
(* Safety *)

GridTypeOK ==
    /\ rev \in Nat /\ ready \in 0 .. rev
    /\ viewOf \in Seq(Views) /\ Len(viewOf) = rev
    /\ grid.revision \in 0 .. ready /\ grid.next \in Nat
    /\ grid.applied \in Views /\ grid.draft \in Views /\ grid.pending.view \in Views
    /\ grid.retries \in 0 .. MaxRetries
    /\ \A q \in grid.requests : q.id \in 1 .. grid.number /\ q.revision \in 0 .. rev
    /\ grid.awaited \in {0} \union {q.id : q \in grid.requests}

\* Rows are shown under the filters and the sort that selected them: the page
\* of a grid is one of its revision, and the view the grid says it shows is the
\* one the server evaluated under that revision.
LabelsMatchRows ==
    /\ grid.applied = ViewAt(grid.revision)
    /\ grid.page \in {NoPage, grid.revision}

\* The rows on the screen are those of the grid's revision, or are being loaded,
\* so that selections, copies and new cells take the rows the user sees - but
\* for the rows left on the screen by ReceiveRejected.
ScreenIsCurrent == grid.missed \/ grid.drawn \in {NoPage, grid.revision}

\* What the user typed and the grid has not sent yet is not overwritten by
\* replies; it changes when the user edits again or cancels.
EditsAreKept ==
    [][Receive /\ (grid.queued \/ grid.timer) => grid'.draft = grid.draft]_gridVars

-----------------------------------------------------------------------------
(* Liveness *)

\* Every change of view is answered, whatever other editors do meanwhile: a
\* grid that is left alone comes to rest with nothing pending or queued.
ViewChangesAreAnswered ==
    (grid.pending # NoView \/ grid.queued \/ grid.timer) ~>
        (grid.pending = NoView /\ ~grid.queued /\ ~grid.timer)

\* The rows a grid is waiting for arrive, though the view they were asked for
\* may be replaced: see ScreenIsCurrent for the exception.
RowsArrive ==
    (renders > 0) ~> (gone \/ grid.page # NoPage \/ grid.missed)

\* What the grid shows is true: rows, filters and revision belong together (see
\* the parts above).
ScreenIsTrue == GridTypeOK /\ LabelsMatchRows /\ ScreenIsCurrent
=============================================================================
