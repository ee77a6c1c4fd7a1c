# Kusto Explorer for VS Code, in TLA+

A verification development kept beside the Kusto Explorer extension: a TypeScript
extension host (`src/Client`), a notebook renderer (`src/Client/renderers`) and a
C# language server (`src/Server`) that talk JSON-RPC over the server's standard
streams. Paths below are relative to the repository.

The project answers one question at a time about the parts where several actors
share state: who owns a query result and when it is freed; which filtered view a
page is read from; what a notebook shows while runs are interrupted and cells
deleted; whether what is copied is what is selected; whether client, server and
storage agree on connections, history and results once overlapping commands have
ended. Each question is a property of a run of TLC on a small instance; the central
answers are also theorems, proved with TLAPS for every value of the constants.

- [1 Inventory](#1-inventory)
- [2 Modules](#2-modules)
- [3 Runs](#3-runs)
- [4 Proofs](#4-proofs)
- [5 Assumptions and abstractions](#5-assumptions-and-abstractions)
- [6 Findings](#6-findings)
- [7 Plan](#7-plan)

## 1 Inventory

What each component keeps, what it does, what is hard about it, and what makes it
correct. **Modelled** components have a section in part 2.

### Server

| Component | State | Operations | Hard | Correct when |
|---|---|---|---|---|
| **Result-session store** `ResultSessions/ResultSessionManager.cs` | `_sessions`; per session: state, tables, cancellation source, last access, execution task; `_disposed` | start, cancel, status, page, projection, continuation, enrichment, dispose; idle timer; eviction at the cap; execution task; shutdown | handlers, pool tasks and a timer interleave; `CancelAsync` acts after releasing its lock; a source must outlive its readers; failures arrive by continuation | the cap holds, nothing registered is forgotten, every table has one owner, outcomes are final, cancelled and idle sessions end |
| **Result views** same file, `SetViewAsync` and `SessionTable` | per table: accepted and ready revision, view state, the evaluation attached | set view, cancel the request, evaluate, publish | evaluation runs without a lock and returns after newer revisions, cancellations, time-outs or disposal | pages are read from the newest valid view, statuses are truthful, no stale evaluation publishes |
| Request queues, diagnostics `Utilities/LatestRequestQueue.cs`, `Utilities/TaskQueue.cs`, `Diagnostics/DiagnosticsManager.cs` | latest task per document, chain of tasks | run latest (cancels the previous one), run serially, publish diagnostics | the previous request may be finishing when cancelled; results are handed to the pool unordered | the last diagnostics published belong to the last text |
| Schema cache `Schema/SchemaManager.cs` | clusters and databases in memory, the same in the store, delayed refreshes | get, load, clear, delayed refresh | clearing runs outside the load queue; loads await between read and write | a cleared schema is loaded again, an old one never overwrites a newer one |
| Symbols `Symbols/SymbolManager.cs` | the globals shared by all documents | set default domain, load and refresh symbols | one writer is meant, two exist | no loaded schema is lost |
| Documents `Documents/DocumentManager.cs`, `SectionedDocument.cs` | text, sections, globals per document | add, edit, connect, remove, resolve symbols | text and globals are replaced by read-modify-write on different threads | the text is the client's last text |
| Connections `Connections/ConnectionManager.cs` | connections by name, fallback mark of a cluster | get, execute, fall back to host authentication | concurrent first queries; one retry | a query fails to authenticate only if the fallback does too |
| Query execution `Querying/QueryManager.cs` | none of its own | run query, client directives, stored query results | a loop over directives, two dependent steps | directives are applied once each |
| Language features, entities, charts, settings | none, or per request | computed from an immutable document | - | pure functions of their input |

### Client

| Component | State | Operations | Hard | Correct when |
|---|---|---|---|---|
| **Notebook execution and result ownership** `kustoNotebookController.ts`, `notebookResultManager.ts` | execution queue per notebook; `sessionsByCell`, `pendingSessionsByCell`; the run's token | run cells, poll, prepare, show, adopt, release on clear / delete / close, interrupt | the user acts at every `await`; results must be kept until replaced and freed afterwards | no session is lost track of, the previous result survives a failed run, interrupted runs end |
| **Result grid** `kustoResultRenderer.js`, host part of `notebookResultManager.ts` | revision, view, pages and pending requests per table and renderer | request pages, change view, cancel, recover from a rejected revision | several renderers of one table, replies out of order | rows shown belong to the revision shown |
| **Copy, continue, enrich** `notebookResultManager.ts`, `kustoNotebookManager.ts` | requests handled in parallel, the queue of edits of a notebook, cells' identifiers | copy page by page, make a snapshot, insert a cell, give identifiers | the view and the notebook change between awaits; edits are refused | the rows are those selected, the new cell follows and names its source |
| **Server list** `connectionManager.ts`, `connectionsPanel.ts` | servers and groups, the list the server was told | ensure, add, edit, move, rename, remove | prompts and look-ups between reading and writing | the server knows the list, an ensured server is in it |
| **Connections of documents** same files, `connectionStatusBar.ts` | saved connections, what the server was told, tree selection, status bar | set, infer, select in the tree, refresh the bar | awaits between look-up, saving and telling | all four show one connection |
| **Connections of notebooks** `kustoNotebookManager.ts` | queue of synchronisations, transient connections of cells | set, edit metadata, edit cells, close | edits and closing between the steps of the queue | cells have their notebook's connection; none survives it |
| **Schema tree** `connectionManager.ts`, `connectionsPanel.ts` | cached databases and infos | expand, refresh, reveal | answers of before a refresh | refreshed schemas stay fresh; parents list their children |
| **History** `historyManager.ts`, `historyPanel.ts` | index file and result files, shared by windows | add, trim, delete, clear, write back | read-modify-write over awaits, names with the granularity of a second, crashes | index and files agree |
| **Results view** `resultsViewer.ts` | one view: its result, its backing file, pending write-backs, the panel | display, edit chart and layout, move, close | the file, the view and the panel change at different times | a file holds its own result, with its last chart |
| **Result documents** `resultsViewer.ts` | text of each `.kqr`, state of each tab, queued self edits | edit, rerun, remove the chart, save | edits wait in a queue with what they read before | edits survive, nothing is rendered over the user |
| **Query editor** `queryEditor.ts` | counts and generations of running queries, timers, lenses, decorations | run, draw, separate queries, refresh colours | timers of earlier runs, answers out of order, typing between two edits | marks tell what runs; the text is given back |
| **Scratch pads** `scratchPadManager.ts`, `scratchPadPanel.ts`, `importManager.ts` | files, saved order, editors, save timers | create, import, rename, reorder, delete, clear | names chosen before an await, tabs that stay open | no pad's text is lost, the order lists each once |
| **Clipboard** `clipboard.ts`, `queryEditor.ts` | system text, context of an entity copied | copy, paste | the two are written at different times | a paste is transformed for the entity it came from |
| **Result tables** `dataTableProvider.ts` | selection on the page, drawn and in the host; armed flags; expression to drag | select, sort, page, reorder, drag | flags set by one event and consumed by another, messages without a table's name | what is copied and dragged is what is selected |
| **Chart editor** `chartEditorProvider.ts`, `resultsViewer.ts` | the form on the page, the options and defaults it was built from | edit, capture and restore defaults, show a result | options, forms and results cross between page and host; a form shows only what it offers | form, host and chart agree |
| Drawing of charts, enrichments, Copilot, authentication UI, start-up | presentation, files, wiring | - | - | - |

### Interaction

Requests and notifications go from the client to the server in order and the
synchronous parts of handlers are run one at a time; answers come back as the
handlers finish. The server announces diagnostics and asks for authentication
tokens. Within the server, components share `Globals` and the documents and run
continuations on pool threads; within the client everything runs on one thread,
and awaits are the only places where something else may happen. The renderer is a
process of its own that exchanges messages with the host part of
`notebookResultManager.ts`.

The extension host keeps the list of servers, connections and layouts in the
editor's storage, history, pads and `.kqr` files on disk, where other windows, the
user and other extensions see and change them. A results view is a web page that
exchanges messages with `dataTableProvider.ts` and `resultsViewer.ts`.

The hazards this code is exposed to, each at its line, with the properties that
cover it or the reason why none does, are listed in `PROJECT.json`.

## 2 Modules

```
 ResultService      the promise to the client        ViewService     the promise to a grid
     ^       ^                                          ^       ^
     |       | relies on                                |       | relies on
     |     NotebookSessions                             |     ResultGrid
     | implements                                       | implements
     +--------------------  ResultViews  ---------------+
                                | extends
                           ResultSessions
```

The other components of the client have a module each and share no state in the
model. They are explored in groups, in which an execution belongs to one of them:

```
 MCResults      NotebookSessions  ResultGrid  NotebookCommands  ChartEditor
                ResultTables (TableSelection and TableDrag)
 MCConnections  ServerList  DocumentConnections  NotebookConnections  SchemaTree
 MCResultFiles  HistoryStore  SingletonView  ResultDocuments
 MCEditor       QueryRuns  ScratchPads  EditorDecorations  Clipboard
 MCClientLive   those of the above that owe someone an answer, with their fairness
 MCServerLive   ResultSessions and ResultViews, with theirs
```

The variable `part` of a group is the component explored, chosen at the start; the
next-state relation has one action per component. The product of components that
share nothing would show nothing more. `MC*` modules add this, symmetry sets, the
values of constants and, for liveness, fairness of the part explored; `*Proofs`
modules hold theorems. `ResultTables` states what selection and drag promise together.
`Client` declares `None`, which the client modules share; `Lists`
has the filter of arrays that `HistoryStore` and `ScratchPads` use, as a recursive
function, which can be proved about; `SequenceLemmas` has what several proofs need of
numbers and sequences: least and greatest, induction, the ends of an interval, sequences
with an element added, inserted or removed, a set put in sequence.
Definitions that begin with a comment `Fault:` are not part of any
specification: each is the mutation of the definition after it that a plausible
bug would be, and shows that the property named with it in `PROJECT.json` can fail.

The invariant of a client module is called for what it says (`ListIsTold`,
`PadsAreSound`, ...) and is the conjunction of its type invariant and of the
properties above it, each with its own comment. What a module keeps only for its
properties is marked *history* in its declaration: most say when an overlap that
the code does not defend against has happened, so that the properties hold for
everything else. The properties that fail without that excuse are in part 6.

### ResultSessions - the store

One action is one section under `session.SyncRoot` with the unlocked code around
it that no other thread can tell from it.

| Variable | Code |
|---|---|
| `state` | `Session.State`, `absent` before `StartAsync` |
| `exec` | where `ExecuteAsync` is: scheduled, awaiting the query, with its answer before the commit, on the way to a catch block, faulted with the continuation due, done |
| `tables` | the tables of the query: held by the task (`inflight`), `OwnedTables` (`owned`), disposed (`freed`) |
| `token` | `Session.Cancellation`: live, cancelled, disposed |
| `registered`, `older`, `idle` | `_sessions`, the order of `LastAccess` and the entries past the idle cutoff |
| `dispatch` | the session `CancelAsync` accepted to cancel and has not yet cancelled |
| `closed` | `_disposed` |

| Action | Code |
|---|---|
| `Start` with `Retired` | `StartAsync`: idle clean-up, eviction of the least recently used inactive session when full, insertion, `Task.Run`; no action when the store is full of active sessions (the code throws) |
| `CancelDecide`, `CancelApply` | the two halves of `CancelAsync`, before and after its lock is released |
| `Read` | handlers that only read: they renew the access time |
| `Dispose`, `Shutdown` | `DisposeAsync`, `Dispose` |
| `GrowIdle`, `CleanupIdle` | time passing and the timer, session by session |
| `ExecBegin`, `QueryReturns`, `QueryThrows`, `CommitDropped`, `CommitError`, `CommitTables`, `CatchCancelled`, `RecordFailure` | `ExecuteAsync` from lock to lock, and the continuation of a faulted task |

### ResultViews - filtered and sorted views

Extends the store, so that every behaviour of the views is a behaviour of the
store with `DisposeSession` also stopping the evaluation (`Lifecycle`). `rev` and
`ready` are `ViewRevision` and `ReadyViewRevision`, `view` is `ViewState`,
`attached` names `SessionTable.ViewEvaluation`. An evaluation is named by session
and revision, because an accepted revision starts at most one. `SetView` is the
locked first part of `SetViewAsync`; `EvalEnds` the end of the awaited task, with
rows, a regular expression that timed out, a failure (also the five-second limit)
or by cancellation; `EvalFinish` the `finally` block with its four conditions in
order; `WithdrawRequest` the cancellation of the request by the client.

### ResultService - the promise

A result is pending, then available or not, and may be withdrawn for ever at any
time; its ready view is replaced by later revisions only. No threads, tokens,
timers or evictions. `ResultViews` implements it (`ImplementsService`), with
`phase` computed from `state` and `view` being `ready`; `NotebookSessions` makes
the server's moves through its actions.

### NotebookSessions - the client

The cells of one notebook, executed one at a time. `pc` is the `await` at which
`executeCell` or `runQuery` stands, `session` the session of the run,
`sessionOf` and `pendingOf` the two maps of `NotebookResultManager`, `shown` the
session named by the grid in a cell's output, `disposing` the
`disposeResultSession` requests under way and `awaited` those the run waits for.
`overtaken` is a history variable: cells whose output was cleared while their new
grid was being set, the one case in which a grid may show a released session.

| Action | Code |
|---|---|
| `Begin`, `ShowBlank` | the start of `executeCell`, and an empty cell |
| `StartReturns`, `StartFails`, `PollEnds` | `runQuery`, with its three ways to end |
| `Connected` | after `ensureServer` / `setConnection`: an empty result, `prepareSession`, or a failure |
| `ShowEmpty`, `ShowGrid`, `ShowFails`, `Adopt`, `End` | the output replaced or not, `adoptSession`, the end once disposals are answered |
| `Interrupt`, `Clear`, `Delete`, `Close` | the user and the editor's events |
| `ServerActs`, `Disposed` | the server, through `ResultService` |

### ViewService - the promise to a grid

The views of one table: accepted ones are numbered, only the newest is evaluated,
it becomes the ready one or fails, and the table may go at any time.
`ResultViews` implements it for every session (`ImplementsViewService`), which is
what allows `ResultGrid` to be checked against it rather than against the store.

### ResultGrid - the grid and the host between it and the server

One grid showing one table; other editors on the same table are the environment
(`ChangeElsewhere`, `EvaluateElsewhere`), as they reach this grid only through the
server. `grid` is the object of `getTableState`, field by field: `applied` is
`sort` with `filters`, `draft` the draft of both, `page` the revision of the visible
page, `awaited` its entry in `pendingPages`, `requests` is `pageRequests`, `timer`
is `filterTimer`, `queued` `queuedView`, `pending` `pendingView`. `drawn` is the
revision of the rows on the screen. `outbox` and `inbox` are the two message
queues between renderer and host; `gridCalls` the invocations of
`handleRendererMessage` that wait for the server, with the reply that is due once it
is known, so that answers to different calls may overtake each other. `missed` is
a history variable: a rejection moved the grid to another revision without drawing
its rows again (kustoResultRenderer.js:547-569).

| Action | Code |
|---|---|
| `RenderOutput` | `renderOutputItem`: a new `ResultGrid` for the output |
| `Edit`, `GridTimerFires` | the sort and filter handlers with `queueViewChange`, `sendViewChange` and the debounce timer |
| `Cancel`, `Scroll` | `cancelViewChange`, `renderRows` |
| `ReceivePage`, `ReceiveView`, `ReceiveCancelled`, `ReceiveRejected`, `ReceiveError` | the branches of `receive`, each with the redraw and `sendQueuedView` that ends it |
| `HandlePage`, `HandleSetView`, `HandleCancelView` | `handleRendererMessage` up to the server's first answer |
| `EvaluationEnds`, `PollFails`, `PollSucceeds`, `CallEnds`, `ReplyTo` | the rest of it: `setResultSessionView` ends, `waitForView`, the catch block with its further status request, the reply |
| `WithdrawTable` | the session goes; `cancelViewsForSession` when the host disposes it |

### NotebookCommands - copy, continue and enrich

The table's ready revision (`readyView`), the grid's state that matters (`panel`),
the messages both ways, the requests being handled, the notebook's cells (`book`)
and the queue of operations on them. `CopySelection`, `ContinueResults` and
`RequestEnrichment` post; `HandleRequest`, `ReadPage`, `Pick`, `Create`, `Confirm`
and `ReplyCommand` are `handleRendererMessage` from await to await, `Valid` the
server's `ValidateViewRevision`; `StartJob`, `ApplyIds` and `ApplyInsert` the
notebook's queue, whose edits the editor refuses when the notebook changed
meanwhile. The user deletes, pastes and edits cells at any time.

### TableSelection and TableDrag - the tables of a results view

`TableSelection` is the page's handlers of mousedown, mousemove, mouseup, click and
drag events with the flags they share (`armedCol`, `headerSelect`, `cornerSelect`,
`swallow`, `keepRow`), sorting, paging and the reordering of columns, and the
selection in its three copies: `selected`, `lit`, and `hostSelection`, which is
what is copied. `strayed` and `turned` say that a button was released outside of the
grid, and that the page was turned under a selection.

`TableDrag` is the expression each table keeps for a drag: `Choose` and
`SwitchTab` on the page, `HostReceives` and `Answers` in the host and server,
`PageReceives`, which gives an expression to whatever table is active.

### ChartEditor - the form of chart options in the panel

`Form` is `buildFormHtml`: the values its selects can show (`Fit`), the columns they
offer, the defaults it names. `FormBecomes` is any edit of it, which posts all its
values; `RunDefaults` asks for Capture or Restore Defaults, done by `ReceiveAction`
with a new form. `ReceiveOptions` gives the options to whatever result is shown
(`Applies`). `ShowChart` and `ShowData` are displays of a result with its form, or
without. `wanted` is how the chart looks by the form the user saw or edited last.
Values that no form offers are part of the instance (`Odd`, a column the table
lacks): the form shows the default in their place, and the next edit drops them.

### ServerList, DocumentConnections, NotebookConnections - connections

`ServerList` has a record per command under way (`commands`): what it waits for and
what it captured before. `HostKnown` is `ensureServer` after its first await,
`AddServer`, `EditServer`, `MoveServer`, `RenameServer` and the rest the ends of the
prompts, `Saved` the end of `saveServersAndGroups`.

`DocumentConnections` follows `setDocumentConnection` through inference, storage,
the tree and the notification (`SetInferred` to `SetSent`), beside updates of the
tree for editor events (`UpdateTree`) and refreshes of the status bar.

`NotebookConnections` is the queue of `KustoNotebookManager`: `EditCells`,
`EditMetadata`, `SetConnection` and `CloseNotebook` enqueue, `StartWork`,
`ClearCell`, `SetCell`, `TellServer` and `Finish` run one operation, `Fail` ends it
early. `PickConnection` is a connection chosen for a cell itself.

### SchemaTree - schemas in the client and their items

Requests (`requests`) carry the answer the language server gave until it is handled;
`known` and `cachedInfo` are the client's caches, `loaded` the server's. The tree is
a pure part: `GetChildren` and `GetParents` are the methods of those names,
folders of entities included, compared over all items that can be reached.

### HistoryStore, SingletonView, ResultDocuments - results in files

`HistoryStore`: `Add` to `Put` is `addHistoryEntry` with its trimming, `Delete` and
`Clear` the other two, `WriteFile` a write-back, `Crash` a window that dies, which
leaves a torn index when it was being written.

`SingletonView`: `sv` is the view with its result (`data`), backing file, layout
and pending timers. `Run`, `OpenHistory`, `ShowFromLens` and `ShowFromChat` display
a result, `Resume` what follows the panel's await; `Flush` is the write-back that
closing, moving and switching make.

`ResultDocuments`: `EditOptions` and `EditLayout` queue self edits, `Apply` and
`End` run the first of the queue, `DocTimerFires` makes a chart edit of pending
options; `Rerun`, `EditOutside`, `RemoveDocChart` and `ThemeChanges` overwrite a text
or render a tab anew. The text a replaced range leaves behind is `Torn`.

### QueryRuns, EditorDecorations, ScratchPads, Clipboard - around the editor

`QueryRuns`: a run goes from `AskRange` through `BeginRun`, `Send`, `Answer`,
`ShowError` or `ShowResult` to `EndRun`; `Throw` is an error anywhere. The status
bar's item and each range have a count, a generation and a mark (`lit`);
`TimerFires` is the timer that puts a mark out, unless its generation is over.
`ReadLenses` and `DrawLenses` are `provideCodeLenses` around its awaits.

`EditorDecorations`: `StartRefresh` to `LandDelete` are the two edits of
`forceRefreshSemanticTokens`, `SepTimerFires` to `DrawSeparators` the debounced
request for the separators.

`ScratchPads`: commands (`flows`) create, import, rename and delete over their
awaits; `OpenPad`, `TypePad`, `LeavePad` and `AutoSave` are the editors.

`Clipboard`: `CopyEntity`, `Lands` and `SetContext` in the order the platform makes
of them, `BeginPaste`, `ReadText` and `Transformed` of a paste.

## 3 Runs

| Run | Instance | Question and answer |
|---|---|---|
| `sessions_safety` | 3 sessions, cap 2 | Do the store's books stay straight? All seven properties hold. |
| `views_safety` | 2 sessions, cap 1, 2 revisions | Are statuses truthful and ready views protected, and are both promises kept? Yes. |
| `server_live` | 2 sessions, cap 1, 2 revisions of one session's views | Do accepted cancellations settle, disposed sessions release their source, idle ones go, evaluating views settle? Yes, views unless their session was cancelled. |
| `results_safety` | 3 sessions, 2 cells; 2 views, 3 changes; 2 requests, a copy of 2 pages; a table of 3 rows in 2 pages; 2 tabs, 2 results; 2 charts, 2 edits | Does a notebook lose track of a session or show what it released? Does a grid label rows wrongly or drop what was typed? Are copies, continuations and drags of what the user selected? Does a chart look as its form says? Yes, but for the overlaps of part 6. |
| `connections_safety` | 2 servers, 2 commands; 2 documents; 2 cells, 3 changes; 2 databases, 2 requests | Do client, server, tree and status bar agree once nothing is under way? Yes, but for the overlaps of part 6. |
| `files_safety` | 2 windows, 2 calls, limit 2, 1 crash; 4 results, 2 edits; 2 documents, 2 edits | Does the index match the files, does a file hold its own result, do edits survive? Yes, but for the overlaps of part 6. |
| `editor_safety` | 3 runs of 2 ranges; pads of 2 names, 2 commands; 1 character, 2 refreshes, 2 requests; 2 entities, 2 copies, 1 paste | Do marks tell what runs, are pads and texts kept, does the context go with the text? Yes, but for the overlaps of part 6. |
| `client_live` | 2 sessions, 1 cell; 2 changes of view; 1 request; 2 tabs; 2 commands; 2 changes; 2 runs of 1 range | Do interrupted runs end, are requests answered, queues drained, lists told, marks put out? Yes. |
| `views_comment` | 1 session, 2 revisions | Is every evaluation that unwinds superseded, as a comment says? No: finding 1. |
| `notebook_deleted` | 1 session, 1 cell | Does a deleted cell hold nothing, as ARCHITECTURE.md says? No: finding 2. |
| `grid_rerender` | 3 views, 2 changes, 2 renderings | Are stale answers rejected, as ARCHITECTURE.md says? Not if the output is rendered again: finding 3. |
| `kqr_remove` | 2 documents, 3 edits | Does removing a chart update the document behind the tab? Not when two are open: finding 4. |

**Bounds.** *Server:* a cap of two with three sessions reaches an eviction with a
choice of victim, an eviction beside an active session, a store full of active ones
and a third start after either. Two views per session reach a superseded evaluation
that ends after its successor, in either order. Liveness runs are smaller, as
symmetry is unsound there; two sessions with a cap of one still evict, and only one
of them has views (`OneViewed`): views of different sessions have nothing in common.
*Notebooks:* three sessions and two cells reach a cell with a previous result and a
pending one while the third is held by the other cell or being disposed. Three
changes of view, of the grid or of another editor, reach an edit queued behind one
that is rejected or cancelled, a retry that is overtaken again, and a page asked for
two views ago; one rendering of the output suffices, a second is the subject of
`grid_rerender`. Two requests with one change of view and one edit of the notebook
reach a copy whose second page is of another view and an insertion after its source
moved. *Tables:* three rows in pages of two have a full page and a shorter one; two
columns can be exchanged. *Charts:* two edits reach a Capture or Restore after an
edit, or an edit after one of them; the two charts have options a form cannot show. *Connections:* two overlapping commands are what every
race here takes, over a list of two servers, or one and a group; three changes of a
notebook reach metadata changed and undone around a pick and a closing. *Files:* two windows
with two calls and one crash reach every overlap of reading and writing the index; two
results with charts, one without and one empty reach every kind of display
after another. *Editor:* three runs reach a run that begins while the timer of one
before it waits for the end of another; two commands on two names reach every clash.

`MaxGridActs`, `MaxFormActs`, `MaxCellEdits`, `MaxChanges`, `MaxEdits`, `MaxDocEdits`, `MaxOutside`
and `MaxTyped` count what users do; `MaxPosts`, `MaxRenders`, `MaxResults`, `MaxShows`,
`MaxRevision` and `MaxCrashes` what happens at most so many times; `MaxServers`,
`MaxGroups`, `MaxCached`, `MaxNumber` and `MaxUnderWay` what there is at most at one
time. Sessions and runs are identifiers used once: their number bounds the number of
starts. The constraints `NotBorrowed` and `NoClash` end the search where a history
variable has already excused what may follow. The constraints called `Few` keep the
product of independent bounds small: of the changes of view, requests and edits of a
notebook at most three; two views accepted for a grid among three changes; at most two
servers and groups; a single document, history or pad pursued once a history variable
says that an overlap has excused what it may come to. Cells, sessions, calls and other
interchangeable values are declared symmetric in the runs without liveness.

**Fairness.** Pool tasks and timers run, a handler finishes the call it is in, a
query whose token is cancelled returns or throws (Kusto.Data takes the token), a
view evaluation is bounded by its five-second token. In the client awaited calls
return, timers fire, and the editor asks for lenses after it was told they changed.
Between page and host messages arrive, and the server answers the request it has
had the longest. In `NotebookCommands` dialogs are answered, dismissed at least.
Nothing is assumed of a query that nobody cancels, of users or of the server
withdrawing anything unasked. Fairness is weak throughout: no action is enabled and
disabled again for ever by others. In `MCClientLive` each condition speaks of the
part explored, as all others stand still.

**Deadlock** is not checked in the passing runs and in three of the four others:
after `Shutdown`, with the notebook closed and all sessions used, or with the users'
changes spent, nothing is left to do.

## 4 Proofs

Proved for every value of the constants - any sets of sessions, cells, servers, documents,
calls, files or pads, any cap and any bound - from the assumptions named in the modules,
which TLC evaluates in the runs. They say that bounds are numbers (and the caps positive),
that "none" values, records and names of different kinds are distinct, and that sets
counted by a bound are finite: `SessionsAssumption`, `RevisionAssumption`,
`NotebookAssumption`, `GridAssumption`, `QueryRunsAssumption`, `ListAssumption`, `CommandAssumption`,
`ClipboardAssumption`, `ClipboardRecordAssumption`, `DecorationsAssumption`,
`AskingAssumption`, `DocumentAssumption`, `DocumentRecordAssumption`,
`NotebookConnAssumption`, `WorkAssumption`, `SingletonAssumption`, `DataAssumption`,
`HistoryAssumption`, `CallAssumption`, `PadsAssumption`, `PadRecordAssumption`,
`SchemaAssumption`, `RequestAssumption`, `CommandsAssumption`, `BookEditAssumption`,
`SelectionAssumption` (tables and pages are not empty), `DragAssumption` (the tables of a
result are finitely many), `FormAssumption`, `ChartsAssumption`. `SchemasAssumption` adds that folders are at most
`MaxDepth` (3) deep, which is how far `Items` descends.

In each module below the property is not inductive; the invariant named with it is,
and was checked by TLC before it was proved. The proof that a step preserves it has a
lemma for each action, and lemmas for what several actions share.

**ResultSessionsProofs.** `TypeCorrect`, `NoSessionIsLost`, `NoTableIsLeaked`,
`TokensOutliveTheirUsers`, `ActiveSessionsHaveExecutions`, `CapIsRespected`,
`OutcomesAreFinal` and `CancelledSessionsNeverComplete`. No property is inductive
alone: that a table has an owner depends on what the task may still do, and that a
source is not disposed too early on who may still use it. The invariant `IndInv`
adds `StateFitsExecution` (the states possible at each point of the task) and
`EntriesAreStarted` (an entry was started, and the session about to be cancelled is
a registered, recently accessed, undisposed one - the reason why no timer comes
between `CancelDecide` and `CancelApply`). The cap is proved apart, by cardinality:
`Start` removes the members of `Retired`, which leave at most `MaxSessions - 1`.

**ResultViewsProofs.** `ViewsRefineStore` lets every theorem of the store be used
for the views. `StatusesAreTruthful`, `StraysAreStopped` and
`ReadyViewsAreProtected` follow from `ViewInd`, whose further parts say that
revisions not yet accepted have no evaluation (`NoneAhead`) and that an attached
evaluation is the one the view waits for (`AttachedIsAwaited`). `StoreStep`
summarises what a step of the store may do to one session, so that the view proofs
do not look into sixteen actions again. `StoreKeepsItsPromise` is the refinement:
each step of the store maps to `Open`, `Settle`, `Publish`, `Withdraw` or a stutter.
`TablesKeepTheirPromise` is the refinement that `ResultGrid` rests on: each step
of the store is, for each table, `Submit`, `Publish`, `Fail`, `Withdraw` or nothing;
that only the newest view is published or fails is again `ViewInd`.

**NotebookProofs**, sessions. `NbTypeCorrect`, `NoSessionLeaksUnseen`,
`PrepareIsNeverRefused` and `ShownResultsAreHeld` are proved together in `NbInv`,
because each one's step needs the others: a session is not orphaned by `Adopt` only
because the pending one is the run's own; that needs `RunFits` (the run has a
session exactly between its start and its end), `SessionsAreDistinct` (no cell
holds the run's session as its adopted one) and `ReplacementFits` (the pending
session and the new grid come and go together unless the cell is cleared).
`NotebookReliesOnPromise` shows that the client uses the server as `ResultService`
allows, the interface `StoreKeepsItsPromise` shows the server to keep.

**NotebookProofs**, the grid. Two invariants. `GridShape` holds however often the output is
rendered: variables have their types, a status that was reported is one the server had
(`StatusFits`), and a view is queued only behind a pending one, a timer runs only when there
is none (`QueueFits`). `UnsentEditsAreKept` follows: a reply that is about the pending view
finds the edits queued, and those it finds queued it keeps. `GridTrue` adds what makes
`ScreenIsTrue` inductive: whatever carries the number of the pending view - the message that
asks for it, the call that waits for it, the reply - is about that view, which the server
accepted under the revision the grid expects (`OutboxFits`, `CallFits`, `InboxFits`), and a
view that is reported ready has been (`ServerFits`). It holds while the output is rendered
once (`Untouched`: the first rendering finds nothing under way), hence the hypothesis
`renders <= 1` in `GridsShowTheTruth`; the run `grid_rerender` shows that it is needed.
The proofs go through what the grid's operations do (`PostOp`, `DrawOp`, `SendViewOp`, and
`Keeps`, which says that messages get new numbers) and what each step may do to grid
(`GridSteps`) and host (`HostChanges`). `GridReliesOnPromise` shows that the model uses the
server as `ViewService` allows, the interface `TablesKeepTheirPromise` shows it to keep.

**NotebookProofs**, the commands. `CommandsHold` and `ContinuationsFollow`, from `CmInd`. A
request keeps its number from the grid to the queue, so that the insertion in the queue, or
under way, is the only one of its request (`RequestsFit`, `HandlesFit`, `JobsFit`); what a
copy has read is all of the revision it names. Keys tell cells apart (`BookFits`). An edit
that is not stale has its source just before it, since any change of the notebook makes it
stale (`EditInPlace`): that is why a continuation comes right after its source. While nothing
was pasted above its original the source is the first cell with its identifier, and so keeps
it when repeated identifiers are replaced (`SourceIsFirst`, `SourceFits`); an identifier that
repeats is due to be replaced, or the edit that would have done so was refused (`IdsDue`).

`ActiveSessionsHaveExecutions` and `NbTypeCorrect` state invariants that the proofs
rest on and that no run lists: an active session has a task that will settle it, and
the notebook client's variables have their types.

**EditorProofs.** `MarksTellWhatRuns` and `MarksLastTheMinimum`. `QueryInd` adds that
the count of a range, and of the status bar, is the number of runs that hold it
(`CountsAreHolders`; the holders of a range are counted by cardinality), and that one
run at a time is between its answer and its panel unless a new one began
(`OutcomesComeSingly`).
`ContextFollowsTheText`: `ClipInd` says that undisturbed copies and
pastes come one at a time (`OneAtATime`), that what has landed is what the context will
be set to (`LandedIsOwned`, `ContextIsOwners`), and that a paste holds the context of the
text it read (`PastesHold`). `RefreshesGiveTextBack`: `EdInd` follows the space
of a refresh through its two edits (`TextIsKept`, `EditsFit`), and the separators through
their versions (`SeparatorsFollow`); `VersionIsCounted` counts edits by the refreshes that
made them.

**ConnectionsProofs**, connections and the tree. `ConnectionsAreTold`: on a document that is not disturbed there is
one call or tree update at a time (`OneActivity`), a call holds the connection in force
once it is stored (`CallsHold`), the server agrees but during a call (`ServerIsTold`),
and the bar shows it, awaits it, or will be refreshed (`BarFollows`). `CellsFollow`: only cells
that the operation under way, or the last one, knows have a connection
(`ConnectedAreKnown`), the operation has given it to the cells it is done with (`WorkIsDone`),
the last operation in the queue is for the notebook as it is (`LastIsCurrent`), and that of a
closed one is the close (`ClosedIsCleared`). `TreesAreSound` has two halves. For freshness
`VersionsHold` adds to what is cached what is under way: answers, and what the server has
loaded, are no older than the last refresh unless it overtook them, and an older info stays
cached only until the refresh that was answered is handled (`Ended`). For the items,
`WellFormed` lists the forms an item may have, a folder of entities being the beginning of
an entity's path; each level of the tree is well formed because its children are
(`ChildrenAreWellFormed`), and each entity has a `Place`, which lists it, is an item, and
is the only one to.

**ConnectionsProofs**, the list of servers. `ServersAreTold`, and `EnsuredServersAreListed` as an action property.
`ListInd` adds what the calls under way hold (`CommandsFit`) and that the bounds leave
them room (`ListHasRoom`): in the model a call that has begun can always finish, as in
the code.

**FilesProofs.** First, lists: `Only` has a solution for every sequence (`OnlyExists`), and
gives the elements of the set, in their places and as often as they were (`OnlyFacts`).
That is an induction over data: library theorems with an operator as parameter cannot be
instantiated, so `Induction` (in `SequenceLemmas`) states it over sets of numbers, from the
least element that `LeastNatural` gives.

- `FilesHoldTheirResults`. While nothing was borrowed, every file but the one behind the
  view is saved (`OthersAreSaved`), and what the view shows, or has yet to show, belongs to
  its file and has the last chart (`ShowsItsFile`, `PanelIsCurrent`).
- `IndexAndFilesAgree`. While calls are under way index and files differ: what is in the
  files only is being added (`FilesAreIndexed`), what is in the index only is being taken
  out (`IndexIsFiled`), and a call that is to write the index holds it as it is (`PutsFit`);
  for this results need names of their own (`NamedOnce`, `NewNames`).
- `EditsOfDocumentsHold`. A tab that changes one thing at a time holds what its queue has
  yet to do (`TabFits`): the text is the last version made, or an edit for it is
  `Unapplied`. `IdleIsSaved` says when the file is the text.
- `PadsKeepTheirTexts`. `PadsInd` has three parts, each up to the overlap that excuses it:
  what the order names is there, and so is what is to be listed (`Listed`); an editor's pad
  is there, and one whose tab was closed to let it go has no editor (`Shut`); two commands
  write no import to one pad (`WriteOnce`), an editor has the import its pad has or the user
  has replaced it (`TextsFollow`), and an import is in a pad or about to be
  (`ImportsStay`).

**TablesProofs.** Three invariants.

- `SelectionsAreSound`. `SelInd` says, of every state and not only of those without a button
  held, where the selection's copies may differ: what is drawn is what is selected unless
  the page was turned, and the host has it unless a drag is going on, whose release will
  tell it (`CopiesAgree`). What is selected lies between two rows and two columns of a page
  (`CellsFit`), which is never empty (`PageFits`, by division of rows by pages) and whose
  columns are a permutation that dropping a column preserves (`ShapeFits`,
  `ReorderingPermutes`). A header can only be dragged from under a click to be swallowed
  (`ArmedWithThePress`): otherwise the click would sort, and clear, in the middle of a drag
  the host has not heard of. `SwallowsItsOwn` ties the flags to the press that set them.
- `DragsAreSound`. `DragInd` reads the queues from their ends. For each table, the last
  message about it says what is selected, or the host has it (`HostWillHave`); messages of
  results not yet shown do not exist (`NoneFromAhead`), those of earlier ones are ignored.
  What was asked last for the active table, or answered last, or is kept, is the expression
  of what is selected (`DragsWillCarry`). `DragHasRoom` bounds what is under way.
- `FormsAreFaithful`. `FormInd` does the same for posts and forms: while edits are on their
  way they come first (`EditsComeFirst`), the last one is what the form shows (`Edited`),
  and when none is, the last form sent was built of the options as they are (`Built`,
  `FormWillAgree`). That a look is kept rests on lemmas about the operators: fitting values
  twice is fitting them once (`FittedTwice`), Capture and Restore Defaults leave a look as
  it is (`ActionsKeepLooks`), a form built of options looks like them (`BuiltLooks`).

`TablesStaySound` joins the first two, as the run does.

**Only model-checked**, and why:

- the liveness properties of `server_live` and `client_live`: `ENABLED` and fairness are
  outside the prover's reach;
- the four violations, which are counterexamples.

## 5 Assumptions and abstractions

- The synchronous parts of RPC handlers do not overlap: StreamJsonRpc's default
  dispatch, outside the repository. Looking a session up and locking it is one
  step for that reason.
- `DisposeSession` is one step. Its lock section, `Cancel()` and the disposal of
  the source follow each other in the same call. Callbacks registered on the token
  run inside `Cancel()` and only move the query forward, which `QueryThrows` covers.
- The timer treats sessions one by one, and equal access times are ordered.
- All tables of a session behave alike and share nothing but the session, so a
  session has one. Filters and sorts are what a revision stands for; their only
  effect is the way an evaluation ends.
- Page contents, projections, continuations and enrichments are read-only and are
  the action `Read`. The text they generate is left out.
- The client's model is one notebook: others only cause evictions, which the
  server may do at any time anyway. Any cell may run next, which covers batches
  (`executeCells` stops a batch at the first run that does not succeed).
- `replaceOutput` belongs to the editor: it resolves or rejects, and has an effect
  only on a cell that is still there. Clearing an output is a cell change
  without a grid. A dispose request reaches the server.
- A run started with a cancelled token ends at once without a state change.
- A grid shows one page of one table, which stays selected; its other pages are
  requested and filed in the same way. The view of a table whose session was
  cancelled after completion, which `ResultViews` shows to evaluate for ever, is
  left out of `ResultGrid`: the client cancels no completed session that it shows.
- Answers of the server to different calls may reach the host in any order. A grid
  can then be taken back to an older revision by a late status; it finds out at its
  next page request (`RowsArrive` includes this).
- A status request fails only when the session is gone.
- When and how often an output is rendered belongs to the editor.
- The client is one thread: an action is the code between two awaits. Storage in
  the editor (`workspaceState`, `globalState`) is written in the step that asks for it.
- Components of the client that hand results to each other do so by value: what a
  run gives to the history and to a display is a result, whatever became of the run.
- VS Code refuses an edit of a text or notebook that changed since the edit was made.
- The language server answers requests in any order unless it says otherwise; a
  schema it loaded stays until it is refreshed.
- Texts, layouts, chart options and schemas are versions; names are a base and a
  number where the code makes them so, and model values otherwise.
- A click follows its mouseup at once; other events come in any order.
- Each module's header names what else it leaves out.

## 6 Findings

1. `views_comment`. The comment in the catch block of `SetViewAsync` says that an
   evaluation cancelled by anyone but its client was superseded by a newer revision
   or a disposal. `CancelAsync` decides under the lock and cancels after it: the
   execution can complete in between. A view submitted afterwards is then
   cancelled through the session's token though it is the newest revision of a
   completed session, nothing is published, and `ViewState` stays "evaluating" for
   good. The notebook client hides this, as it disposes every session it cancels.
2. `notebook_deleted`. ARCHITECTURE.md says that sessions are disposed
   deterministically when a cell is deleted or a notebook closed. When that happens
   while `executeCell` awaits `ensureServer` or `setConnection`, no entry exists
   yet to be released; the run goes on, prepares and adopts its session for
   the deleted cell, and only the idle timer of the server disposes it.
3. `grid_rerender`. ARCHITECTURE.md says that stale page and filter responses are
   rejected by result session and view revision. A `viewResult` is matched by its
   request id alone, and request ids restart from one when the output is rendered
   again, with the same output and session. If that happens while a view is being
   evaluated and another one is asked for, the answer to the first is taken for the
   second: its rows are shown under the other's filters. Pages have the same
   ids, but their revision is compared.

4. `kqr_remove`. removeChart says it finds the backing document of a tab and updates
   it. The loop takes the first open document that parses as JSON, as the condition
   it tests speaks of the tab's state and not of the document: with two results
   open, removing the chart of one overwrites the other.

Disagreements met while modelling that have no run of their own; the history variable
that excuses each in the invariants is named with it.

- *Server list.* "If no server with the corresponding cluster hostname is found,
  creates one" (connectionManager.ts:325): two calls look, await the server's kind
  and add it both. "Moves a server from one location to another" (409): the server is
  taken out before the target group is looked up, and lost when that is gone.
- *Documents* (`disturbed`). "Sets the connection for a document, saves it, and
  notifies the server" (816): of two calls that overlap, the one that saved first
  may notify last (866). The status bar "Updates automatically" (connectionStatusBar.ts:20)
  but writes what it looked up for an editor left since (48).
- *Cells* (`picked`). ConnectionManager "does not persist generated cell URIs in
  workspace storage" (ARCHITECTURE.md:275), but does for a connection picked in the
  tree while a cell's editor is active (841).
- *History* (`crossed`). addHistoryEntry "prepends the entry to the index"
  (historyManager.ts:219): the index is read before files are trimmed, an await, and
  written after (267-274), without what was added meanwhile.
- *Results view* (`borrowed`). The order of displayResultsInSingletonView is meant
  to keep a write-back from putting "stale data from a previous result to the
  current backing file" (resultsViewer.ts:791), which it does when the results are
  in the panel and the new one has no chart (759). A layout changed after a chart
  option is stored in a result nobody saves (842-844).
- *Result documents* (`mixed`, `docCrossed`). A layout change after a chart edit
  writes the result as it was rendered, with the old chart (301). Self edits are
  serialised "so overlapping edits can't interleave on the document" (1582), but
  the range to replace is taken before the edit's turn comes (1669).
- *Colours* (`disturbed`). "Immediately delete it (restores original content)"
  (queryEditor.ts:994): a character typed at the end meanwhile is deleted instead.
- *Tables.* "Plain click: select a single cell (replaces any prior selection)"
  (dataTableProvider.ts:1104): a press that moves within its cell and is released
  there selects the cell and then takes it back (1547-1552). *Drags* (`mixed`): the
  local expression is invalidated when the selection changes "so dragstart will
  abort and re-request" (1260), but the answer to an earlier request fills it again.
- *Chart options* (`misled`). The key of "(auto)" in the map of node columns "maps to
  whichever sibling table resolution picks" (chartEditorProvider.ts:799): if a table
  was chosen when the form was built that is this table, and "(auto)", picked later,
  goes on offering its columns. An edit posted just before the next result is shown,
  or before the form that Capture or Restore Defaults makes, is applied to that result,
  or undoes the action: `chartOptionsChanged` says neither for which form it is nor for
  which result (122).

## 7 Plan

In this order; 1 to 9 are done.

1. `ResultSessions`, `ResultSessionsProofs`: the store.
2. `ResultViews`, `ResultService`, `ResultViewsProofs`: views and the promise.
3. `NotebookSessions`, `NotebookProofs`: the client.
4. `ViewService`, `ResultGrid`, `NotebookCommands`: the grid, the host that relays its
   messages, and what is made of a result.
5. `ServerList`, `DocumentConnections`, `NotebookConnections`, `SchemaTree`.
6. `HistoryStore`, `SingletonView`, `ResultDocuments`.
7. `QueryRuns`, `EditorDecorations`, `ScratchPads`, `Clipboard`.
8. `TableSelection`, `TableDrag`, `ChartEditor`.
9. Proofs of every safety property of the runs: the invariants and action properties of
   the client's modules, after those of the store, its views and the notebook's sessions.
10. Server: the latest-request queue and diagnostics; the schema cache and the
   globals; documents; the authentication fallback.

### Not modelled

- The server's queues, schema cache, symbols, documents and authentication: each
  is a candidate (10), with its hazard listed. To the modelled components they are
  an environment that answers or fails.
- Language features, entities, directives of queries: sequential functions of an
  immutable document or of one request, most of them in the Kusto.Language library.
- Drawing of charts (`plotlyChartProvider.ts`, `graphChartProvider.ts`): conversion of
  a table and its options into a figure. It has no protocol of its own; the editing of
  options and their way into results and files are modelled.
- Enrichments, Copilot, authentication UI, start-up, typed wrappers of requests,
  settings: thin layers over dialogs, files and editor services.
- `NotebookResultManager.dispose()` at deactivation (the server exits with the
  extension), and moving a cell, which some editors report as a removal: whether
  they do is outside of the repository.
