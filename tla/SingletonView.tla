---------------------------- MODULE SingletonView ----------------------------
(***************************************************************************)
(* The tab that shows one result at a time (ResultsViewer's singleton      *)
(* view), and the history files its edits are written back to.             *)
(*                                                                         *)
(* A result comes from a query run in the editor or from the history, with *)
(* its file set as the one behind the view; or from a CodeLens, Copilot or *)
(* the bottom panel, which set none.  Edits of the chart and of a table's  *)
(* layout are written a second later, and when the view goes.  At most one *)
(* display awaits the panel (a bound).                                     *)
(*                                                                         *)
(* Concurrency.  One extension host; the await of the bottom panel is the  *)
(* only point within a display where other events run.                     *)
(*                                                                         *)
(* Abstractions.  A result is its identity, the version of its chart       *)
(* options and of its layout.  File operations take effect at once.        *)
(* Columns, titles, context keys and the page are left out, and so are     *)
(* edits made in the bottom panel, which are written by nobody.            *)
(***************************************************************************)
EXTENDS Client, Integers, FiniteSets

CONSTANTS
    Results,        \* results, and the files of the history named after them
    WithChart,      \* those whose query renders a chart
    Empty,          \* those without tables
    MaxEdits

ASSUME SingletonAssumption ==
    /\ WithChart \subseteq Results /\ Empty \subseteq Results /\ WithChart \cap Empty = {}
    /\ None \notin Results /\ MaxEdits \in Nat

VARIABLES
    sv,             \* the singleton view's fields, and the files
    panel,          \* lastPanelResultData
    waiting,        \* displays that await the bottom panel, with what follows
    made,           \* history: each result as last edited
    edits,
    borrowed        \* history: a result was shown without its file being set, or in
                    \* the panel while the view held another, or it was read from
                    \* its file while edits of it were yet to be written

singletonVars == <<sv, panel, waiting, made, edits, borrowed>>

NoChart == -1

Data == [id: Results, chart: {NoChart} \union (0 .. MaxEdits), layout: 0 .. MaxEdits]

\* None is no result.
ASSUME DataAssumption == None \notin Data

View == [open: BOOLEAN,             \* singletonView
         data: Data \union {None},  \* singletonResultData
         mode: {"chart", "data", "all"},
         backing: Results \union {None},
         tied: BOOLEAN,             \* the table views store layouts where data has them
         writing: BOOLEAN,          \* singletonWriteBackTimer is set
         drawing: BOOLEAN,          \* singletonChartOptionsTimer is set
         files: [Results -> Data \union {None}]]

SingletonTypeOK ==
    /\ sv \in View
    /\ sv.open => sv.data # None
    /\ sv.drawing \/ sv.writing => sv.open
    /\ panel \in Data \union {None}
    /\ waiting \in SUBSET [data: Data, next: {"show", "dispose"}]
    /\ made \in [Results -> Data \union {None}]
    /\ edits \in 0 .. MaxEdits /\ borrowed \in BOOLEAN

SingletonInit ==
    /\ sv = [open |-> FALSE, data |-> None, mode |-> "all", backing |-> None, tied |-> TRUE,
             writing |-> FALSE, drawing |-> FALSE, files |-> [r \in Results |-> None]]
    /\ panel = None /\ waiting = {} /\ made = [r \in Results |-> None]
    /\ edits = 0 /\ borrowed = FALSE
-----------------------------------------------------------------------------
\* Each of these takes the fields s and returns them changed.

\* flushSingletonWriteBack.
Flush(s) ==
    [s EXCEPT !.writing = FALSE,
              !.files = IF s.backing # None /\ s.data # None
                        THEN [@ EXCEPT ![s.backing] = s.data] ELSE @]

\* setSingletonViewBackingUri.
SetBacking(s, b) == [Flush(s) EXCEPT !.backing = b]

\* disposeSingletonView, and onDidDispose: what the view holds is written.
Dispose(s) ==
    IF ~s.open THEN s
    ELSE [Flush(s) EXCEPT !.open = FALSE, !.data = None, !.backing = None, !.drawing = FALSE]

\* Fault: the early return comes before the data is replaced.
ShowLate(s, d, m) ==
    IF d.id \in Empty THEN Dispose(s)
    ELSE [s EXCEPT !.data = d, !.open = TRUE, !.mode = m, !.tied = TRUE]

\* displayResultsInSingletonView: the data is replaced first, so that closing the
\* view for a result without tables writes that result.
Show(s, d, m) ==
    IF d.id \in Empty THEN Dispose([s EXCEPT !.data = d])
    ELSE [s EXCEPT !.data = d, !.open = TRUE, !.mode = m, !.tied = TRUE]

\* displayResults with the results beside the editor or in the main column.
Beside(s, d) == Show(s, d, IF d.chart = NoChart THEN "data" ELSE "all")

\* displayResults of d after setSingletonViewBackingUri gave s: in the view at
\* once; or in the bottom panel first, whose display is awaited.
Display(s, d) ==
    \/ sv' = Beside(s, d) /\ UNCHANGED <<panel, waiting>>
    \/ \E inline \in BOOLEAN :
        /\ sv' = s
        /\ panel' = IF d.id \in Empty THEN None ELSE d
        /\ waiting' = waiting \union
             {[data |-> d, next |-> IF d.chart # NoChart /\ ~inline THEN "show" ELSE "dispose"]}

\* The panel has been shown: the chart goes to the view, or the view goes.
Resume(w) ==
    /\ w \in waiting
    /\ waiting' = waiting \ {w}
    /\ sv' = IF w.next = "show" THEN Show(sv, w.data, "chart") ELSE Dispose(sv)
    /\ borrowed' = (borrowed \/ (w.next = "show" /\ (sv.data # None \/ sv.backing # w.data.id)))
    /\ UNCHANGED <<panel, made, edits>>
-----------------------------------------------------------------------------
Fresh(r) == [id |-> r, chart |-> IF r \in WithChart THEN 0 ELSE NoChart, layout |-> 0]

\* runQuery's end: the result is added to the history, its file set, and shown.
Run(r) ==
    /\ made[r] = None /\ waiting = {}
    /\ made' = [made EXCEPT ![r] = Fresh(r)]
    /\ Display(SetBacking([sv EXCEPT !.files[r] = Fresh(r)], r), Fresh(r))
    /\ borrowed' = (borrowed \/ (waiting' # {} /\ sv.data # None))
    /\ UNCHANGED edits

\* Edits of r are yet to be written when r's file is read.
Unwritten(r) == sv.data # None /\ sv.backing = r /\ sv.files[r] # sv.data

\* openHistoryItem: the file is read before what is pending is written.
OpenHistory(r) ==
    /\ sv.files[r] # None /\ waiting = {}
    /\ Display(SetBacking(sv, r), sv.files[r])
    /\ borrowed' = (borrowed \/ Unwritten(r) \/ (waiting' # {} /\ sv.data # None))
    /\ UNCHANGED <<made, edits>>

\* showHistoryResults of a CodeLens: the data of r's file, its file not set.
ShowFromLens(r) ==
    /\ sv.files[r] # None /\ waiting = {}
    /\ Display(sv, sv.files[r])
    /\ borrowed' = (borrowed \/ Unwritten(r) \/ sv.backing # r)
    /\ UNCHANGED <<made, edits>>

\* Copilot's runQuery tool shows a result that has no file.
ShowFromChat(r) ==
    /\ made[r] = None /\ r \notin Empty
    /\ sv' = Show(sv, Fresh(r), "all") /\ borrowed' = TRUE
    /\ UNCHANGED <<panel, waiting, made, edits>>

\* openChartFromBottomView: the panel's result with a chart of the default type.
ChartFromPanel ==
    /\ panel # None
    /\ LET d == IF panel.chart = NoChart THEN [panel EXCEPT !.chart = 0] ELSE panel IN
       /\ sv' = Show(sv, d, "chart")
       /\ made' = IF made[d.id] = None THEN made ELSE [made EXCEPT ![d.id] = d]
       /\ borrowed' = (borrowed \/ sv.data # None \/ sv.backing # d.id)
    /\ UNCHANGED <<panel, waiting, edits>>

\* displayErrorInBottomView, or the user closes the tab.
CloseView == sv.open /\ sv' = Dispose(sv) /\ UNCHANGED <<panel, waiting, made, edits, borrowed>>

\* moveResultsTabToMain: closed and made anew with the same result and file.
Move ==
    /\ sv.open
    /\ sv' = Show([Dispose(sv) EXCEPT !.data = sv.data, !.backing = sv.backing], sv.data, sv.mode)
    /\ UNCHANGED <<panel, waiting, made, edits, borrowed>>

\* saveCurrentResults and rerunQuery leave the view as it is.
-----------------------------------------------------------------------------
\* withPrimaryChartOptions copies the result: the copy has the layouts' array of
\* the original, or none.
WithOptions(s, c) == [s EXCEPT !.data.chart = c, !.tied = @ /\ s.data.layout > 0]

\* onOptionsChanged, from the chart editor.
ChangeOptions ==
    /\ sv.open /\ sv.data.chart # NoChart /\ edits < MaxEdits
    /\ edits' = edits + 1
    /\ sv' = [WithOptions(sv, edits') EXCEPT !.drawing = TRUE, !.writing = @ \/ sv.backing # None]
    /\ made' = IF made[sv.data.id] = None THEN made
               ELSE [made EXCEPT ![sv.data.id].chart = edits']
    /\ UNCHANGED <<panel, waiting, borrowed>>

\* updateChartInSingletonView, 600 ms later: the options with the defaults.
Redraw ==
    /\ sv.drawing
    /\ LET s == [sv EXCEPT !.drawing = FALSE] IN
       sv' = IF s.data.chart = NoChart THEN s ELSE WithOptions(s, s.data.chart)
    /\ UNCHANGED <<panel, waiting, made, edits, borrowed>>

\* A table view reports a new layout: stored in the result it was made for.
ChangeLayout ==
    /\ sv.open /\ edits < MaxEdits /\ sv.mode # "chart"
    /\ edits' = edits + 1
    /\ sv' = [sv EXCEPT !.data.layout = IF sv.tied THEN edits' ELSE @,
                        !.writing = @ \/ sv.backing # None]
    /\ made' = IF made[sv.data.id] = None THEN made
               ELSE [made EXCEPT ![sv.data.id].layout = edits']
    /\ UNCHANGED <<panel, waiting, borrowed>>

\* scheduleSingletonWriteBack's timer.
WriteBack ==
    /\ sv.writing /\ sv' = Flush(sv)
    /\ UNCHANGED <<panel, waiting, made, edits, borrowed>>

\* removeChart: a view that shows the chart only closes.
RemoveChart ==
    /\ sv.open
    /\ LET s == [WithOptions(sv, NoChart) EXCEPT !.writing = sv.backing # None \/ @] IN
       sv' = IF sv.mode = "chart" THEN Dispose(s) ELSE s
    /\ made' = IF made[sv.data.id] = None THEN made
               ELSE [made EXCEPT ![sv.data.id].chart = NoChart]
    /\ UNCHANGED <<panel, waiting, edits, borrowed>>

SingletonNext ==
    \/ \E r \in Results : Run(r) \/ OpenHistory(r) \/ ShowFromLens(r) \/ ShowFromChat(r)
    \/ \E w \in waiting : Resume(w)
    \/ ChartFromPanel \/ CloseView \/ Move
    \/ ChangeOptions \/ Redraw \/ ChangeLayout \/ WriteBack \/ RemoveChart

SingletonSpec == SingletonInit /\ [][SingletonNext]_singletonVars
-----------------------------------------------------------------------------
\* No result is written to the history file of another.
FileHoldsItsResult(r) == sv.files[r] # None => sv.files[r].id = r

\* It holds while every display sets its file and none passes through the panel
\* with the view open (see borrowed).
UnborrowedFilesHold == ~borrowed => \A r \in Results : FileHoldsItsResult(r)

\* What the user did to a chart is in the file once the view shows another
\* result: switching, closing and moving lose nothing, pending or not.
ChartEditsAreSaved ==
    ~borrowed => \A r \in Results :
        sv.files[r] # None /\ (sv.data # None => sv.data.id # r) => sv.files[r].chart = made[r].chart

\* Files hold their own results with their latest charts (see the parts above).
FilesAreSound == SingletonTypeOK /\ UnborrowedFilesHold /\ ChartEditsAreSaved
=============================================================================
