------------------------------ MODULE ChartEditor ------------------------------
(***************************************************************************)
(* The form that edits the options of the chart in the bottom panel.  The  *)
(* host (ChartEditorView) builds it from options, columns and the defaults *)
(* of the settings; the page collects all its fields and posts them after  *)
(* every edit; Capture and Restore Defaults rewrite the options in the     *)
(* host, which sends a new form.                                           *)
(*                                                                         *)
(* Concurrency.  Messages cross: the user edits a form that is about to be *)
(* replaced, and what was posted for one result arrives when another one   *)
(* is shown.  Settings change while a form shows their old values.         *)
(*                                                                         *)
(* Abstractions.  Two of the options with defaults: sort, which has one of *)
(* its own (Automatic), and xTickAngle, which has none.  One select of     *)
(* columns, one list of columns; the other fields are like these or plain  *)
(* values.  A node table has a column of its own, named like it, and Key.  *)
(***************************************************************************)
EXTENDS Client, Integers, SequencesExt, FiniteSetsExt

CONSTANTS
    ChartColumns,   \* names of columns
    Tables,         \* sibling tables a graph may take its nodes from
    NodesName,      \* the one of them called "nodes"
    Key,            \* a column all of them have
    Automatic,      \* the choice that is the default of sort without a setting
    Other,          \* another choice the selects offer
    Odd,            \* a value they do not offer: an angle of 10 degrees, say
    Charts,         \* charts of results: their options and the tables they are made of
    MaxFormActs,    \* bound: what the user does with the form and the settings
    MaxShows        \* bound: results shown

ASSUME FormAssumption ==
    /\ NodesName \in Tables /\ Key \notin Tables
    /\ None \notin ChartColumns \union Tables \union {Key}
    /\ IsInjective(<<None, Automatic, Other, Odd>>)
    /\ MaxFormActs \in Nat /\ MaxShows \in Nat

VARIABLES
    setting,        \* the defaults in the settings
    chart,          \* options of lastPanelResultData's chart, None without one
    current,        \* currentOptions, lastColumnNames and lastTables, currentDefaults
    posts,          \* messages of the page on their way to the host
    forms,          \* forms on their way to the page
    form,           \* the form on the page, None without one
    drawn,          \* what the chart was last drawn from: options and defaults
    formActs, shows,
    wanted,         \* history: how the chart looks by the form last shown or edited,
                    \* or the options of a chart that has no form
    misled          \* history: since the result was shown messages crossed, or "(auto)" misled

formVars == <<setting, chart, current, posts, forms, form, drawn, formActs, shows, wanted, misled>>

Styles == {"sort", "xTickAngle"}
Offers == {Automatic, Other}
NodeColumns(t) == {t, Key}

Options == [style: [Styles -> Offers \union {Odd, None}], xColumn: ChartColumns \union {None},
            yColumns: Seq(ChartColumns), nodesTable: Tables \union {None},
            nodeColumn: Tables \union {Key, None}]
\* A result: the columns of the chart's table and its sibling tables.
Shapes == [cols: SUBSET ChartColumns, tables: SUBSET Tables]
\* A setting of Automatic is like none.
Settings == [Styles -> {Other, None}]
Commands == {"chartOptionsChanged", "capture", "restore"}

\* A form: its values, the result and the defaults it was built for, and the columns
\* its select of node columns offers now and when "(auto)" is chosen.
Forms == [values: Options, shape: Shapes, defaults: Settings,
          nodeCols: SUBSET (Tables \union {Key}), autoCols: SUBSET (Tables \union {Key})]

ASSUME ChartsAssumption ==
    /\ Charts \subseteq [options: Options, shape: Shapes]
    /\ None \notin Options \union Forms
-----------------------------------------------------------------------------
(* Options and their defaults *)

\* getResolvedDefaults.
ResolvedDefaults(d) == [d EXCEPT !["sort"] = IF @ = None THEN Automatic ELSE @]

\* applyChartDefaults, and what the renderer does without a value.
Look(style, d) == [k \in Styles |-> IF style[k] = None THEN ResolvedDefaults(d)[k] ELSE style[k]]

\* captureCurrentDefaults.
Capture(o, d) == [o EXCEPT !.style = Look(@, d)]

\* restoreMatchingDefaults.
Restore(o, d) ==
    [o EXCEPT !.style = [k \in Styles |-> IF @[k] = ResolvedDefaults(d)[k] THEN None ELSE @[k]]]
-----------------------------------------------------------------------------
(* The form *)

Offered(v, S) == IF v \in S THEN v ELSE None

\* The values a form can show: selects show what they offer, or their first option.
Fit(o, s, nodeCols) ==
    [o EXCEPT !.style = [k \in Styles |-> Offered(@[k], Offers)],
              !.xColumn = Offered(@, s.cols),
              !.nodesTable = Offered(@, s.tables),
              !.nodeColumn = Offered(@, nodeCols)]

\* resolveNodesTable: the table chosen, or the one called "nodes".
NodesCols(o, s) ==
    IF o.nodesTable \in s.tables THEN NodeColumns(o.nodesTable)
    ELSE IF NodesName \in s.tables THEN NodeColumns(NodesName) ELSE {}

\* buildFormHtml.
Form(o, s, d) ==
    [values |-> Fit(o, s, NodesCols(o, s)), shape |-> s, defaults |-> d,
     nodeCols |-> NodesCols(o, s), autoCols |-> NodesCols(o, s)]

\* How the chart looks by a form.
LookOf(f) == [f.values EXCEPT !.style = Look(@, f.defaults)]

IsEdit(p) == p.command = "chartOptionsChanged"
FormPost(c, o) == [command |-> c, options |-> o]
Content(page, f) == [page |-> page, form |-> f]
Current(o, s, d) == [options |-> o, shape |-> s, defaults |-> d]
Drawn(o) == [options |-> o, defaults |-> setting]
Bare == [style |-> [k \in Styles |-> None], xColumn |-> None, yColumns |-> <<>>,
         nodesTable |-> None, nodeColumn |-> None]

FormTypeOK ==
    /\ setting \in Settings /\ chart \in Options \union {None}
    /\ current \in [options: Options, shape: Shapes, defaults: Settings]
    /\ posts \in Seq([command: Commands, options: Options \union {None}])
    /\ forms \in Seq([page: BOOLEAN, form: Forms \union {None}])
    /\ form \in Forms \union {None}
    /\ drawn \in [options: Options, defaults: Settings] \union {None}
    /\ formActs \in 0 .. MaxFormActs /\ shows \in 0 .. MaxShows /\ misled \in BOOLEAN

\* The panel is open, and no result was shown in it: currentOptions is { type: 'Column' }.
FormInit ==
    /\ setting = [k \in Styles |-> None] /\ chart = None
    /\ current = Current(Bare, [cols |-> {}, tables |-> {}], [k \in Styles |-> None])
    /\ posts = <<>> /\ forms = <<>> /\ form = None /\ drawn = None
    /\ formActs = 0 /\ shows = 0 /\ wanted = None /\ misled = FALSE
-----------------------------------------------------------------------------
(* The host *)

\* displayResultsInBottomPanel and setOptions: the form is posted to the old page
\* and is part of the new one.
ShowChart(o, s) ==
    /\ shows < MaxShows /\ shows' = shows + 1
    /\ chart' = o /\ current' = Current(o, s, setting) /\ drawn' = Drawn(o)
    /\ forms' = Append(forms, Content(TRUE, Form(o, s, setting)))
    /\ wanted' = LookOf(Form(o, s, setting)) /\ misled' = \E i \in DOMAIN posts : IsEdit(posts[i])
    /\ UNCHANGED <<setting, posts, form, formActs>>

\* A result without a chart, or with one that is shown elsewhere: the page has no
\* form, the editor keeps its options.
ShowData(o) ==
    /\ shows < MaxShows /\ shows' = shows + 1
    /\ chart' = o /\ drawn' = None /\ forms' = Append(forms, Content(TRUE, None))
    /\ wanted' = o /\ misled' = (posts # <<>>)
    /\ UNCHANGED <<setting, current, posts, form, formActs>>

ChangeSetting(d) ==
    /\ formActs < MaxFormActs /\ formActs' = formActs + 1 /\ d # setting /\ setting' = d
    /\ UNCHANGED <<chart, current, posts, forms, form, drawn, shows, wanted, misled>>

\* Fault: the host's options stay as they were last set.
AppliesOnce(o) == UNCHANGED current /\ chart' = o /\ drawn' = Drawn(o)

\* onOptionsChanged of the panel: withPrimaryChartOptions and updateChartInPanel.
\* The options name no result: they are given to the one shown, chart or not.
Applies(o) == current' = [current EXCEPT !.options = o] /\ chart' = o /\ drawn' = Drawn(o)

\* chartOptionsChanged.
ReceiveOptions ==
    /\ posts # <<>> /\ IsEdit(Head(posts)) /\ posts' = Tail(posts)
    /\ Applies(Head(posts).options)
    /\ UNCHANGED <<setting, forms, form, formActs, shows, wanted, misled>>

\* chartEditorDefaultsAction: with the defaults of the form, whatever the settings are.
ReceiveAction ==
    /\ posts # <<>> /\ ~IsEdit(Head(posts)) /\ posts' = Tail(posts)
    /\ LET o == IF Head(posts).command = "capture" THEN Capture(current.options, current.defaults)
                ELSE Restore(current.options, current.defaults) IN
       /\ Applies(o)
       /\ forms' = Append(forms, Content(FALSE, Form(o, current.shape, current.defaults)))
    /\ UNCHANGED <<setting, form, formActs, shows, wanted, misled>>
-----------------------------------------------------------------------------
(* The page *)

\* A new page, or setEditPanelContent, which finds no panel on a page without a chart.
PageReceivesForm ==
    /\ forms # <<>> /\ forms' = Tail(forms)
    /\ form' = IF Head(forms).page \/ form # None THEN Head(forms).form ELSE None
    /\ UNCHANGED <<setting, chart, current, posts, drawn, formActs, shows, wanted, misled>>

Acts ==
    /\ form # None /\ formActs < MaxFormActs /\ formActs' = formActs + 1
    /\ UNCHANGED <<setting, chart, current, forms, drawn, shows>>

\* "(auto)" offers the columns of the table chosen when the form was built.
AutoMisleads(f) == f.nodeCols # NodesCols(f.values, f.shape)

\* _editorCollectChartOptions and _editorOnChartOptionChanged.  Another form may be
\* on its way, or about to be made by an action that is.
FormBecomes(f) ==
    /\ Acts /\ form' = f /\ wanted' = LookOf(f)
    /\ posts' = Append(posts, FormPost("chartOptionsChanged", f.values))
    /\ misled' = \/ misled \/ forms # <<>> \/ AutoMisleads(f)
                 \/ \E i \in DOMAIN posts : ~IsEdit(posts[i])

\* Choices of the selects, None for their "Default" or "(auto)".
ChooseStyle(k, v) ==
    v # form.values.style[k] /\ FormBecomes([form EXCEPT !.values.style[k] = v])
ChooseX(c) ==
    /\ c \in (form.shape.cols \union {None}) \ {form.values.xColumn}
    /\ FormBecomes([form EXCEPT !.values.xColumn = c])
ChooseNodeColumn(c) ==
    /\ c \in (form.nodeCols \union {None}) \ {form.values.nodeColumn}
    /\ FormBecomes([form EXCEPT !.values.nodeColumn = c])

\* _editorAddColumnItem, _editorRemoveColumnItem, _editorMoveColumnItem.
AddY(c) == c \in form.shape.cols /\ FormBecomes([form EXCEPT !.values.yColumns = Append(@, c)])
RemoveY(i) == FormBecomes([form EXCEPT !.values.yColumns = RemoveAt(@, i)])
MoveDown(i) ==
    LET ys == form.values.yColumns IN
    FormBecomes([form EXCEPT !.values.yColumns =
        IF i = Len(ys) THEN ys ELSE [ys EXCEPT ![i] = ys[i + 1], ![i + 1] = ys[i]]])

\* _editorOnNodesTableChanged: the node column stays if the table has one of its name.
ChooseNodesTable(t) ==
    /\ t \in (form.shape.tables \union {None}) \ {form.values.nodesTable}
    /\ LET cols == IF t = None THEN form.autoCols ELSE NodeColumns(t) IN
       FormBecomes([form EXCEPT !.values.nodesTable = t, !.nodeCols = cols,
                                !.values.nodeColumn = Offered(@, cols)])

\* _editorRunDefaultsAction.
RunDefaults(action) ==
    /\ Acts /\ posts' = Append(posts, FormPost(action, None))
    /\ misled' = (misled \/ \E i \in DOMAIN forms : forms[i].page)
    /\ UNCHANGED <<form, wanted>>

EditForm ==
    \/ \E k \in Styles, v \in Offers \union {None} : ChooseStyle(k, v)
    \/ \E c \in ChartColumns \union {None} : ChooseX(c)
    \/ \E c \in Tables \union {Key, None} : ChooseNodeColumn(c)
    \/ \E c \in ChartColumns : AddY(c)
    \/ \E i \in DOMAIN form.values.yColumns : RemoveY(i) \/ MoveDown(i)
    \/ \E t \in Tables \union {None} : ChooseNodesTable(t)
    \/ \E a \in {"capture", "restore"} : RunDefaults(a)

FormNext ==
    \/ \E c \in Charts : ShowChart(c.options, c.shape) \/ ShowData(c.options)
    \/ ShowData(None)
    \/ \E d \in Settings : ChangeSetting(d)
    \/ ReceiveOptions \/ ReceiveAction \/ PageReceivesForm
    \/ form # None /\ EditForm

FormSpec == FormInit /\ [][FormNext]_formVars
-----------------------------------------------------------------------------
Settled == posts = <<>> /\ forms = <<>>

\* Once all messages have arrived, the options of the editor are those of the result:
\* neither the defaults' actions nor an edit that was late let them part.
EditorHasChart == Settled /\ form # None => chart = current.options

\* If none misled, the form then shows what the host has, as far as a form can, so
\* that the next edit changes nothing else; and a chart without a form is as it was.
HostHasForm ==
    Settled /\ ~misled =>
        IF form = None THEN chart = wanted
        ELSE Fit(current.options, form.shape, form.nodeCols) = form.values

\* Then the chart looks the way the user last made it: Capture and Restore Defaults
\* change no look, whatever the settings have become.
LooksAsWanted ==
    Settled /\ ~misled /\ form # None =>
        /\ LookOf(form) = wanted
        /\ drawn.defaults = form.defaults =>
              [Fit(drawn.options, form.shape, form.nodeCols)
                  EXCEPT !.style = Look(@, drawn.defaults)] = wanted

\* The node column of a form is one its table has.
NodeColumnExists ==
    form # None /\ form.values.nodesTable # None =>
        form.values.nodeColumn \in NodeColumns(form.values.nodesTable) \union {None}

\* The form, the host and the chart agree (see the parts above).
FormIsFaithful == FormTypeOK /\ EditorHasChart /\ HostHasForm /\ LooksAsWanted /\ NodeColumnExists
===============================================================================
