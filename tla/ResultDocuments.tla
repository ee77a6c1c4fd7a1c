--------------------------- MODULE ResultDocuments ---------------------------
(***************************************************************************)
(* Results saved to .kqr files and shown in tabs of their own (the         *)
(* DocumentViewProvider of resultsViewer.ts): the text of each document,   *)
(* the result each tab works on, and the self edits that bring changes of  *)
(* the chart and of table layouts into the text.                           *)
(*                                                                         *)
(* Concurrency.  One extension host.  Self edits of a tab are queued; each *)
(* awaits the applying of its edit and, most of them, a save.              *)
(*                                                                         *)
(* Abstractions.  A text is Torn or the result it encodes: whose it is,    *)
(* the version of the chart options and of the table layouts.  A range     *)
(* taken of one text and replaced in another leaves some of the other when *)
(* that is longer, which lengths the model leaves open.                    *)
(***************************************************************************)
EXTENDS Client, Integers, Sequences

CONSTANTS
    Docs,           \* .kqr documents, each open in a tab
    MaxDocEdits,       \* changes made in the tabs
    MaxOutside      \* changes made to texts by others

ASSUME DocumentAssumption == MaxDocEdits \in Nat /\ MaxOutside \in Nat /\ None \notin Docs

VARIABLES
    text,           \* the document's text
    disk,           \* the file's
    docState,          \* viewerStates' resultData
    docTables,         \* the result the table views were created for
    same,           \* tables and state have their layouts in one array
    queue,          \* self edits queued, the first of them under way
    applied,        \* the first one has changed the text
    depth,          \* selfEditDepth
    timer,          \* chartOptionsTimer is set
    rerun,          \* chart options kept by a rerun under way
    renders,        \* times updateWebview ran since the tab was opened
    outside,        \* history: changes by others
    docMade,           \* history: versions last made in the tab
    docCrossed,        \* history: a self edit was begun, or the text changed by others,
                    \* while another was under way
    mixed,          \* history: the chart and a layout were both changed
    docEdits

documentVars == <<text, disk, docState, docTables, same, queue, applied, depth, timer, rerun,
                  renders, outside, docMade, docCrossed, mixed, docEdits>>

Torn == [id |-> None, chart |-> 0, layout |-> 0]
Version == 0 .. MaxDocEdits
Saved == [id: Docs, chart: Version, layout: Version]

\* base: the text whose range the edit replaces; a layout's edit takes the text and
\* the result when it runs.
SelfEdit == [op: {"options"}, new: Saved, base: Saved \union {Torn}] \union [op: {"layout", "save"}]

DocumentTypeOK ==
    /\ text \in [Docs -> Saved \union {Torn}] /\ disk \in [Docs -> Saved \union {Torn}]
    /\ docState \in [Docs -> Saved] /\ docTables \in [Docs -> Saved] /\ docMade \in [Docs -> Saved]
    /\ \A d \in Docs : \A i \in 1 .. Len(queue[d]) : queue[d][i] \in SelfEdit
    /\ \A d \in Docs : depth[d] = Len(queue[d])
    /\ same \in [Docs -> BOOLEAN] /\ applied \in [Docs -> BOOLEAN] /\ timer \in [Docs -> BOOLEAN]
    /\ rerun \in [Docs -> Version \union {None}]
    /\ renders \in [Docs -> Nat] /\ outside \in [Docs -> Nat] /\ docEdits \in 0 .. MaxDocEdits
    /\ docCrossed \in [Docs -> BOOLEAN] /\ mixed \in [Docs -> BOOLEAN]

Opened(d) == [id |-> d, chart |-> 0, layout |-> 0]

\* Every tab has been opened and rendered once.
DocumentInit ==
    /\ text = [d \in Docs |-> Opened(d)] /\ disk = text /\ docState = text /\ docTables = text
    /\ docMade = text
    /\ same = [d \in Docs |-> TRUE] /\ timer = [d \in Docs |-> FALSE]
    /\ applied = [d \in Docs |-> FALSE]
    /\ queue = [d \in Docs |-> <<>>] /\ depth = [d \in Docs |-> 0]
    /\ rerun = [d \in Docs |-> None]
    /\ renders = [d \in Docs |-> 0] /\ outside = renders /\ docEdits = 0
    /\ docCrossed = [d \in Docs |-> FALSE] /\ mixed = docCrossed
-----------------------------------------------------------------------------
\* The change listener: a text that becomes t is rendered anew unless a self edit
\* is under way; what cannot be parsed is not, and its state stays.  The states
\* are now s.
Changed(d, t, s) ==
    IF depth[d] > 0 \/ t = Torn
    THEN docState' = s /\ UNCHANGED <<docTables, same, renders>>
    ELSE /\ docState' = [s EXCEPT ![d] = t] /\ docTables' = [docTables EXCEPT ![d] = t]
         /\ same' = [same EXCEPT ![d] = TRUE]
         /\ renders' = [renders EXCEPT ![d] = @ + 1]

\* Fault: an edit made while another is under way is not queued.
RunUnlessBusy(d, w) ==
    IF queue[d] = <<>>
    THEN queue' = [queue EXCEPT ![d] = <<w>>] /\ depth' = [depth EXCEPT ![d] = 1]
    ELSE UNCHANGED <<queue, depth>>

\* runSelfEdit.
RunSelfEdit(d, w) ==
    /\ queue' = [queue EXCEPT ![d] = Append(@, w)]
    /\ depth' = [depth EXCEPT ![d] = @ + 1]

\* onOptionsChanged: the edit is made of the text as it is now, then queued.  The
\* copy of the result shares its layouts' array, if there is one.
EditOptions(d) ==
    /\ docEdits < MaxDocEdits /\ Len(queue[d]) < 2
    /\ docEdits' = docEdits + 1
    /\ LET new == [docState[d] EXCEPT !.chart = docEdits'] IN
       /\ docState' = [docState EXCEPT ![d] = new]
       /\ same' = [same EXCEPT ![d] = @ /\ docTables[d].layout > 0]
       /\ RunSelfEdit(d, [op |-> "options", new |-> new, base |-> text[d]])
    /\ docMade' = [docMade EXCEPT ![d].chart = docEdits']
    /\ mixed' = [mixed EXCEPT ![d] = @ \/ docMade[d].layout > 0]
    /\ docCrossed' = [docCrossed EXCEPT ![d] = @ \/ queue[d] # <<>> \/ rerun[d] # None]
    /\ UNCHANGED <<text, disk, docTables, applied, timer, rerun, renders, outside>>

\* A table view's new layout goes into the result it was created for, which is to
\* be written.
EditLayout(d) ==
    /\ docEdits < MaxDocEdits /\ Len(queue[d]) < 2
    /\ docEdits' = docEdits + 1
    /\ docTables' = [docTables EXCEPT ![d].layout = docEdits']
    /\ docState' = IF same[d] THEN [docState EXCEPT ![d].layout = docEdits'] ELSE docState
    /\ RunSelfEdit(d, [op |-> "layout"])
    /\ docMade' = [docMade EXCEPT ![d].layout = docEdits']
    /\ mixed' = [mixed EXCEPT ![d] = @ \/ docMade[d].chart > 0]
    /\ docCrossed' = [docCrossed EXCEPT ![d] = @ \/ rerun[d] # None]
    /\ UNCHANGED <<text, disk, same, applied, timer, rerun, renders, outside>>

\* The texts that replacing base's range of t by new can give.
Replaced(t, base, new) == IF t = base THEN {new} ELSE {new, Torn}

\* The first self edit reaches the text, and the listener hears of it.
Apply(d) ==
    /\ queue[d] # <<>> /\ ~applied[d]
    /\ applied' = [applied EXCEPT ![d] = TRUE]
    /\ LET w == Head(queue[d]) IN
       \E t \in CASE w.op = "options" -> Replaced(text[d], w.base, w.new)
                  [] w.op = "layout" -> {docTables[d]}
                  [] w.op = "save" -> {text[d]} :
        /\ text' = [text EXCEPT ![d] = t]
        /\ IF t = text[d] THEN UNCHANGED <<docState, docTables, same, renders>> ELSE Changed(d, t, docState)
    /\ UNCHANGED <<disk, queue, depth, timer, rerun, outside, docMade, docCrossed, mixed, docEdits>>

SavesFile(w) == w.op \in {"layout", "save"}

\* The first self edit ends: it saves, if it does, and the options' edit sets the
\* timer of the redraw.
End(d) ==
    /\ queue[d] # <<>> /\ applied[d]
    /\ LET w == Head(queue[d]) IN
       /\ disk' = IF SavesFile(w) THEN [disk EXCEPT ![d] = text[d]] ELSE disk
       /\ timer' = [timer EXCEPT ![d] = @ \/ w.op = "options"]
    /\ queue' = [queue EXCEPT ![d] = Tail(@)]
    /\ applied' = [applied EXCEPT ![d] = FALSE]
    /\ depth' = [depth EXCEPT ![d] = @ - 1]
    /\ UNCHANGED <<text, docState, docTables, same, rerun, renders, outside, docMade, docCrossed, mixed, docEdits>>

\* 600 ms later: updateChartOnly, and the save is queued.
DocTimerFires(d) ==
    /\ timer[d] /\ timer' = [timer EXCEPT ![d] = FALSE]
    /\ RunSelfEdit(d, [op |-> "save"])
    /\ UNCHANGED <<text, disk, docState, docTables, same, applied, rerun, renders, outside,
                   docMade, docCrossed, mixed, docEdits>>
-----------------------------------------------------------------------------
\* The text of d becomes t and is saved, by an edit that is no self edit.
Overwrite(d, t, s) ==
    /\ text' = [text EXCEPT ![d] = t] /\ disk' = [disk EXCEPT ![d] = t]
    /\ docMade' = [docMade EXCEPT ![d] = t]
    /\ outside' = [outside EXCEPT ![d] = @ + 1]
    /\ docCrossed' = [docCrossed EXCEPT ![d] = @ \/ queue[d] # <<>> \/ timer[d]]
    /\ Changed(d, t, s)

Reruns(d) == outside[d] < MaxOutside

\* rerunQuery keeps the chart options of before the query.
StartRerun(d) ==
    /\ rerun[d] = None /\ Reruns(d)
    /\ rerun' = [rerun EXCEPT ![d] = docState[d].chart]
    /\ UNCHANGED <<text, disk, docState, docTables, same, queue, applied, depth, timer, renders,
                   outside, docMade, docCrossed, mixed, docEdits>>

Rerun(d) ==
    /\ rerun[d] # None
    /\ rerun' = [rerun EXCEPT ![d] = None]
    /\ \/ Overwrite(d, [id |-> d, chart |-> rerun[d], layout |-> 0], docState)
          /\ mixed' = [mixed EXCEPT ![d] = FALSE]
       \/ UNCHANGED <<text, disk, docState, docTables, same, renders, outside, docMade, docCrossed, mixed>>
    /\ UNCHANGED <<queue, applied, depth, timer, docEdits>>

\* saveResults over the open document, or another editor of it; removeChart ends
\* the same way for the document it takes for the tab's.
EditOutside(d) ==
    /\ Reruns(d)
    /\ \E c \in {0, docState[d].chart} : Overwrite(d, [id |-> d, chart |-> c, layout |-> 0], docState)
    /\ mixed' = [mixed EXCEPT ![d] = FALSE]
    /\ UNCHANGED <<queue, applied, depth, timer, rerun, docEdits>>

\* removeChart of d's tab (0: no options).  Any document that parses is taken for
\* the tab's: the condition under which it is chosen does not speak of it.
RemoveDocChart(d) ==
    /\ LET new == [docState[d] EXCEPT !.chart = 0] IN
       \E t \in {u \in Docs : text[u] # Torn} :
        /\ Reruns(t)
        /\ Overwrite(t, new, [docState EXCEPT ![d] = new])
        /\ mixed' = [mixed EXCEPT ![t] = TRUE]
    /\ UNCHANGED <<queue, applied, depth, timer, rerun, docEdits>>

\* The colour theme changes: every tab is rendered anew, self edits or not.
ThemeChanges(d) ==
    /\ text[d] # Torn /\ Reruns(d)
    /\ docState' = [docState EXCEPT ![d] = text[d]] /\ docTables' = [docTables EXCEPT ![d] = text[d]]
    /\ same' = [same EXCEPT ![d] = TRUE]
    /\ renders' = [renders EXCEPT ![d] = @ + 1] /\ outside' = [outside EXCEPT ![d] = @ + 1]
    /\ docCrossed' = [docCrossed EXCEPT ![d] = @ \/ queue[d] # <<>>]
    /\ UNCHANGED <<text, disk, queue, applied, depth, timer, rerun, docMade, mixed, docEdits>>

DocumentNext == \E d \in Docs :
    \/ EditOptions(d) \/ EditLayout(d) \/ Apply(d) \/ End(d) \/ DocTimerFires(d)
    \/ StartRerun(d) \/ Rerun(d) \/ EditOutside(d) \/ RemoveDocChart(d) \/ ThemeChanges(d)

DocumentSpec == DocumentInit /\ [][DocumentNext]_documentVars
-----------------------------------------------------------------------------
Settled(d) == queue[d] = <<>> /\ ~timer[d] /\ rerun[d] = None

\* Self edits never cause a rendering, which would throw away what the user is
\* doing in the tables: however they overlap.
RendersComeFromOutside == \A d \in Docs : renders[d] <= outside[d]

\* Once nothing is pending the file holds the text.
SettledIsSaved == \A d \in Docs : Settled(d) => disk[d] = text[d]

\* One kind of edit at a time, each ended before the next: the text holds the last.
EditsSurvive ==
    \A d \in Docs : Settled(d) /\ ~docCrossed[d] /\ ~mixed[d] => text[d] = docMade[d]

\* removeChart: "Find the backing document and update it".
DocumentHoldsItsResult == \A d \in Docs : text[d] # Torn => text[d].id = d

\* Edits of a document render nothing, are saved, and survive (see the parts above).
DocumentsAreSound == DocumentTypeOK /\ RendersComeFromOutside /\ SettledIsSaved /\ EditsSurvive
=============================================================================
