----------------------------- MODULE MCResults ------------------------------
(* The components that show a result and take it further, for TLC.  They   *)
(* share no state, so an execution explores one of them, chosen at the     *)
(* start: their product would show nothing more.                           *)
EXTENDS NotebookSessions, ResultGrid, NotebookCommands, ResultTables, ChartEditor, TLC

VARIABLE part         \* the component explored

ResultsInit ==
    /\ part \in {"runs", "grid", "commands", "selection", "drag", "form"}
    /\ NbInit /\ GridInit /\ CmInit /\ SelInit /\ DragInit /\ FormInit
    /\ part # "selection" => colOrder = [i \in Columns |-> i]
    /\ part # "drag" => activeTab = CHOOSE t \in Tabs : TRUE

resultsVars == <<part, nbVars, gridVars, cmVars, selVars, dragVars, formVars>>

NotebookRuns ==
    /\ part = "runs" /\ NbNext
    /\ UNCHANGED <<part, gridVars, cmVars, selVars, dragVars, formVars>>

Grids ==
    /\ part = "grid" /\ GridNext
    /\ UNCHANGED <<part, nbVars, cmVars, selVars, dragVars, formVars>>

ResultCommands ==
    /\ part = "commands" /\ CmNext
    /\ UNCHANGED <<part, nbVars, gridVars, selVars, dragVars, formVars>>

Selecting ==
    /\ part = "selection" /\ SelNext
    /\ UNCHANGED <<part, nbVars, gridVars, cmVars, dragVars, formVars>>

Dragging ==
    /\ part = "drag" /\ DragNext
    /\ UNCHANGED <<part, nbVars, gridVars, cmVars, selVars, formVars>>

EditingCharts ==
    /\ part = "form" /\ FormNext
    /\ UNCHANGED <<part, nbVars, gridVars, cmVars, selVars, dragVars>>

ResultsNext ==
    NotebookRuns \/ Grids \/ ResultCommands \/ Selecting \/ Dragging \/ EditingCharts

ResultsSpec == ResultsInit /\ [][ResultsNext]_resultsVars

\* A chart with an option to restore, and an angle no form offers; and one with a table
\* of nodes where another is called "nodes", and a column its table lacks.
FormCharts ==
    {[options |-> [Bare EXCEPT !.style = [sort |-> Other, xTickAngle |-> Odd]],
      shape   |-> [cols |-> ChartColumns, tables |-> {NodesName}]],
     [options |-> [Bare EXCEPT !.nodesTable = CHOOSE t \in Tables : t # NodesName,
                               !.nodeColumn = Key,
                               !.xColumn = CHOOSE c \in ChartColumns : TRUE],
      shape   |-> [cols |-> {}, tables |-> Tables]]}

Symmetry == Permutations(Sessions) \union Permutations(Cells)

\* Three views, requests and edits of a notebook together; two views accepted for a
\* grid; and once a button has strayed, the table as it was at first.
Few ==
    /\ cellEdits + posted + readyView <= 3
    /\ rev <= 2
    /\ strayed => page = 1 /\ ~down /\ colOrder[1] = 1

=============================================================================
