---------------------------- MODULE MCClientLive ----------------------------
(* The client components that owe someone an answer, for TLC, one of them in*)
(* an execution (they share no state).                                     *)
EXTENDS NotebookSessions, ResultGrid, NotebookCommands, TableDrag, ServerList, NotebookConnections, QueryRuns, TLC

VARIABLE part         \* the component explored

ClientInit ==
    /\ part \in {"runs", "grid", "commands", "drag", "list", "notebooks", "queries"}
    /\ NbInit /\ GridInit /\ CmInit /\ DragInit /\ ListInit /\ NcInit
    /\ QueryInit
    /\ part # "drag" => activeTab = CHOOSE t \in Tabs : TRUE
    /\ part # "notebooks" => cells = {} /\ meta = None

clientVars == <<part, nbVars, gridVars, cmVars, dragVars, listVars, ncVars, queryVars>>

NotebookRuns ==
    /\ part = "runs" /\ NbNext
    /\ UNCHANGED <<part, gridVars, cmVars, dragVars, listVars, ncVars, queryVars>>

Grids ==
    /\ part = "grid" /\ GridNext
    /\ UNCHANGED <<part, nbVars, cmVars, dragVars, listVars, ncVars, queryVars>>

ResultCommands ==
    /\ part = "commands" /\ CmNext
    /\ UNCHANGED <<part, nbVars, gridVars, dragVars, listVars, ncVars, queryVars>>

Dragging ==
    /\ part = "drag" /\ DragNext
    /\ UNCHANGED <<part, nbVars, gridVars, cmVars, listVars, ncVars, queryVars>>

Listing ==
    /\ part = "list" /\ ListNext
    /\ UNCHANGED <<part, nbVars, gridVars, cmVars, dragVars, ncVars, queryVars>>

Synchronising ==
    /\ part = "notebooks" /\ NcNext
    /\ UNCHANGED <<part, nbVars, gridVars, cmVars, dragVars, listVars, queryVars>>

Querying ==
    /\ part = "queries" /\ QueryNext
    /\ UNCHANGED <<part, nbVars, gridVars, cmVars, dragVars, listVars, ncVars>>

ClientNext ==
    NotebookRuns \/ Grids \/ ResultCommands \/ Dragging \/ Listing \/ Synchronising \/ Querying

ClientSpec == ClientInit /\ [][ClientNext]_clientVars

\* The fairness of each component, as its module states it, asked of the one explored.
ClientFairness ==
    /\ WF_nbVars(part = "runs" /\ ExecuteCell)
    /\ \A s \in Sessions : WF_nbVars(part = "runs" /\ Disposed(s))
    /\ WF_gridVars(part = "grid" /\ GridTimerFires) /\ WF_gridVars(part = "grid" /\ Receive)
    /\ WF_gridVars(part = "grid" /\ Host)
    /\ WF_gridVars(part = "grid" /\ \E c \in gridCalls : CallMoves(c))
    /\ WF_cmVars(part = "commands" /\ HandleRequest) /\ WF_cmVars(part = "commands" /\ ReceiveReply)
    /\ WF_cmVars(part = "commands" /\ StartJob)
    /\ WF_cmVars(part = "commands" /\ (ApplyIds \/ ApplyInsert))
    /\ \A n \in PostIds : WF_cmVars(part = "commands" /\ HandlingMoves(n))
    /\ WF_dragVars(part = "drag" /\ HostReceives) /\ WF_dragVars(part = "drag" /\ PageReceives)
    /\ WF_dragVars(part = "drag" /\ (Answers(1) \/ AnswersNothing(1)))
    /\ \A c \in Commands : WF_listVars(part = "list" /\ Saved(c))
    /\ WF_ncVars(part = "notebooks" /\ Progress)
    /\ \A r \in Runs : WF_queryVars(part = "queries" /\ RunProgress(r))
    /\ WF_queryVars(part = "queries" /\ Ages)
    /\ WF_queryVars(part = "queries" /\ \E g \in due : TimerFires(g))
    /\ WF_queryVars(part = "queries" /\ ReadLenses) /\ WF_queryVars(part = "queries" /\ DrawLenses)

ClientLive == ClientSpec /\ ClientFairness

\* What a run leaves behind goes: an interrupted run ends, sessions without a user
\* are disposed.
RunsComeToRest == InterruptedRunEnds /\ ReleasedSessionsGo

\* Whoever asks is answered: the grid its view changes and its rows, its buttons
\* their commands, a drag that was refused the data it lacked.
RequestsAreAnswered == ViewChangesAreAnswered /\ RowsArrive /\ CommandsAreAnswered /\ DragIsServed

\* Work in the background ends: lists are told, notebooks' queues drain, lenses
\* catch up with what runs.
BackgroundWorkEnds == EveryChangeIsTold /\ (part = "notebooks" => QueueDrains) /\ LensesCatchUp

=============================================================================
