-------------------------- MODULE NotebookSessions --------------------------
(***************************************************************************)
(* The notebook client of the result store: KustoNotebookController runs   *)
(* the cells of a notebook one at a time, NotebookResultManager keeps the  *)
(* result session behind each cell's output and releases it in time.       *)
(*                                                                         *)
(* Concurrency.  The extension host is one thread: an action is the code   *)
(* between two awaits.  Between them the user may interrupt the run, clear *)
(* an output, delete cells or close the notebook, and the server, known by *)
(* its promise ResultService, may withdraw any session.  Requests reach    *)
(* the server; whether replaceOutput has an effect is up to the editor.    *)
(*                                                                         *)
(* Any cell may run next, so batches of cells and their order are covered. *)
(***************************************************************************)
EXTENDS FiniteSets, Integers

CONSTANTS
    Sessions,       \* the session ids the server will hand out
    Cells,          \* the cells of the notebook, each named by its URI
    NoSession, NoCell

ASSUME NotebookAssumption == NoSession \notin Sessions /\ NoCell \notin Cells

VARIABLES
    phase,          \* the server's sessions: see ResultService
    present,        \* the cells still in the notebook
    shown,          \* the session named by the grid in each cell's output
    sessionOf,      \* sessionsByCell
    pendingOf,      \* pendingSessionsByCell
    pc,             \* where executeCell is
    cell,           \* the cell it executes
    session,        \* started.sessionId in runQuery, then replacementSessionId
    token,          \* execution.token.isCancellationRequested
    disposing,      \* sessions with a disposeResultSession request under way
    awaited,        \* those whose disposal executeCell awaits before it ends
    overtaken       \* cells cleared while their new output was being set

runVars == <<pc, cell, session, token, awaited>>
nbVars == <<phase, present, shown, sessionOf, pendingOf, disposing, overtaken, runVars>>

SessionOrNone == Sessions \union {NoSession}

\* blank: the output of an empty cell is being set; starting, polling: runQuery;
\* connecting: the connection of the result is looked up and adopted; emptying,
\* showing: the output is being set; shown: it is set, to be adopted; ending:
\* only disposals are left to wait for.
RunPhases == {"idle", "blank", "starting", "polling", "connecting",
              "emptying", "showing", "shown", "ending"}

NbTypeOK ==
    /\ phase \in [Sessions -> {"absent", "pending", "available", "unavailable", "gone"}]
    /\ present \subseteq Cells
    /\ shown \in [Cells -> SessionOrNone]
    /\ sessionOf \in [Cells -> SessionOrNone]
    /\ pendingOf \in [Cells -> SessionOrNone]
    /\ pc \in RunPhases
    /\ cell \in Cells \union {NoCell}
    /\ session \in SessionOrNone
    /\ token \in BOOLEAN
    /\ disposing \subseteq Sessions
    /\ awaited \subseteq Sessions
    /\ overtaken \subseteq Cells

NbInit ==
    /\ phase = [s \in Sessions |-> "absent"]
    /\ present = Cells
    /\ shown = [c \in Cells |-> NoSession]
    /\ sessionOf = [c \in Cells |-> NoSession]
    /\ pendingOf = [c \in Cells |-> NoSession]
    /\ pc = "idle"
    /\ cell = NoCell
    /\ session = NoSession
    /\ token = FALSE
    /\ disposing = {}
    /\ awaited = {}
    /\ overtaken = {}

-----------------------------------------------------------------------------
(* The server *)

\* Pages and views are of no concern here: every view stays at revision 0.
Server == INSTANCE ResultService WITH view <- [s \in Sessions |-> 0]

\* A query ends, or the server withdraws sessions that are idle or in its way.
ServerActs ==
    /\ \/ \E s \in Sessions : Server!Settle(s)
       \/ \E s \in Sessions : phase[s] # "absent" /\ Server!Withdraw({s})
    /\ UNCHANGED <<present, shown, sessionOf, pendingOf, disposing, overtaken, runVars>>

\* A disposeResultSession request is served and its reply received.
Disposed(s) ==
    /\ s \in disposing
    /\ disposing' = disposing \ {s}
    /\ Server!Withdraw({s})
    /\ UNCHANGED <<present, shown, sessionOf, pendingOf, overtaken, runVars>>

-----------------------------------------------------------------------------
(* Helpers *)

\* The sessions the cells in C hold.
HeldBy(C) == ({sessionOf[c] : c \in C} \union {pendingOf[c] : c \in C}) \ {NoSession}

\* f with the entries of the cells in C, or of the session s, deleted.
Without(f, C) == [c \in Cells |-> IF c \in C THEN NoSession ELSE f[c]]
Purged(f, s) == [c \in Cells |-> IF f[c] = s THEN NoSession ELSE f[c]]

\* releaseCell for the cells in C, with disposeInBackground.
Release(C) ==
    /\ sessionOf' = Without(sessionOf, C)
    /\ pendingOf' = Without(pendingOf, C)
    /\ disposing' = disposing \union HeldBy(C)

\* The run goes on to end once the sessions in S are disposed.
EndAfter(S) ==
    /\ pc' = "ending"
    /\ session' = NoSession
    /\ awaited' = S
    /\ UNCHANGED <<cell, token>>

Continue(next) ==
    /\ pc' = next
    /\ UNCHANGED <<cell, session, token, awaited>>

\* Fault: the session is disposed, its entries are not deleted.
AbandonEntries ==
    /\ UNCHANGED <<sessionOf, pendingOf>>
    /\ disposing' = disposing \union {session}
    /\ EndAfter({session})

\* Fault: everything the cell holds is released, its previous session too.
AbandonCell ==
    /\ Release({cell})
    /\ EndAfter(HeldBy({cell}))

\* disposeSession for the session of the run, which thereby fails: the catch
\* block of executeCell, or its reaction to a late cancellation.
Abandon ==
    /\ sessionOf' = Purged(sessionOf, session)
    /\ pendingOf' = Purged(pendingOf, session)
    /\ disposing' = disposing \union {session}
    /\ EndAfter({session})

\* replaceOutput takes effect: a cell that was deleted has no output.
SetOutput(s) ==
    /\ shown' = [shown EXCEPT ![cell] = IF cell \in present THEN s ELSE @]
    /\ overtaken' = IF s # NoSession /\ pendingOf[cell] # s THEN overtaken ELSE overtaken \ {cell}

-----------------------------------------------------------------------------
(* executeCell and runQuery *)

Begin(c) ==
    /\ pc = "idle"
    /\ c \in present
    /\ pc' \in {"blank", "starting"}
    /\ cell' = c
    /\ token' = FALSE
    /\ UNCHANGED <<session, awaited>>
    /\ UNCHANGED <<phase, present, shown, sessionOf, pendingOf, disposing, overtaken>>

\* "Cell is empty." replaces the output, and the cell's session is released.
ShowBlank ==
    /\ pc = "blank"
    /\ SetOutput(NoSession)
    /\ Release({cell})
    /\ EndAfter(HeldBy({cell}))
    /\ UNCHANGED <<phase, present>>

\* startResultSession is served; the server may make room for the new session.
StartReturns ==
    /\ pc = "starting"
    /\ \E s \in Sessions, D \in SUBSET Sessions :
        /\ \A t \in D : phase[t] # "absent"
        /\ Server!Open(s, D)
        /\ session' = s
    /\ pc' = "polling"
    /\ UNCHANGED <<cell, token, awaited>>
    /\ UNCHANGED <<present, shown, sessionOf, pendingOf, disposing, overtaken>>

StartFails ==
    /\ pc = "starting"
    /\ EndAfter({})
    /\ UNCHANGED <<phase, present, shown, sessionOf, pendingOf, disposing, overtaken>>

\* Fault: the loop looks at the status only.
PollEndsUncancelled ==
    /\ pc = "polling"
    /\ \/ phase[session] = "available" /\ Continue("connecting")
       \/ phase[session] \in {"unavailable", "gone"} /\ EndAfter({})
    /\ UNCHANGED <<phase, present, shown, sessionOf, pendingOf, disposing, overtaken>>

\* The polling loop ends because the run was cancelled or the session is not to
\* complete: release() and throw.  Or it completed, though the run may have been
\* cancelled meanwhile: executeCell disposes the session then.
PollEnds ==
    /\ pc = "polling"
    /\ \/ /\ phase[session] = "available" /\ ~token
          /\ Continue("connecting")
          /\ UNCHANGED <<sessionOf, pendingOf, disposing>>
       \/ /\ token \/ phase[session] \in {"unavailable", "gone"}
          /\ Abandon
    /\ UNCHANGED <<phase, present, shown, overtaken>>

\* ensureServer and setConnection were awaited; either may throw.  A result with
\* tables is prepared, unless another one is pending for the cell.
Connected ==
    /\ pc = "connecting"
    /\ \/ /\ Continue("emptying")
          /\ UNCHANGED <<sessionOf, pendingOf, disposing>>
       \/ /\ pendingOf[cell] = NoSession
          /\ pendingOf' = [pendingOf EXCEPT ![cell] = session]
          /\ Continue("showing")
          /\ UNCHANGED <<sessionOf, disposing>>
       \/ Abandon
    /\ UNCHANGED <<phase, present, shown, overtaken>>

\* "Query completed without results.": the new session and the old one go.
ShowEmpty ==
    /\ pc = "emptying"
    /\ SetOutput(NoSession)
    /\ sessionOf' = Without(Purged(sessionOf, session), {cell})
    /\ pendingOf' = Without(Purged(pendingOf, session), {cell})
    /\ disposing' = disposing \union {session} \union HeldBy({cell})
    /\ EndAfter({session} \union HeldBy({cell}))
    /\ UNCHANGED <<phase, present>>

ShowGrid ==
    /\ pc = "showing"
    /\ SetOutput(session)
    /\ Continue("shown")
    /\ UNCHANGED <<phase, present, sessionOf, pendingOf, disposing>>

\* replaceOutput rejects and nothing has changed.
ShowFails ==
    /\ pc \in {"blank", "emptying", "showing"}
    /\ IF pc = "blank"
       THEN /\ EndAfter({})
            /\ UNCHANGED <<sessionOf, pendingOf, disposing>>
       ELSE Abandon
    /\ UNCHANGED <<phase, present, shown, overtaken>>

\* Fault: the previous session is replaced without being disposed.
AdoptForgetting ==
    /\ pc = "shown"
    /\ IF pendingOf[cell] # session
       THEN Abandon
       ELSE /\ pendingOf' = [pendingOf EXCEPT ![cell] = NoSession]
            /\ sessionOf' = [sessionOf EXCEPT ![cell] = session]
            /\ UNCHANGED disposing
            /\ EndAfter({})
    /\ UNCHANGED <<phase, present, shown, overtaken>>

\* adoptSession disposes the previous session; it throws when the pending one
\* has been released meanwhile.
Adopt ==
    /\ pc = "shown"
    /\ IF pendingOf[cell] # session
       THEN Abandon
       ELSE LET previous == {sessionOf[cell]} \ {session, NoSession} IN
            /\ pendingOf' = [pendingOf EXCEPT ![cell] = NoSession]
            /\ sessionOf' = [sessionOf EXCEPT ![cell] = session]
            /\ disposing' = disposing \union previous
            /\ EndAfter(previous)
    /\ UNCHANGED <<phase, present, shown, overtaken>>

End ==
    /\ pc = "ending"
    /\ awaited \intersect disposing = {}
    /\ pc' = "idle"
    /\ awaited' = {}
    /\ UNCHANGED <<cell, session, token>>
    /\ UNCHANGED <<phase, present, shown, sessionOf, pendingOf, disposing, overtaken>>

-----------------------------------------------------------------------------
(* The user *)

Interrupt ==
    /\ pc # "idle"
    /\ ~token
    /\ token' = TRUE
    /\ UNCHANGED <<pc, cell, session, awaited>>
    /\ UNCHANGED <<phase, present, shown, sessionOf, pendingOf, disposing, overtaken>>

\* Cells are deleted: onDidChangeNotebookDocument with removedCells.
Delete(C) ==
    /\ C # {} /\ C \subseteq present
    /\ present' = present \ C
    /\ shown' = Without(shown, C)
    /\ Release(C)
    /\ UNCHANGED <<phase, overtaken, runVars>>

\* The output of a cell is cleared: a cell change without a result grid.
Clear(c) ==
    /\ c \in present
    /\ shown' = [shown EXCEPT ![c] = NoSession]
    /\ Release({c})
    /\ overtaken' = IF pc = "showing" /\ cell = c THEN overtaken \union {c} ELSE overtaken \ {c}
    /\ UNCHANGED <<phase, present, runVars>>

\* onDidCloseNotebookDocument: releaseNotebook finds the entries of all cells.
Close ==
    /\ present # {}
    /\ present' = {}
    /\ shown' = Without(shown, Cells)
    /\ Release(Cells)
    /\ UNCHANGED <<phase, overtaken, runVars>>

-----------------------------------------------------------------------------
ExecuteCell ==
    \/ ShowBlank \/ StartReturns \/ StartFails \/ PollEnds \/ Connected
    \/ ShowEmpty \/ ShowGrid \/ ShowFails \/ Adopt \/ End

User ==
    \/ Interrupt \/ Close
    \/ \E c \in Cells : Begin(c) \/ Clear(c)
    \/ \E C \in SUBSET Cells : Delete(C)

NbNext == ServerActs \/ ExecuteCell \/ User \/ \E s \in Sessions : Disposed(s)

NbSpec == NbInit /\ [][NbNext]_nbVars

\* Awaited calls return: requests are answered and the editor sets outputs.
\* Queries need not end, and users need not do anything.
NbFairness ==
    /\ WF_nbVars(ExecuteCell)
    /\ \A s \in Sessions : WF_nbVars(Disposed(s))

NbLiveSpec == NbSpec /\ NbFairness

-----------------------------------------------------------------------------
(* Safety *)

\* The client loses track of no session: one the server may still retain is in
\* the hands of the run, held by a cell, or about to be disposed - wherever
\* deletions, clears and interruptions fall between the awaits of executeCell.
NoSessionIsOrphaned ==
    \A s \in Sessions : phase[s] \notin {"absent", "gone"} =>
        s = session \/ s \in HeldBy(Cells) \union disposing

\* A pending session belongs to the run that is setting the cell's output, so
\* prepareSession never finds "A replacement result session is already pending
\* for this cell." and no failed run blocks the runs that follow it.
PendingOnlyWhileShowing ==
    \A c \in Cells : pendingOf[c] # NoSession =>
        pc \in {"showing", "shown"} /\ cell = c /\ pendingOf[c] = session

\* What a cell shows is what it holds: a failed or interrupted run keeps the
\* previous result alive, a successful one disposes it only after the new grid
\* is shown, and no session is held behind an output that shows none.  A cell
\* cleared while its new grid was being set is the exception: see Adopt.
ShownIsHeld ==
    \A c \in present \ overtaken :
        \/ shown[c] = sessionOf[c]
        \/ pc = "shown" /\ cell = c /\ shown[c] = pendingOf[c]

\* ARCHITECTURE.md: result sessions are "disposed deterministically when a
\* result is replaced, a cell is deleted, a notebook closes".
DeletedCellsHoldNothing ==
    pc = "idle" => \A c \in Cells \ present : sessionOf[c] = NoSession

-----------------------------------------------------------------------------
(* Liveness *)

\* An interrupted run ends, so that the queue of executions moves on, even if
\* the server never settles the query.
InterruptedRunEnds == token /\ pc # "idle" ~> pc = "idle"

\* A session that neither a cell nor the run refers to is withdrawn.
ReleasedSessionsGo ==
    \A s \in Sessions :
        phase[s] # "absent" /\ s # session /\ s \notin HeldBy(Cells) ~> phase[s] = "gone"

=============================================================================
