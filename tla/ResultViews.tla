----------------------------- MODULE ResultViews -----------------------------
(***************************************************************************)
(* Filtered and sorted views over retained results (SetViewAsync and the   *)
(* readers of ResultSessionManager), on top of ResultSessions.             *)
(*                                                                         *)
(* A view is submitted with a revision, evaluated on a pool thread without *)
(* any lock, and published under session.SyncRoot; until then pages keep   *)
(* coming from the previous ready view.  The tables of a session share     *)
(* nothing but the session, so one table stands for all of them.           *)
(*                                                                         *)
(* An accepted revision starts at most one evaluation, so an evaluation is *)
(* named by its session and its revision.                                  *)
(***************************************************************************)
EXTENDS ResultSessions

CONSTANT
    MaxRevision     \* bound on the views one session is asked for

ASSUME RevisionAssumption == MaxRevision \in Nat

VARIABLES
    rev,            \* SessionTable.ViewRevision, the latest accepted revision
    ready,          \* SessionTable.ReadyViewRevision, the one that is readable
    view,           \* SessionTable.ViewState
    attached,       \* the revision of SessionTable.ViewEvaluation, 0 for null
    eval,           \* where each evaluation is
    stopped,        \* evaluations whose ViewEvaluation was cancelled
    withdrawn       \* evaluations whose request the client cancelled

viewVars == <<rev, ready, view, attached, eval, stopped, withdrawn>>
allVars == <<vars, viewVars>>

Revisions == 1 .. MaxRevision
Evaluations == Sessions \X Revisions

\* running: EvaluateView is on its way; rows, regexTimeout, failure and unwound:
\* how it ended (unwound: by cancellation), with the finally block still due.
EvalPhases == {"none", "running", "rows", "regexTimeout", "failure", "unwound", "done"}
Ended == {"rows", "regexTimeout", "failure", "unwound"}

ViewTypeOK ==
    /\ TypeOK
    /\ rev \in [Sessions -> 0 .. MaxRevision]
    /\ ready \in [Sessions -> 0 .. MaxRevision]
    /\ view \in [Sessions -> {"none", "evaluating", "ready", "failed"}]
    /\ attached \in [Sessions -> 0 .. MaxRevision]
    /\ eval \in [Evaluations -> EvalPhases]
    /\ stopped \subseteq Evaluations
    /\ withdrawn \subseteq Evaluations

ViewInit ==
    /\ Init
    /\ rev = [s \in Sessions |-> 0]
    /\ ready = [s \in Sessions |-> 0]
    /\ view = [s \in Sessions |-> "none"]
    /\ attached = [s \in Sessions |-> 0]
    /\ eval = [e \in Evaluations |-> "none"]
    /\ stopped = {}
    /\ withdrawn = {}

-----------------------------------------------------------------------------

\* CancelViewEvaluation for the tables of the sessions in D.
AttachedTo(D) == {e \in Evaluations : e[1] \in D /\ attached[e[1]] = e[2]}

\* Fault: the evaluation is forgotten, not cancelled.
ForgetViewEvaluation(D) ==
    /\ attached' = [s \in Sessions |-> IF s \in D THEN 0 ELSE attached[s]]
    /\ UNCHANGED stopped

CancelViewEvaluation(D) ==
    /\ stopped' = stopped \union AttachedTo(D)
    /\ attached' = [s \in Sessions |-> IF s \in D THEN 0 ELSE attached[s]]

\* A step of the store; DisposeSession also cancels the session's evaluation.
Lifecycle ==
    /\ Next
    /\ CancelViewEvaluation({s \in Sessions : state[s] # "disposed" /\ state'[s] = "disposed"})
    /\ UNCHANGED <<rev, ready, view, eval, withdrawn>>

\* SetViewAsync up to its await, for a revision that is accepted.  Any other
\* revision is answered without a change, like a read.  A revision with an
\* invalid regular expression fails at once and starts no evaluation.
SetView(s) ==
    /\ CanDispatch
    /\ s \in registered
    /\ state[s] = "completed"
    /\ rev[s] < MaxRevision
    /\ LET r == rev[s] + 1 IN
        /\ rev' = [rev EXCEPT ![s] = r]
        /\ stopped' = stopped \union AttachedTo({s})
        /\ \/ /\ attached' = [attached EXCEPT ![s] = r]
              /\ view' = [view EXCEPT ![s] = "evaluating"]
              /\ eval' = [eval EXCEPT ![<<s, r>>] = "running"]
           \/ /\ attached' = [attached EXCEPT ![s] = 0]
              /\ view' = [view EXCEPT ![s] = "failed"]
              /\ UNCHANGED eval
    /\ Touch(s)
    /\ UNCHANGED <<state, exec, tables, token, registered, dispatch, closed>>
    /\ UNCHANGED <<ready, withdrawn>>

\* The client cancels the request whose evaluation is under way.
WithdrawRequest(e) ==
    /\ eval[e] \in {"running"} \union Ended
    /\ e \notin withdrawn
    /\ withdrawn' = withdrawn \union {e}
    /\ UNCHANGED <<vars, rev, ready, view, attached, eval, stopped>>

\* The awaited task ends.  It may have gone past its last look at the token
\* and return rows although it is cancelled by now.  The five-second limit is
\* a failure unless another token is cancelled too, and so is the read of a
\* session token that has been disposed.
EvalEnds(e) ==
    /\ eval[e] = "running"
    /\ \E outcome \in Ended :
        /\ outcome = "unwound" => e \in stopped \union withdrawn \/ CancelRequested(e[1])
        /\ eval' = [eval EXCEPT ![e] = outcome]
    /\ UNCHANGED <<vars, rev, ready, view, attached, stopped, withdrawn>>

\* Fault: rows are published whatever became of the request.
PublishesAnyway(e) == eval[e] = "rows" /\ state[e[1]] = "completed"

\* The finally block: only the attached evaluation may touch the view.
Publishes(e) ==
    /\ eval[e] = "rows"
    /\ state[e[1]] = "completed"
    /\ e \notin withdrawn \union stopped
    /\ ~CancelRequested(e[1])

\* Fault: an evaluation that timed out leaves the view as it was.
FailsWithoutTimeout(e) ==
    /\ state[e[1]] = "completed"
    /\ eval[e] = "failure" \/ e \in withdrawn

Fails(e) ==
    \/ eval[e] = "regexTimeout"
    \/ /\ state[e[1]] = "completed"
       /\ eval[e] = "failure" \/ e \in withdrawn

\* Fault: an evaluation that was replaced still writes the view.
EvalFinishStale(e) ==
    LET s == e[1] IN
        /\ eval[e] \in Ended
        /\ eval' = [eval EXCEPT ![e] = "done"]
        /\ attached' = [attached EXCEPT ![s] = 0]
        /\ ready' = [ready EXCEPT ![s] = IF Publishes(e) THEN e[2] ELSE @]
        /\ view' = [view EXCEPT ![s] =
                        IF Publishes(e) THEN "ready" ELSE IF Fails(e) THEN "failed" ELSE @]
        /\ UNCHANGED <<vars, rev, stopped, withdrawn>>

EvalFinish(e) ==
    LET s == e[1]
        current == attached[s] = e[2]
    IN  /\ eval[e] \in Ended
        /\ eval' = [eval EXCEPT ![e] = "done"]
        /\ attached' = [attached EXCEPT ![s] = IF current THEN 0 ELSE @]
        /\ ready' = [ready EXCEPT ![s] = IF current /\ Publishes(e) THEN e[2] ELSE @]
        /\ view' = [view EXCEPT ![s] =
                        IF current /\ Publishes(e) THEN "ready"
                        ELSE IF current /\ Fails(e) THEN "failed"
                        ELSE @]
        /\ UNCHANGED <<vars, rev, stopped, withdrawn>>

ViewNext ==
    \/ Lifecycle
    \/ \E s \in Sessions : SetView(s)
    \/ \E e \in Evaluations : WithdrawRequest(e) \/ EvalEnds(e) \/ EvalFinish(e)

ViewSpec == ViewInit /\ [][ViewNext]_allVars

\* Evaluations are bounded by their five-second limit and run on the pool.
ViewFairness ==
    \A e \in Evaluations : WF_allVars(EvalEnds(e)) /\ WF_allVars(EvalFinish(e))

ViewLiveSpec == ViewSpec /\ ViewFairness

-----------------------------------------------------------------------------
(* Safety *)

\* Pages, projections and continuations are read from a view that only moves
\* forward, to the newest accepted revision, by an evaluation that was neither
\* invalid, timed out, cancelled nor superseded, in a session still readable.
ReadyViewIsProtected ==
    [][\A s \in Sessions : ready'[s] # ready[s] =>
        /\ ready[s] < ready'[s] /\ ready'[s] = rev[s]
        /\ state[s] = "completed"
        /\ eval[<<s, ready'[s]>>] = "rows"
        /\ <<s, ready'[s]>> \notin stopped \union withdrawn]_allVars

\* The status a client polls tells the truth about the newest revision: ready
\* means pages of that revision can be read, failed means that they cannot, and
\* evaluating that someone is at work, unless the session itself was cancelled.
StatusIsTruthful ==
    \A s \in Sessions :
        /\ ready[s] <= rev[s]
        /\ view[s] = "ready" => ready[s] = rev[s]
        /\ view[s] = "failed" => ready[s] < rev[s]
        /\ view[s] = "evaluating" =>
            /\ ready[s] < rev[s]
            /\ attached[s] = rev[s] \/ CancelRequested(s)

\* Evaluations that nobody waits for were told to stop, and the attached one
\* belongs to a readable session and has not been: no CPU is spent on a view
\* that was superseded, or on a session that was disposed, without its knowing.
StrayEvaluationsAreStopped ==
    \A e \in Evaluations :
        /\ eval[e] \in {"running"} \union Ended /\ attached[e[1]] # e[2] => e \in stopped
        /\ attached[e[1]] = e[2] =>
            /\ eval[e] \in {"running"} \union Ended
            /\ rev[e[1]] = e[2]
            /\ state[e[1]] = "completed"
            /\ e \notin stopped

\* The comment on the catch block of SetViewAsync: an evaluation cancelled by
\* anyone but its own client was superseded by a newer revision or a disposal.
UnwindMeansSuperseded ==
    \A e \in Evaluations :
        eval[e] = "unwound" /\ e \notin withdrawn =>
            rev[e[1]] # e[2] \/ state[e[1]] = "disposed"

-----------------------------------------------------------------------------
(* Liveness *)

\* A client that polls the view it asked for gets an answer: ready, failed, a
\* newer revision or a disposed session - unless the session was cancelled.
ViewSettles ==
    \A e \in Evaluations :
        view[e[1]] = "evaluating" /\ rev[e[1]] = e[2] ~>
            \/ view[e[1]] # "evaluating" \/ rev[e[1]] # e[2]
            \/ CancelRequested(e[1])

-----------------------------------------------------------------------------
(* Refinement *)

Phase ==
    [s \in Sessions |->
        IF state[s] = "absent" THEN "absent"
        ELSE IF IsActive(s) THEN "pending"
        ELSE IF state[s] = "completed" THEN "available"
        ELSE IF state[s] = "disposed" THEN "gone"
        ELSE "unavailable"]

Service == INSTANCE ResultService WITH phase <- Phase, view <- ready

\* The store implements the promise made to the client.
ImplementsService == Service!SSpec

Table(s) == INSTANCE ViewService
            WITH rev <- rev[s], ready <- ready[s], status <- view[s],
                 gone <- (state[s] = "disposed")

\* Each table keeps the promise about its views that its grids rely on: they
\* are numbered as accepted, and only the newest one can become ready or fail.
\* It is VsSpec of each table, with the quantifier inside.
ImplementsViewService ==
    /\ \A s \in Sessions : Table(s)!VsInit
    /\ [][\A s \in Sessions : [Table(s)!VsNext]_(Table(s)!vsvars)]_allVars

=============================================================================
