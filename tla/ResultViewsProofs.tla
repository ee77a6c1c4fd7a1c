-------------------------- MODULE ResultViewsProofs --------------------------
(***************************************************************************)
(* Proofs about ResultViews, for any sessions, capacity and bound on       *)
(* revisions.  Every step of it is a step of the store or leaves the store *)
(* alone, so the store's theorems carry over; the view's own properties    *)
(* need the invariant ViewInd, which says what the attached evaluation is. *)
(***************************************************************************)
EXTENDS ResultViews, ResultSessionsProofs

LEMMA ViewStepIsStoreStep == [ViewNext]_allVars => [Next]_vars
<1>1. ASSUME NEW s \in Sessions, SetView(s)
      PROVE  Read(s)
  BY <1>1 DEF SetView, Read
<1>2. Lifecycle => Next
  BY DEF Lifecycle
<1>3. ASSUME NEW e \in Evaluations, WithdrawRequest(e) \/ EvalEnds(e) \/ EvalFinish(e)
      PROVE  UNCHANGED vars
  BY <1>3 DEF WithdrawRequest, EvalEnds, EvalFinish
<1> QED
  BY <1>1, <1>2, <1>3 DEF ViewNext, Next, Handler, allVars

\* With views the store is still the store of ResultSessions.
THEOREM ViewsRefineStore == ViewSpec => Spec
<1>1. ViewInit => Init
  BY DEF ViewInit
<1> QED
  BY <1>1, ViewStepIsStoreStep, PTL DEF ViewSpec, Spec

\* What a step of the store does to the parts of a session that views look at.
LEMMA StoreStep ==
  ASSUME IndInv, [Next]_vars, NEW s \in Sessions
  PROVE  /\ state[s] = "disposed" => state'[s] = "disposed"
         /\ state[s] = "completed" => state'[s] \in {"completed", "disposed"}
         /\ token[s] # "live" => token'[s] # "live"
         /\ state[s] # "disposed" /\ state'[s] = "disposed" => token'[s] # "live"
<1> USE DEF IndInv, TypeOK, StateFitsExecution, EntriesAreStarted, Terminal
<1>1. CASE UNCHANGED vars
  BY <1>1 DEF vars
<1>2. CASE Shutdown
  BY <1>2 DEF Shutdown, StateAfterDispose, TokenAfterDispose, Disposable
<1>3. ASSUME NEW t \in Sessions, Handler(t) \/ GrowIdle(t) \/ CleanupIdle(t)
      PROVE  /\ state[s] = "disposed" => state'[s] = "disposed"
             /\ state[s] = "completed" => state'[s] \in {"completed", "disposed"}
             /\ token[s] # "live" => token'[s] # "live"
             /\ state[s] # "disposed" /\ state'[s] = "disposed" => token'[s] # "live"
  <2>1. CASE Start(t)
    <3>1. PICK R \in Retired :
            /\ state' = [StateAfterDispose(R) EXCEPT ![t] = "queued"]
            /\ token' = TokenAfterDispose(R)
      BY <2>1 DEF Start
    <3>2. state[t] = "absent" /\ token[t] # "disposed"
      BY <1>3, <2>1 DEF Start
    <3> QED
      BY <1>3, <3>1, <3>2 DEF StateAfterDispose, TokenAfterDispose, Disposable
  <2>2. CASE Dispose(t) \/ CleanupIdle(t)
    BY <1>3, <2>2 DEF Dispose, CleanupIdle, StateAfterDispose, TokenAfterDispose, Disposable
  <2> QED
    BY <1>3, <2>1, <2>2 DEF Handler, CancelDecide, CancelApply, Read, GrowIdle
<1>4. ASSUME NEW t \in Sessions, Execution(t)
      PROVE  /\ state[s] = "disposed" => state'[s] = "disposed"
             /\ state[s] = "completed" => state'[s] \in {"completed", "disposed"}
             /\ token[s] # "live" => token'[s] # "live"
             /\ state[s] # "disposed" /\ state'[s] = "disposed" => token'[s] # "live"
  BY <1>4 DEF Execution, Commit, ExecBegin, QueryReturns, QueryThrows, TaskEnds,
     CommitDropped, CommitError, CommitTables, CatchCancelled, RecordFailure
<1> QED
  BY <1>1, <1>2, <1>3, <1>4 DEF Next

-----------------------------------------------------------------------------
(* The inductive invariant *)

\* Evaluations of revisions that were not accepted yet do not exist.
NoneAhead ==
    \A e \in Evaluations :
        e[2] > rev[e[1]] => eval[e] = "none" /\ e \notin stopped \union withdrawn

\* An attached evaluation is what the view is waiting for; an evaluation that
\* unwound was cancelled by somebody, and a request withdrawn had been made.
AttachedIsAwaited ==
    /\ \A s \in Sessions : attached[s] # 0 => view[s] = "evaluating"
    /\ \A e \in Evaluations :
        eval[e] = "unwound" => e \in stopped \union withdrawn \/ CancelRequested(e[1])

ViewInd ==
    /\ ViewTypeOK
    /\ NoneAhead
    /\ AttachedIsAwaited
    /\ StatusIsTruthful
    /\ StrayEvaluationsAreStopped

LEMMA ViewIndInit == ViewInit => ViewInd
<1> SUFFICES ASSUME ViewInit
             PROVE  ViewInd
  OBVIOUS
<1>1. TypeOK
  BY IndInvInit DEF ViewInit, IndInv
<1> QED
  BY <1>1, RevisionAssumption DEF ViewInit, ViewInd, ViewTypeOK, NoneAhead,
     AttachedIsAwaited, StatusIsTruthful, StrayEvaluationsAreStopped, Evaluations,
     Revisions, EvalPhases, Ended

LEMMA ViewIndNext == IndInv /\ IndInv' /\ ViewInd /\ [ViewNext]_allVars => ViewInd'
<1> SUFFICES ASSUME IndInv, IndInv', ViewInd, [ViewNext]_allVars
             PROVE  ViewInd'
  OBVIOUS
<1>0. TypeOK'
  BY DEF IndInv
<1> USE RevisionAssumption
    DEF ViewInd, ViewTypeOK, NoneAhead, AttachedIsAwaited, StatusIsTruthful,
        StrayEvaluationsAreStopped, Evaluations, Revisions, EvalPhases, Ended,
        CancelRequested
<1>1. CASE Lifecycle
  <2>1. \A s \in Sessions :
          /\ state[s] = "completed" => state'[s] \in {"completed", "disposed"}
          /\ token[s] # "live" => token'[s] # "live"
          /\ state[s] # "disposed" /\ state'[s] = "disposed" => token'[s] # "live"
    BY <1>1, StoreStep DEF Lifecycle
  <2>2. /\ stopped' = stopped \union
                AttachedTo({s \in Sessions : state[s] # "disposed" /\ state'[s] = "disposed"})
        /\ attached' = [s \in Sessions |->
                IF state[s] # "disposed" /\ state'[s] = "disposed" THEN 0 ELSE attached[s]]
        /\ UNCHANGED <<rev, ready, view, eval, withdrawn>>
    BY <1>1 DEF Lifecycle, CancelViewEvaluation
  <2> QED
    BY <1>0, <2>1, <2>2 DEF AttachedTo
<1>2. ASSUME NEW s \in Sessions, SetView(s)
      PROVE  ViewInd'
  <2> DEFINE r == rev[s] + 1
  <2>1. /\ state[s] = "completed" /\ rev[s] < MaxRevision
        /\ rev' = [rev EXCEPT ![s] = r]
        /\ stopped' = stopped \union AttachedTo({s})
        /\ UNCHANGED <<state, token, ready, withdrawn>>
    BY <1>2 DEF SetView
  <2>2. r \in Revisions /\ <<s, r>> \in Evaluations
    BY <2>1
  <2>3. eval[<<s, r>>] = "none" /\ <<s, r>> \notin stopped \union withdrawn
    BY <2>1, <2>2
  <2>4. \A e \in Evaluations :
          /\ e[1] \in Sessions /\ e[2] \in Revisions /\ e = <<e[1], e[2]>>
          /\ e \in stopped' <=> e \in stopped \/ (e[1] = s /\ attached[s] = e[2])
    BY <2>1 DEF AttachedTo
  <2>5. stopped' \subseteq Evaluations
    BY <2>1 DEF AttachedTo
  <2>6. CASE /\ attached' = [attached EXCEPT ![s] = r]
             /\ view' = [view EXCEPT ![s] = "evaluating"]
             /\ eval' = [eval EXCEPT ![<<s, r>>] = "running"]
    <3>1. \A e \in Evaluations :
            eval'[e] = IF e[1] = s /\ e[2] = r THEN "running" ELSE eval[e]
      BY <2>2, <2>4, <2>6
    <3>2. ViewTypeOK'
      <4>1. rev' \in [Sessions -> 0 .. MaxRevision] /\ attached' \in [Sessions -> 0 .. MaxRevision]
        BY <2>1, <2>2, <2>6
      <4>2. view' \in [Sessions -> {"none", "evaluating", "ready", "failed"}]
        BY <2>6
      <4>3. eval' \in [Evaluations -> EvalPhases]
        BY <2>2, <2>6
      <4> QED
        BY <1>0, <2>1, <2>5, <4>1, <4>2, <4>3
    <3>3. NoneAhead'
      <4> SUFFICES ASSUME NEW e \in Evaluations, e[2] > rev'[e[1]]
                   PROVE  eval'[e] = "none" /\ e \notin stopped' \union withdrawn'
        OBVIOUS
      <4>1. e[2] > rev[e[1]] /\ ~(e[1] = s /\ e[2] = r) /\ ~(e[1] = s /\ attached[s] = e[2])
        BY <2>1, <2>2, <2>4
      <4> QED
        BY <2>1, <2>4, <3>1, <4>1, ZenonT(40)
    <3>4. AttachedIsAwaited'
      BY <2>1, <2>2, <2>4, <2>6, <3>1
    <3>5. StatusIsTruthful'
      BY <2>1, <2>2, <2>6
    <3>6. StrayEvaluationsAreStopped'
      <4> SUFFICES ASSUME NEW e \in Evaluations
                   PROVE  /\ eval'[e] \in {"running"} \union Ended /\ attached'[e[1]] # e[2] =>
                                e \in stopped'
                          /\ attached'[e[1]] = e[2] =>
                                /\ eval'[e] \in {"running"} \union Ended
                                /\ rev'[e[1]] = e[2] /\ state'[e[1]] = "completed"
                                /\ e \notin stopped'
        OBVIOUS
      <4>1. CASE e[1] = s /\ e[2] = r
        <5>1. e = <<s, r>> /\ attached[s] # r /\ e \notin stopped
          BY <2>1, <2>3, <2>4, <4>1
        <5>2. e \notin stopped'
          BY <2>4, <4>1, <5>1
        <5> QED
          BY <2>1, <2>2, <2>6, <3>1, <4>1, <5>2
      <4>2. CASE e[1] = s /\ e[2] # r
        BY <2>1, <2>2, <2>4, <2>6, <3>1, <4>2
      <4>3. CASE e[1] # s
        BY <2>1, <2>2, <2>4, <2>6, <3>1, <4>3
      <4> QED
        BY <4>1, <4>2, <4>3
    <3> QED
      BY <3>2, <3>3, <3>4, <3>5, <3>6
  <2>7. CASE /\ attached' = [attached EXCEPT ![s] = 0]
             /\ view' = [view EXCEPT ![s] = "failed"]
             /\ UNCHANGED eval
    <3>1. ViewTypeOK'
      <4>1. rev' \in [Sessions -> 0 .. MaxRevision] /\ attached' \in [Sessions -> 0 .. MaxRevision]
        BY <2>1, <2>2, <2>7
      <4>2. view' \in [Sessions -> {"none", "evaluating", "ready", "failed"}]
        BY <2>7
      <4> QED
        BY <1>0, <2>1, <2>5, <2>7, <4>1, <4>2
    <3>2. NoneAhead'
      <4> SUFFICES ASSUME NEW e \in Evaluations, e[2] > rev'[e[1]]
                   PROVE  eval'[e] = "none" /\ e \notin stopped' \union withdrawn'
        OBVIOUS
      <4>1. e[2] > rev[e[1]] /\ ~(e[1] = s /\ attached[s] = e[2])
        BY <2>1, <2>2, <2>4
      <4> QED
        BY <2>1, <2>4, <2>7, <4>1
    <3>3. AttachedIsAwaited'
      BY <2>1, <2>2, <2>4, <2>7
    <3>4. StatusIsTruthful'
      BY <2>1, <2>2, <2>7
    <3>5. StrayEvaluationsAreStopped'
      <4> SUFFICES ASSUME NEW e \in Evaluations
                   PROVE  /\ eval'[e] \in {"running"} \union Ended /\ attached'[e[1]] # e[2] =>
                                e \in stopped'
                          /\ attached'[e[1]] = e[2] =>
                                /\ eval'[e] \in {"running"} \union Ended
                                /\ rev'[e[1]] = e[2] /\ state'[e[1]] = "completed"
                                /\ e \notin stopped'
        OBVIOUS
      <4>1. CASE e[1] = s
        <5>1. attached'[s] = 0 /\ e[2] # 0 /\ eval'[e] = eval[e]
          BY <2>4, <2>7, <4>1
        <5>2. e \in stopped' <=> e \in stopped \/ attached[s] = e[2]
          BY <2>4, <4>1
        <5>3. eval[e] \in {"running"} \union Ended /\ attached[e[1]] # e[2] => e \in stopped
          OBVIOUS
        <5> QED
          BY <4>1, <5>1, <5>2, <5>3
      <4>2. CASE e[1] # s
        BY <2>1, <2>4, <2>7, <4>2
      <4> QED
        BY <4>1, <4>2
    <3> QED
      BY <3>1, <3>2, <3>3, <3>4, <3>5
  <2> QED
    BY <1>2, <2>6, <2>7 DEF SetView
<1>3. ASSUME NEW e \in Evaluations, WithdrawRequest(e)
      PROVE  ViewInd'
  BY <1>0, <1>3 DEF WithdrawRequest, vars
<1>4. ASSUME NEW e \in Evaluations, EvalEnds(e)
      PROVE  ViewInd'
  BY <1>0, <1>4 DEF EvalEnds, vars
<1>5. ASSUME NEW e \in Evaluations, EvalFinish(e)
      PROVE  ViewInd'
  BY <1>0, <1>5 DEF EvalFinish, Publishes, Fails, vars
<1>6. CASE UNCHANGED allVars
  BY <1>0, <1>6 DEF allVars, viewVars, vars
<1> QED
  BY <1>1, <1>2, <1>3, <1>4, <1>5, <1>6 DEF ViewNext

LEMMA ViewIndAlways == ViewSpec => []ViewInd
<1>1. ViewSpec => []IndInv
  BY ViewsRefineStore, IndInvAlways, PTL
<1> QED
  BY <1>1, ViewIndInit, ViewIndNext, PTL DEF ViewSpec

-----------------------------------------------------------------------------
(* The theorems *)

\* The status a client polls tells the truth about the newest revision.
THEOREM StatusesAreTruthful == ViewSpec => []StatusIsTruthful
  BY ViewIndAlways, PTL DEF ViewInd

\* Superseded and disposed evaluations were told to stop; the attached one is
\* that of the newest revision of a readable session.
THEOREM StraysAreStopped == ViewSpec => []StrayEvaluationsAreStopped
  BY ViewIndAlways, PTL DEF ViewInd

\* Invalid, timed-out, cancelled and superseded evaluations never replace the
\* ready view.
THEOREM ReadyViewsAreProtected == ViewSpec => ReadyViewIsProtected
<1>1. ASSUME ViewInd, [ViewNext]_allVars, NEW s \in Sessions, ready'[s] # ready[s]
      PROVE  /\ ready[s] < ready'[s] /\ ready'[s] = rev[s]
             /\ state[s] = "completed"
             /\ eval[<<s, ready'[s]>>] = "rows"
             /\ <<s, ready'[s]>> \notin stopped \union withdrawn
  <2>1. PICK e \in Evaluations : EvalFinish(e)
    BY <1>1 DEF ViewNext, Lifecycle, SetView, WithdrawRequest, EvalEnds, allVars, viewVars
  <2>2. /\ e[1] = s /\ attached[s] = e[2] /\ Publishes(e)
        /\ ready'[s] = e[2] /\ e = <<s, e[2]>> /\ e[2] \in Revisions
    BY <1>1, <2>1 DEF EvalFinish, Evaluations, ViewInd, ViewTypeOK
  <2>3. rev[s] = e[2] /\ ready[s] < rev[s]
    <3>1. rev[s] = e[2] /\ view[s] = "evaluating"
      BY <2>2 , <1>1, RevisionAssumption
         DEF ViewInd, StrayEvaluationsAreStopped, AttachedIsAwaited, Revisions
    <3> QED
      BY <1>1, <3>1 DEF ViewInd, StatusIsTruthful
  <2> QED
    BY <2>2, <2>3 DEF Publishes
<1>2. ViewInd /\ [ViewNext]_allVars =>
        [\A s \in Sessions : ready'[s] # ready[s] =>
            /\ ready[s] < ready'[s] /\ ready'[s] = rev[s]
            /\ state[s] = "completed"
            /\ eval[<<s, ready'[s]>>] = "rows"
            /\ <<s, ready'[s]>> \notin stopped \union withdrawn]_allVars
  BY <1>1
<1> QED
  BY <1>2, ViewIndAlways, PTL DEF ViewSpec, ReadyViewIsProtected

\* Disposing sessions of the store withdraws their results.
LEMMA DisposeWithdraws ==
  ASSUME IndInv, NEW D \in SUBSET registered, state' = StateAfterDispose(D), ready' = ready
  PROVE  \E G \in SUBSET {s \in Sessions : Phase[s] # "absent"} : Service!Withdraw(G)
<1>1. D \subseteq Sessions /\ \A s \in D : state[s] # "absent"
  BY DEF IndInv, TypeOK, EntriesAreStarted
<1>2. Service!Withdraw(D)
  BY <1>1 DEF Service!Withdraw, Service!WithdrawnFrom, Phase, StateAfterDispose, Disposable,
     IsActive, Active
<1> QED
  BY <1>1, <1>2 DEF Service!Withdraw

\* A step of the store is a step of the service or is hidden from it.
LEMMA StoreImplementsService ==
  ASSUME IndInv, [Next]_vars, UNCHANGED ready
  PROVE  [Service!SNext]_(Service!svars)
<1> USE DEF IndInv, TypeOK, StateFitsExecution, Phase, IsActive, Active, Service!svars
<1>1. CASE UNCHANGED vars
  BY <1>1 DEF vars
<1>2. CASE Shutdown
  BY <1>2, DisposeWithdraws DEF Shutdown, Service!SNext
<1>3. ASSUME NEW t \in Sessions, Dispose(t) \/ CleanupIdle(t)
      PROVE  Service!SNext
  BY <1>3, DisposeWithdraws DEF Dispose, CleanupIdle, Service!SNext
<1>4. ASSUME NEW t \in Sessions, Start(t)
      PROVE  Service!SNext
  <2>1. PICK R \in Retired : state' = [StateAfterDispose(R) EXCEPT ![t] = "queued"]
    BY <1>4 DEF Start
  <2>2. /\ R \subseteq Sessions /\ t \notin R /\ state[t] = "absent"
        /\ \A s \in R : state[s] # "absent"
    BY <1>4, RetiredIsRegistered DEF Start, EntriesAreStarted
  <2>3. \A s \in Sessions :
          state'[s] = IF s = t THEN "queued" ELSE IF s \in R THEN "disposed" ELSE state[s]
    BY <2>1 DEF StateAfterDispose, Disposable
  <2>4. Phase' = [[s \in Sessions |-> IF s \in R THEN "gone" ELSE Phase[s]]
                    EXCEPT ![t] = "pending"]
    BY <2>2, <2>3
  <2>5. Service!Open(t, R)
    BY <2>2, <2>4 DEF Service!Open, Service!WithdrawnFrom
  <2> QED
    BY <2>2, <2>5 DEF Service!SNext
<1>5. ASSUME NEW t \in Sessions,
             CancelDecide(t) \/ CancelApply(t) \/ Read(t) \/ GrowIdle(t)
      PROVE  UNCHANGED Service!svars
  BY <1>5 DEF CancelDecide, CancelApply, Read, GrowIdle
<1>6. ASSUME NEW t \in Sessions, ExecBegin(t) \/ QueryReturns(t) \/ QueryThrows(t)
      PROVE  UNCHANGED Service!svars
  BY <1>6 DEF ExecBegin, QueryReturns, QueryThrows
<1>7. ASSUME NEW t \in Sessions, Commit(t) \/ CatchCancelled(t) \/ RecordFailure(t)
      PROVE  [Service!SNext]_(Service!svars)
  <2>1. CASE UNCHANGED state
    BY <2>1
  <2>2. CASE state' = [state EXCEPT ![t] = "materializing"] /\ IsActive(t)
    BY <2>2
  <2>3. ASSUME NEW outcome \in Terminal, state' = [state EXCEPT ![t] = outcome], IsActive(t)
        PROVE  Service!Settle(t)
    BY <2>3 DEF Service!Settle, Terminal
  <2>4. \/ UNCHANGED state
        \/ state' = [state EXCEPT ![t] = "materializing"] /\ IsActive(t)
        \/ \E outcome \in Terminal : state' = [state EXCEPT ![t] = outcome] /\ IsActive(t)
    BY <1>7 DEF Commit, CommitDropped, CommitError, CommitTables, CatchCancelled,
       RecordFailure, Terminal
  <2> QED
    BY <2>1, <2>2, <2>3, <2>4 DEF Service!SNext
<1> QED
  BY <1>1, <1>2, <1>3, <1>4, <1>5, <1>6, <1>7 DEF Next, Handler, Execution

\* The store keeps the promise of ResultService to the client: results become
\* available once, are withdrawn for good, and their views only move forward.
THEOREM StoreKeepsItsPromise == ViewSpec => ImplementsService
<1>1. ViewInit => Service!SInit
  BY DEF ViewInit, Init, Service!SInit, Phase, IsActive, Active
<1>2. ASSUME IndInv, ViewInd, [ViewNext]_allVars
      PROVE  [Service!SNext]_(Service!svars)
  <2>1. CASE UNCHANGED ready
    BY <1>2, <2>1, ViewStepIsStoreStep, StoreImplementsService
  <2>2. CASE ready' # ready
    <3>1. PICK e \in Evaluations : EvalFinish(e)
      BY <1>2, <2>2 DEF ViewNext, Lifecycle, SetView, WithdrawRequest, EvalEnds,
         allVars, viewVars
    <3>2. e[1] \in Sessions /\ e[2] \in Revisions
      BY DEF Evaluations
    <3>3. /\ attached[e[1]] = e[2] /\ Publishes(e) /\ UNCHANGED vars
          /\ ready' = [ready EXCEPT ![e[1]] = e[2]]
      BY <1>2, <2>2, <3>1, <3>2 DEF EvalFinish, ViewInd, ViewTypeOK
    <3>4. ready[e[1]] < e[2]
      <4>1. rev[e[1]] = e[2] /\ view[e[1]] = "evaluating"
        BY <1>2, <3>2, <3>3, RevisionAssumption
           DEF ViewInd, StrayEvaluationsAreStopped, AttachedIsAwaited, Revisions
      <4> QED
        BY <1>2, <3>2, <4>1 DEF ViewInd, StatusIsTruthful
    <3>5. Service!Publish(e[1])
      <4>1. Phase' = Phase /\ Phase[e[1]] = "available"
        BY <3>2, <3>3 DEF Phase, Publishes, vars, IsActive, Active
      <4>2. e[2] \in Nat
        BY <3>2, RevisionAssumption DEF Revisions
      <4>3. ready'[e[1]] = e[2]
        BY <1>2, <3>2, <3>3 DEF ViewInd, ViewTypeOK
      <4>4. ready' = [ready EXCEPT ![e[1]] = ready'[e[1]]]
        BY <3>3, <4>3
      <4> QED
        BY <3>4, <4>1, <4>2, <4>3, <4>4 DEF Service!Publish
    <3> QED
      BY <3>2, <3>5 DEF Service!SNext
  <2> QED
    BY <2>1, <2>2
<1>3. ViewSpec => []IndInv
  BY ViewsRefineStore, IndInvAlways, PTL
<1> QED
  BY <1>1, <1>2, <1>3, ViewIndAlways, PTL DEF ViewSpec, ImplementsService, Service!SSpec

-----------------------------------------------------------------------------
(* The promise to the grids *)

\* Each step of the store is one of the promise, for each of its tables.
LEMMA TableStep ==
  ASSUME IndInv, ViewInd, [ViewNext]_allVars, NEW s \in Sessions
  PROVE  [Table(s)!VsNext]_(Table(s)!vsvars)
<1> USE DEF Table!VsNext, Table!vsvars
<1>1. CASE Lifecycle
  <2>1. UNCHANGED <<rev, ready, view>> /\ (state[s] = "disposed" => state'[s] = "disposed")
    BY <1>1, StoreStep DEF Lifecycle
  <2> QED
    BY <2>1 DEF Table!Withdraw
<1>2. ASSUME NEW t \in Sessions, SetView(t)
      PROVE  [Table(s)!VsNext]_(Table(s)!vsvars)
  <2>1. /\ rev' = [rev EXCEPT ![t] = rev[t] + 1]
        /\ \E o \in {"evaluating", "failed"} : view' = [view EXCEPT ![t] = o]
        /\ state[t] = "completed"
        /\ UNCHANGED <<state, ready>>
    BY <1>2 DEF SetView
  <2> QED
    BY <1>2, <2>1 DEF Table!Submit, ViewInd, ViewTypeOK
<1>3. ASSUME NEW e \in Evaluations, EvalFinish(e)
      PROVE  [Table(s)!VsNext]_(Table(s)!vsvars)
  <2>1. e[1] \in Sessions /\ e[2] \in Revisions
    BY DEF Evaluations
  <2>2. CASE e[1] = s /\ attached[s] = e[2]
    <3>1. view[s] = "evaluating" /\ rev[s] = e[2] /\ state[s] = "completed"
      BY <2>1, <2>2, RevisionAssumption
         DEF ViewInd, StrayEvaluationsAreStopped, AttachedIsAwaited, Revisions
    <3> QED
      BY <1>3, <2>1, <2>2, <3>1
         DEF EvalFinish, vars, ViewInd, ViewTypeOK, Table!Publish, Table!Fail
  <2>3. CASE ~(e[1] = s /\ attached[s] = e[2])
    BY <1>3, <2>1, <2>3 DEF EvalFinish, vars, ViewInd, ViewTypeOK
  <2> QED
    BY <2>2, <2>3
<1>4. CASE UNCHANGED <<vars, rev, ready, view>>
  BY <1>4 DEF vars
<1> QED
  BY <1>1, <1>2, <1>3, <1>4 DEF ViewNext, WithdrawRequest, EvalEnds, allVars, viewVars

\* Every table keeps the promise ViewService, which is all that the grids of
\* ResultGrid assume of the server.
THEOREM TablesKeepTheirPromise == ViewSpec => ImplementsViewService
<1>1. ViewInit => \A s \in Sessions : Table(s)!VsInit
  BY DEF ViewInit, Init, Table!VsInit
<1>2. IndInv /\ ViewInd /\ [ViewNext]_allVars =>
        [\A s \in Sessions : [Table(s)!VsNext]_(Table(s)!vsvars)]_allVars
  BY TableStep
<1>3. ViewSpec => []IndInv
  BY ViewsRefineStore, IndInvAlways, PTL
<1> QED
  BY <1>1, <1>2, <1>3, ViewIndAlways, PTL DEF ViewSpec, ImplementsViewService

=============================================================================
