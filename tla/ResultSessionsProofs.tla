------------------------ MODULE ResultSessionsProofs ------------------------
(***************************************************************************)
(* Proofs about ResultSessions, for any finite set of sessions and any     *)
(* capacity.  The safety properties are proved from one inductive          *)
(* invariant that ties a session's state to the progress of its execution  *)
(* task, to the tables and the cancellation source it holds, and to its    *)
(* entry in the store.                                                     *)
(***************************************************************************)
EXTENDS ResultSessions, FiniteSetTheorems, TLAPS

\* What the state of a session can be at each point of its execution task.
StateFitsExecution ==
    \A s \in Sessions :
        /\ exec[s] = "none" <=> state[s] = "absent"
        /\ exec[s] = "scheduled" => state[s] \in {"queued", "disposed"}
        /\ exec[s] \in {"querying", "answered", "refused", "cancelling"} =>
                state[s] \in {"running", "disposed"}
        /\ exec[s] = "faulted" => state[s] \in {"running", "materializing", "disposed"}
        /\ exec[s] = "done" => state[s] \in Terminal \union {"disposed"}

\* A store entry is a session that was started, and a cancellation that is
\* about to be applied concerns a session that cannot be disposed meanwhile.
EntriesAreStarted ==
    /\ \A s \in registered : state[s] # "absent"
    /\ \A s \in Sessions : token[s] = "disposed" => state[s] = "disposed"
    /\ dispatch # NoSession =>
        dispatch \in registered \ idle /\ state[dispatch] # "disposed"

IndInv ==
    /\ TypeOK
    /\ StateFitsExecution
    /\ EntriesAreStarted
    /\ NothingLiveIsLost
    /\ TablesAccountedFor
    /\ TokenOutlivesItsUsers

-----------------------------------------------------------------------------

LEMMA IndInvInit == Init => IndInv
  BY SessionsAssumption DEF Init, IndInv, TypeOK, StateFitsExecution, EntriesAreStarted,
     NothingLiveIsLost, TablesAccountedFor, TokenOutlivesItsUsers, States, Active,
     Terminal, ExecPhases, TableStates, TaskOver

\* StartAsync retires entries of the store only, and at most one that is not idle.
LEMMA RetiredIsRegistered ==
  ASSUME TypeOK, NEW R \in Retired
  PROVE  /\ R \subseteq registered
         /\ \/ R = idle /\ Cardinality(registered \ idle) < MaxSessions
            \/ \E v \in registered \ idle : R = idle \union {v}
  BY DEF TypeOK, Retired

\* The invariant is inductive.
LEMMA IndInvNext == IndInv /\ [Next]_vars => IndInv'
<1> SUFFICES ASSUME IndInv, [Next]_vars
             PROVE  IndInv'
  OBVIOUS
<1> USE SessionsAssumption
    DEF IndInv, TypeOK, StateFitsExecution, EntriesAreStarted, NothingLiveIsLost,
        TablesAccountedFor, TokenOutlivesItsUsers, States, Active, Terminal,
        ExecPhases, TableStates, TaskOver, IsActive
<1>1. ASSUME NEW s \in Sessions, Start(s)
      PROVE  IndInv'
  <2>1. PICK R \in Retired :
          /\ state' = [StateAfterDispose(R) EXCEPT ![s] = "queued"]
          /\ tables' = TablesAfterDispose(R)
          /\ token' = TokenAfterDispose(R)
          /\ registered' = (registered \ R) \union {s}
          /\ older' = {p \in older : p[1] \notin R /\ p[2] \notin R}
                        \union ((registered \ R) \X {s})
          /\ idle' = idle \ R
    BY <1>1 DEF Start
  <2>2. R \subseteq registered /\ s \notin R /\ s \notin registered
    BY <1>1, RetiredIsRegistered DEF Start
  <2>3. /\ state[s] = "absent" /\ exec' = [exec EXCEPT ![s] = "scheduled"]
        /\ dispatch = NoSession /\ UNCHANGED <<dispatch, closed>>
    BY <1>1 DEF Start, CanDispatch
  <2> QED
    BY <2>1, <2>2, <2>3 DEF StateAfterDispose, TablesAfterDispose, TokenAfterDispose,
       Disposable
<1>2. ASSUME NEW s \in Sessions, CancelDecide(s)
      PROVE  IndInv'
  BY <1>2 DEF CancelDecide, Touch, CanDispatch
<1>3. ASSUME NEW s \in Sessions, CancelApply(s)
      PROVE  IndInv'
  BY <1>3 DEF CancelApply
<1>4. ASSUME NEW s \in Sessions, Read(s)
      PROVE  IndInv'
  BY <1>4 DEF Read, Touch, CanDispatch
<1>5. ASSUME NEW s \in Sessions, Dispose(s)
      PROVE  IndInv'
  BY <1>5 DEF Dispose, Touch, CanDispatch, StateAfterDispose, TablesAfterDispose,
     TokenAfterDispose, Disposable
<1>6. ASSUME NEW s \in Sessions, GrowIdle(s)
      PROVE  IndInv'
  BY <1>6 DEF GrowIdle
<1>7. ASSUME NEW s \in Sessions, CleanupIdle(s)
      PROVE  IndInv'
  BY <1>7 DEF CleanupIdle, Removed, StateAfterDispose, TablesAfterDispose,
     TokenAfterDispose, Disposable
<1>8. ASSUME NEW s \in Sessions, ExecBegin(s)
      PROVE  IndInv'
  BY <1>8 DEF ExecBegin, TaskEnds
<1>9. ASSUME NEW s \in Sessions, QueryReturns(s)
      PROVE  IndInv'
  BY <1>9 DEF QueryReturns, CancelRequested
<1>10. ASSUME NEW s \in Sessions, QueryThrows(s)
      PROVE  IndInv'
  BY <1>10 DEF QueryThrows, TaskEnds, CancelRequested
<1>11. ASSUME NEW s \in Sessions, CommitDropped(s)
      PROVE  IndInv'
  BY <1>11 DEF CommitDropped, TaskEnds, CancelRequested
<1>12. ASSUME NEW s \in Sessions, CommitError(s)
      PROVE  IndInv'
  BY <1>12 DEF CommitError, TaskEnds, CancelRequested
<1>13. ASSUME NEW s \in Sessions, CommitTables(s)
      PROVE  IndInv'
  BY <1>13 DEF CommitTables, TaskEnds, CancelRequested
<1>14. ASSUME NEW s \in Sessions, CatchCancelled(s)
      PROVE  IndInv'
  BY <1>14 DEF CatchCancelled, TaskEnds
<1>15. ASSUME NEW s \in Sessions, RecordFailure(s)
      PROVE  IndInv'
  BY <1>15 DEF RecordFailure
<1>16. ASSUME Shutdown
      PROVE  IndInv'
  BY <1>16 DEF Shutdown, CanDispatch, Removed, StateAfterDispose, TablesAfterDispose,
     TokenAfterDispose, Disposable
<1>17. CASE UNCHANGED vars
  BY <1>17 DEF vars
<1> QED
  BY <1>1, <1>2, <1>3, <1>4, <1>5, <1>6, <1>7, <1>8, <1>9, <1>10, <1>11, <1>12, <1>13, <1>14, <1>15, <1>16, <1>17
     DEF Next, Handler, Execution, Commit

\* The invariant holds in every reachable state.
LEMMA IndInvAlways == Spec => []IndInv
  BY IndInvInit, IndInvNext, PTL DEF Spec

-----------------------------------------------------------------------------
(* The theorems *)

\* Every variable keeps its type.
THEOREM TypeCorrect == Spec => []TypeOK
  BY IndInvAlways, PTL DEF IndInv

\* A session that left the store is disposed: none is lost while it holds a
\* result or an execution that may still produce one.
THEOREM NoSessionIsLost == Spec => []NothingLiveIsLost
  BY IndInvAlways, PTL DEF IndInv

\* Tables produced by queries are held by one party or freed, on every path of
\* ExecuteAsync, RecordExecutionFailure and DisposeSession.
THEOREM NoTableIsLeaked == Spec => []TablesAccountedFor
  BY IndInvAlways, PTL DEF IndInv

\* No cancellation source is used after it was disposed by a running execution
\* or by CancelAsync.
THEOREM TokensOutliveTheirUsers == Spec => []TokenOutlivesItsUsers
  BY IndInvAlways, PTL DEF IndInv

\* A session that a client sees as queued or running has a task to settle it.
THEOREM ActiveSessionsHaveExecutions == Spec => []ActiveHasExecution
<1>1. IndInv => ActiveHasExecution
  BY DEF IndInv, StateFitsExecution, ActiveHasExecution, IsActive, Active, Terminal
<1> QED
  BY <1>1, IndInvAlways, PTL

\* The entries of the store never exceed the cap.
THEOREM CapIsRespected == Spec => []SessionLimit
<1>1. Init => SessionLimit
  BY FS_EmptySet, SessionsAssumption DEF Init, SessionLimit
<1>2. ASSUME IndInv, SessionLimit, [Next]_vars
      PROVE  SessionLimit'
  <2>1. /\ IsFiniteSet(registered) /\ Cardinality(registered) \in Nat
        /\ \A T \in SUBSET registered :
                IsFiniteSet(T) /\ Cardinality(T) \in Nat
                    /\ Cardinality(T) <= Cardinality(registered)
    BY <1>2, SessionsAssumption, FS_Subset, FS_CardinalityType DEF IndInv, TypeOK
  <2>2. CASE registered' \subseteq registered
    BY <1>2, <2>1, <2>2, SessionsAssumption DEF SessionLimit
  <2>3. ASSUME NEW s \in Sessions, Start(s)
        PROVE  SessionLimit'
    <3>1. PICK R \in Retired : registered' = (registered \ R) \union {s}
      BY <2>3 DEF Start
    <3>2. Cardinality(registered \ R) < MaxSessions
      <4>1. CASE R = idle /\ Cardinality(registered \ idle) < MaxSessions
        BY <4>1
      <4>2. ASSUME NEW v \in registered \ idle, R = idle \union {v}
            PROVE  Cardinality(registered \ R) < MaxSessions
        <5>1. /\ registered \ R \subseteq registered \ {v}
              /\ registered \ {v} \subseteq registered
          BY <4>2
        <5>2. Cardinality(registered \ {v}) = Cardinality(registered) - 1
          BY <2>1, <4>2, FS_RemoveElement
        <5>3. Cardinality(registered \ R) <= Cardinality(registered \ {v})
          BY <2>1, <5>1, FS_Subset
        <5>4. Cardinality(registered \ R) \in Nat
          BY <2>1, <5>1
        <5> QED
          BY <1>2, <2>1, <5>2, <5>3, <5>4, SessionsAssumption DEF SessionLimit
      <4> QED
        BY <1>2, <4>1, <4>2, RetiredIsRegistered DEF IndInv
    <3>3. IsFiniteSet(registered \ R) /\ Cardinality(registered \ R) \in Nat
      BY <2>1
    <3>4. Cardinality((registered \ R) \union {s}) =
            IF s \in registered \ R THEN Cardinality(registered \ R)
                                    ELSE Cardinality(registered \ R) + 1
      BY <3>3, FS_AddElement
    <3> QED
      BY <3>1, <3>2, <3>3, <3>4, SessionsAssumption DEF SessionLimit
  <2>4. CASE UNCHANGED vars
    BY <2>2, <2>4 DEF vars
  <2>5. ASSUME NEW s \in Sessions, CleanupIdle(s) \/ GrowIdle(s) \/ Execution(s)
        PROVE  registered' \subseteq registered
    BY <2>5 DEF CleanupIdle, Removed, GrowIdle, Execution, Commit, ExecBegin,
       QueryReturns, QueryThrows, CommitDropped, CommitError, CommitTables,
       CatchCancelled, RecordFailure
  <2>6. ASSUME NEW s \in Sessions,
               CancelDecide(s) \/ CancelApply(s) \/ Read(s) \/ Dispose(s)
        PROVE  registered' \subseteq registered
    BY <2>6 DEF CancelDecide, CancelApply, Read, Dispose
  <2>7. ASSUME Shutdown
        PROVE  registered' \subseteq registered
    BY <2>7 DEF Shutdown, Removed
  <2> QED
    BY <1>2, <2>2, <2>3, <2>4, <2>5, <2>6, <2>7 DEF Next, Handler
<1> QED
  BY <1>1, <1>2, IndInvAlways, PTL DEF Spec

\* Executions that end late, and failures recorded late, change neither a
\* settled session nor a disposed one.
THEOREM OutcomesAreFinal == Spec => OutcomeIsFinal
<1>1. ASSUME IndInv, [Next]_vars, NEW s \in Sessions
      PROVE  /\ state[s] = "disposed" => state'[s] = "disposed"
             /\ state[s] \in Terminal => state'[s] \in {state[s], "disposed"}
  <2> USE DEF IndInv, TypeOK, StateFitsExecution, Terminal
  <2>1. CASE UNCHANGED vars
    BY <1>1, <2>1 DEF vars
  <2>2. CASE Shutdown
    BY <1>1, <2>2 DEF Shutdown, StateAfterDispose, Disposable
  <2>3. ASSUME NEW t \in Sessions, Handler(t) \/ GrowIdle(t) \/ CleanupIdle(t)
        PROVE  /\ state[s] = "disposed" => state'[s] = "disposed"
               /\ state[s] \in Terminal => state'[s] \in {state[s], "disposed"}
    BY <1>1, <2>3 DEF Handler, Start, CancelDecide, CancelApply, Read, Dispose, GrowIdle,
       CleanupIdle, StateAfterDispose, Disposable
  <2>4. ASSUME NEW t \in Sessions, Execution(t)
        PROVE  /\ state[s] = "disposed" => state'[s] = "disposed"
               /\ state[s] \in Terminal => state'[s] \in {state[s], "disposed"}
    BY <1>1, <2>4 DEF Execution, Commit, ExecBegin, QueryReturns, QueryThrows,
       CommitDropped, CommitError, CommitTables, CatchCancelled, RecordFailure
  <2> QED
    BY <1>1, <2>1, <2>2, <2>3, <2>4 DEF Next
<1>2. IndInv /\ [Next]_vars =>
        [\A s \in Sessions :
            /\ state[s] = "disposed" => state'[s] = "disposed"
            /\ state[s] \in Terminal => state'[s] \in {state[s], "disposed"}]_vars
  BY <1>1
<1> QED
  BY <1>2, IndInvAlways, PTL DEF Spec, OutcomeIsFinal

\* A session whose token was cancelled before its result was adopted never
\* becomes readable.
THEOREM CancelledSessionsNeverComplete == Spec => CancelledNeverCompletes
<1>1. ASSUME IndInv, [Next]_vars, NEW s \in Sessions,
             CancelRequested(s), state'[s] = "completed"
      PROVE  state[s] = "completed"
  <2> USE <1>1 DEF IndInv, TypeOK, CancelRequested
  <2>1. CASE UNCHANGED vars
    BY <2>1 DEF vars
  <2>2. CASE Shutdown
    BY <2>2 DEF Shutdown, StateAfterDispose, Disposable
  <2>3. ASSUME NEW t \in Sessions, Handler(t) \/ GrowIdle(t) \/ CleanupIdle(t)
        PROVE  state[s] = "completed"
    BY <2>3 DEF Handler, Start, CancelDecide, CancelApply, Read, Dispose, GrowIdle,
       CleanupIdle, StateAfterDispose, Disposable
  <2>4. ASSUME NEW t \in Sessions, Execution(t)
        PROVE  state[s] = "completed"
    BY <2>4 DEF Execution, Commit, ExecBegin, QueryReturns, QueryThrows,
       CommitDropped, CommitError, CommitTables, CatchCancelled, RecordFailure
  <2> QED
    BY <2>1, <2>2, <2>3, <2>4 DEF Next
<1>2. IndInv /\ [Next]_vars =>
        [\A s \in Sessions :
            CancelRequested(s) /\ state'[s] = "completed" => state[s] = "completed"]_vars
  BY <1>1
<1> QED
  BY <1>2, IndInvAlways, PTL DEF Spec, CancelledNeverCompletes

=============================================================================
