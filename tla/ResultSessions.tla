--------------------------- MODULE ResultSessions ---------------------------
(***************************************************************************)
(* The result-session store of the language server (ResultSessionManager): *)
(* query results are kept in server memory as sessions, each filled by an  *)
(* execution task of its own, cancelled by operation, disposed by request, *)
(* by the idle timer, by eviction when the store is full and at shutdown.  *)
(*                                                                         *)
(* Concurrency.  The synchronous parts of RPC handlers run one at a time;  *)
(* execution tasks and the cleanup timer run on pool threads and           *)
(* interleave with them.  One action is one section under                  *)
(* session.SyncRoot together with the unlocked code no other thread can    *)
(* tell from it.  CancelAsync decides under the lock and cancels after     *)
(* releasing it: `dispatch' is the session whose cancellation is pending.  *)
(***************************************************************************)
EXTENDS FiniteSets, Integers

CONSTANTS
    Sessions,       \* the session ids (GUIDs): each is used by one StartAsync
    MaxSessions,    \* _maximumSessions (64)
    NoSession       \* no handler is between its lock and its Cancel()

ASSUME SessionsAssumption ==
    /\ IsFiniteSet(Sessions)
    /\ NoSession \notin Sessions
    /\ MaxSessions \in Nat \ {0}

VARIABLES
    state,          \* Session.State; "absent" before StartAsync
    exec,           \* where the session's execution task is
    tables,         \* the tables its query produced, and who holds them
    token,          \* Session.Cancellation: live, cancelled, then disposed
    registered,     \* the keys of _sessions
    older,          \* <<s, t>>: registered s was last accessed before t
    idle,           \* registered sessions with LastAccess <= now - idleTimeout
    dispatch,       \* the session a CancelAsync call has yet to cancel
    closed          \* _disposed

vars == <<state, exec, tables, token, registered, older, idle, dispatch, closed>>

Active == {"queued", "running", "materializing"}
Terminal == {"completed", "failed", "cancelled"}
States == {"absent", "disposed"} \union Active \union Terminal

\* scheduled: Task.Run was called; querying: RunQueryAsync is awaited;
\* answered and refused: it returned tables or an error and the cancellation
\* check that follows passed; cancelling: an OperationCanceledException is on
\* its way to the catch block; faulted: the task ended with another exception
\* and its OnlyOnFaulted continuation is due; done: nothing is left to run.
ExecPhases == {"none", "scheduled", "querying", "answered", "refused",
               "cancelling", "faulted", "done"}

\* inflight: held by the execution task only; owned: Session.OwnedTables.
TableStates == {"none", "inflight", "owned", "freed"}

TypeOK ==
    /\ state \in [Sessions -> States]
    /\ exec \in [Sessions -> ExecPhases]
    /\ tables \in [Sessions -> TableStates]
    /\ token \in [Sessions -> {"live", "cancelled", "disposed"}]
    /\ registered \subseteq Sessions
    /\ older \subseteq Sessions \X Sessions
    /\ idle \subseteq registered
    /\ dispatch \in Sessions \union {NoSession}
    /\ closed \in BOOLEAN

Init ==
    /\ state = [s \in Sessions |-> "absent"]
    /\ exec = [s \in Sessions |-> "none"]
    /\ tables = [s \in Sessions |-> "none"]
    /\ token = [s \in Sessions |-> "live"]
    /\ registered = {}
    /\ older = {}
    /\ idle = {}
    /\ dispatch = NoSession
    /\ closed = FALSE

-----------------------------------------------------------------------------
(* Helpers *)

IsActive(s) == state[s] \in Active

\* session.Cancellation.IsCancellationRequested; it survives Dispose().
CancelRequested(s) == token[s] # "live"

\* ExecutionTask.IsCompleted, or a session whose task was never started.
TaskOver(s) == exec[s] \in {"none", "faulted", "done"}

\* A handler may start: the previous one has returned, the manager is open.
CanDispatch == dispatch = NoSession /\ ~closed

\* Session.Touch(): s becomes the most recently accessed registered session.
Touch(s) ==
    /\ older' = IF s \in registered
                THEN {p \in older : p[1] # s} \union ((registered \ {s}) \X {s})
                ELSE older
    /\ idle' = idle \ {s}

\* DisposeSession for the sessions in D that are not disposed yet.  Cancel()
\* follows the locked part in the same call; a source whose task is still
\* running is disposed by a continuation of that task instead.
Disposable(D) == {s \in D : state[s] # "disposed"}

StateAfterDispose(D) ==
    [s \in Sessions |-> IF s \in Disposable(D) THEN "disposed" ELSE state[s]]

TablesAfterDispose(D) ==
    [s \in Sessions |->
        IF s \in Disposable(D) /\ tables[s] = "owned" THEN "freed" ELSE tables[s]]

\* Fault: the source is disposed without waiting for the task that reads it.
TokenAfterDisposeAtOnce(D) ==
    [s \in Sessions |-> IF s \in Disposable(D) THEN "disposed" ELSE token[s]]

TokenAfterDispose(D) ==
    [s \in Sessions |->
        IF s \notin Disposable(D) THEN token[s]
        ELSE IF TaskOver(s) THEN "disposed" ELSE "cancelled"]

\* Fault: no continuation disposes the source when the task ends.
TaskEndsOnly(s, phase) ==
    /\ exec' = [exec EXCEPT ![s] = phase]
    /\ UNCHANGED token

\* The task of s ends; a disposed session's cancellation source goes with it.
TaskEnds(s, phase) ==
    /\ exec' = [exec EXCEPT ![s] = phase]
    /\ token' = [token EXCEPT ![s] = IF state'[s] = "disposed" THEN "disposed" ELSE @]

\* Fault: a removed session is left on the idle list.
RemovedButIdle(R) ==
    /\ registered' = registered \ R
    /\ older' = {p \in older : p[1] \notin R /\ p[2] \notin R}
    /\ UNCHANGED idle

\* _sessions.TryRemove for every session in R.
Removed(R) ==
    /\ registered' = registered \ R
    /\ older' = {p \in older : p[1] \notin R /\ p[2] \notin R}
    /\ idle' = idle \ R

-----------------------------------------------------------------------------
(* RPC handlers *)

\* Fault: room is made when the store is over its limit, not when it is full.
RetiredLate ==
    IF Cardinality(registered \ idle) <= MaxSessions
    THEN {idle}
    ELSE {idle \union {s} : s \in {t \in registered \ idle : ~IsActive(t)}}

\* EnforceSessionLimit: the sessions that StartAsync removes before it adds
\* its own.  CleanupIdleSessions removes every idle one; if the store is still
\* full, the least recently accessed session that is not active goes too.
\* There is none of these sets when the store is full of active sessions.
Retired ==
    LET kept == registered \ idle
        evictable == {s \in kept : ~IsActive(s)}
    IN  IF Cardinality(kept) < MaxSessions
        THEN {idle}
        ELSE {idle \union {s} : s \in
                {s \in evictable : \A t \in evictable : <<t, s>> \notin older}}

\* StartAsync: the session is added under _sessionGate and its execution task
\* is started.  With no session to retire StartAsync throws and adds nothing.
Start(s) ==
    /\ CanDispatch
    /\ state[s] = "absent"
    /\ \E R \in Retired :
        /\ state' = [StateAfterDispose(R) EXCEPT ![s] = "queued"]
        /\ tables' = TablesAfterDispose(R)
        /\ token' = TokenAfterDispose(R)
        /\ registered' = (registered \ R) \union {s}
        /\ older' = {p \in older : p[1] \notin R /\ p[2] \notin R}
                        \union ((registered \ R) \X {s})
        /\ idle' = idle \ R
    /\ exec' = [exec EXCEPT ![s] = "scheduled"]
    /\ UNCHANGED <<dispatch, closed>>

\* CancelAsync up to the release of the lock: the decision to accept.
CancelDecide(s) ==
    /\ CanDispatch
    /\ s \in registered
    /\ Touch(s)
    /\ dispatch' = IF IsActive(s) THEN s ELSE NoSession
    /\ UNCHANGED <<state, exec, tables, token, registered, closed>>

\* Fault: the accepted cancellation is never passed on.
CancelApplyNothing(s) ==
    /\ dispatch = s
    /\ dispatch' = NoSession
    /\ UNCHANGED <<state, exec, tables, token, registered, older, idle, closed>>

\* session.Cancellation.Cancel(), after the lock was released.
CancelApply(s) ==
    /\ dispatch = s
    /\ token' = [token EXCEPT ![s] = IF @ = "live" THEN "cancelled" ELSE @]
    /\ dispatch' = NoSession
    /\ UNCHANGED <<state, exec, tables, registered, older, idle, closed>>

\* The handlers that only read a session: status, page, projection,
\* continuation and enrichment.  Each of them renews the access time.
Read(s) ==
    /\ CanDispatch
    /\ s \in registered
    /\ Touch(s)
    /\ UNCHANGED <<state, exec, tables, token, registered, dispatch, closed>>

\* DisposeAsync.  The session stays in _sessions as a disposed entry; only
\* the first call renews its access time.
Dispose(s) ==
    /\ CanDispatch
    /\ s \in registered
    /\ state[s] # "disposed"
    /\ state' = StateAfterDispose({s})
    /\ tables' = TablesAfterDispose({s})
    /\ token' = TokenAfterDispose({s})
    /\ Touch(s)
    /\ UNCHANGED <<exec, registered, dispatch, closed>>

\* Dispose() of the manager, on the shutdown and exit notifications.
Shutdown ==
    /\ CanDispatch
    /\ closed' = TRUE
    /\ state' = StateAfterDispose(registered)
    /\ tables' = TablesAfterDispose(registered)
    /\ token' = TokenAfterDispose(registered)
    /\ Removed(registered)
    /\ UNCHANGED <<exec, dispatch>>

-----------------------------------------------------------------------------
(* The idle timer *)

\* Time passes until s has not been accessed for the idle timeout.  Sessions
\* grow idle in access order, and never while a handler is working on them:
\* a handler takes microseconds, the timeout is half an hour.
GrowIdle(s) ==
    /\ s \in registered \ idle
    /\ dispatch # s
    /\ \A t \in registered : <<t, s>> \in older => t \in idle
    /\ idle' = idle \union {s}
    /\ UNCHANGED <<state, exec, tables, token, registered, older, dispatch, closed>>

\* The timer's CleanupIdleSessions reaches an idle session, active or not.
CleanupIdle(s) ==
    /\ ~closed
    /\ s \in idle
    /\ state' = StateAfterDispose({s})
    /\ tables' = TablesAfterDispose({s})
    /\ token' = TokenAfterDispose({s})
    /\ Removed({s})
    /\ UNCHANGED <<exec, dispatch, closed>>

-----------------------------------------------------------------------------
(* The execution task: ExecuteAsync *)

\* Fault: a session disposed while queued is run all the same.
ExecBeginAnyway(s) ==
    /\ exec[s] = "scheduled"
    /\ state' = [state EXCEPT ![s] = "running"]
    /\ exec' = [exec EXCEPT ![s] = "querying"]
    /\ UNCHANGED <<tables, token, registered, older, idle, dispatch, closed>>

\* The first locked section; a session disposed while queued is left alone.
ExecBegin(s) ==
    /\ exec[s] = "scheduled"
    /\ IF state[s] = "disposed"
       THEN /\ UNCHANGED state
            /\ TaskEnds(s, "done")
       ELSE /\ state' = [state EXCEPT ![s] = "running"]
            /\ exec' = [exec EXCEPT ![s] = "querying"]
            /\ UNCHANGED token
    /\ UNCHANGED <<tables, registered, older, idle, dispatch, closed>>

\* RunQueryAsync returns with tables or with an error, and the cancellation
\* check before the lock is made.
QueryReturns(s) ==
    /\ exec[s] = "querying"
    /\ \E reply \in {"answered", "refused"} :
        /\ exec' = [exec EXCEPT ![s] = IF CancelRequested(s) THEN "cancelling" ELSE reply]
        /\ tables' = [tables EXCEPT ![s] =
                        IF reply = "refused" THEN @
                        ELSE IF CancelRequested(s) THEN "freed" ELSE "inflight"]
    /\ UNCHANGED <<state, token, registered, older, idle, dispatch, closed>>

\* RunQueryAsync throws: the cancellation it was asked for, or anything else.
QueryThrows(s) ==
    /\ exec[s] = "querying"
    /\ UNCHANGED state
    /\ \/ /\ CancelRequested(s)
          /\ exec' = [exec EXCEPT ![s] = "cancelling"]
          /\ UNCHANGED token
       \/ TaskEnds(s, "faulted")
    /\ UNCHANGED <<tables, registered, older, idle, dispatch, closed>>

\* Fault: the tables of a dropped result are not disposed.
CommitDroppedLeaks(s) ==
    /\ exec[s] \in {"answered", "refused"}
    /\ state[s] = "disposed" \/ CancelRequested(s)
    /\ UNCHANGED <<state, tables>>
    /\ IF state[s] = "disposed"
       THEN TaskEnds(s, "done")
       ELSE /\ exec' = [exec EXCEPT ![s] = "cancelling"]
            /\ UNCHANGED token
    /\ UNCHANGED <<registered, older, idle, dispatch, closed>>

\* The second locked section: the result is dropped if the session was
\* disposed or cancelled meanwhile, an error is recorded, tables are adopted.
CommitDropped(s) ==
    /\ exec[s] \in {"answered", "refused"}
    /\ state[s] = "disposed" \/ CancelRequested(s)
    /\ tables' = [tables EXCEPT ![s] = IF @ = "inflight" THEN "freed" ELSE @]
    /\ UNCHANGED state
    /\ IF state[s] = "disposed"
       THEN TaskEnds(s, "done")
       ELSE /\ exec' = [exec EXCEPT ![s] = "cancelling"]
            /\ UNCHANGED token
    /\ UNCHANGED <<registered, older, idle, dispatch, closed>>

CommitError(s) ==
    /\ exec[s] = "refused"
    /\ state[s] # "disposed" /\ ~CancelRequested(s)
    /\ state' = [state EXCEPT ![s] = "failed"]
    /\ TaskEnds(s, "done")
    /\ UNCHANGED <<tables, registered, older, idle, dispatch, closed>>

\* Fault: the token is not looked at again under the lock.
CommitTablesLate(s) ==
    /\ exec[s] = "answered"
    /\ state[s] # "disposed"
    /\ tables' = [tables EXCEPT ![s] = "owned"]
    /\ state' = [state EXCEPT ![s] = "completed"]
    /\ TaskEnds(s, "done")
    /\ UNCHANGED <<registered, older, idle, dispatch, closed>>

\* Building the session tables may throw after OwnedTables was assigned.
CommitTables(s) ==
    /\ exec[s] = "answered"
    /\ state[s] # "disposed" /\ ~CancelRequested(s)
    /\ tables' = [tables EXCEPT ![s] = "owned"]
    /\ \/ /\ state' = [state EXCEPT ![s] = "completed"]
          /\ TaskEnds(s, "done")
       \/ /\ state' = [state EXCEPT ![s] = "materializing"]
          /\ TaskEnds(s, "faulted")
    /\ UNCHANGED <<registered, older, idle, dispatch, closed>>

\* The catch block for OperationCanceledException.
CatchCancelled(s) ==
    /\ exec[s] = "cancelling"
    /\ state' = [state EXCEPT ![s] = IF @ = "disposed" THEN @ ELSE "cancelled"]
    /\ TaskEnds(s, "done")
    /\ UNCHANGED <<tables, registered, older, idle, dispatch, closed>>

\* Fault: the failure is recorded without asking whether the session is disposed.
RecordFailureAnyway(s) ==
    /\ exec[s] = "faulted"
    /\ exec' = [exec EXCEPT ![s] = "done"]
    /\ state' = [state EXCEPT ![s] = "failed"]
    /\ tables' = [tables EXCEPT ![s] = IF @ = "owned" THEN "freed" ELSE @]
    /\ UNCHANGED <<token, registered, older, idle, dispatch, closed>>

\* The continuation of a faulted task.
RecordFailure(s) ==
    /\ exec[s] = "faulted"
    /\ exec' = [exec EXCEPT ![s] = "done"]
    /\ IF state[s] = "disposed"
       THEN UNCHANGED <<state, tables>>
       ELSE /\ state' = [state EXCEPT ![s] = "failed"]
            /\ tables' = [tables EXCEPT ![s] = IF @ = "owned" THEN "freed" ELSE @]
    /\ UNCHANGED <<token, registered, older, idle, dispatch, closed>>

-----------------------------------------------------------------------------
Handler(s) == Start(s) \/ CancelDecide(s) \/ CancelApply(s) \/ Read(s) \/ Dispose(s)

Commit(s) == CommitDropped(s) \/ CommitError(s) \/ CommitTables(s)

Execution(s) ==
    \/ ExecBegin(s) \/ QueryReturns(s) \/ QueryThrows(s)
    \/ Commit(s) \/ CatchCancelled(s) \/ RecordFailure(s)

Next ==
    \/ Shutdown
    \/ \E s \in Sessions :
        Handler(s) \/ GrowIdle(s) \/ CleanupIdle(s) \/ Execution(s)

Spec == Init /\ [][Next]_vars

\* The pool runs every task, the timer keeps firing, a handler finishes its
\* own call, and a query whose token is cancelled returns or throws.  Nothing
\* is assumed of a query that nobody cancels, nor of the clients.
Fairness ==
    \A s \in Sessions :
        /\ WF_vars(CancelApply(s))
        /\ WF_vars(CleanupIdle(s))
        /\ WF_vars(ExecBegin(s))
        /\ WF_vars(CancelRequested(s) /\ (QueryReturns(s) \/ QueryThrows(s)))
        /\ WF_vars(Commit(s))
        /\ WF_vars(CatchCancelled(s))
        /\ WF_vars(RecordFailure(s))

LiveSpec == Spec /\ Fairness

-----------------------------------------------------------------------------
(* Safety *)

\* The cap: StartAsync never leaves more than _maximumSessions entries, counting
\* disposed ones, however its evictions interleave with executions and timers.
SessionLimit == Cardinality(registered) <= MaxSessions

\* No session is lost while it still holds or may yet acquire a result: one
\* that left _sessions is disposed, so shutdown and the timer miss nothing.
NothingLiveIsLost ==
    \A s \in Sessions : s \notin registered => state[s] \in {"absent", "disposed"}

\* Every table a query produced has exactly one holder, and none is forgotten:
\* a session owns tables just while a client may read them (or while its
\* failure is being recorded), a task holds some only until it commits.
TablesAccountedFor ==
    \A s \in Sessions :
        /\ state[s] = "completed" => tables[s] = "owned"
        /\ tables[s] = "owned" => state[s] \in {"completed", "materializing"}
        /\ tables[s] = "inflight" => exec[s] = "answered"

\* An active session always has a task, or the continuation of one, that will
\* settle it: a client that polls its status is never left polling for nothing.
ActiveHasExecution ==
    \A s \in Sessions : IsActive(s) => exec[s] \notin {"none", "done"}

\* A cancellation source is disposed only after the last use of its token: the
\* running task still reads it, and CancelAsync may be about to cancel it.
TokenOutlivesItsUsers ==
    \A s \in Sessions :
        ~TaskOver(s) \/ dispatch = s => token[s] # "disposed"

\* The outcome of a session is final: executions that end late, and failures
\* recorded late, change neither a settled session nor a disposed one.
OutcomeIsFinal ==
    [][\A s \in Sessions :
        /\ state[s] = "disposed" => state'[s] = "disposed"
        /\ state[s] \in Terminal => state'[s] \in {state[s], "disposed"}]_vars

\* A session whose token was cancelled before its result was adopted never
\* becomes readable, whatever its query returned.
CancelledNeverCompletes ==
    [][\A s \in Sessions :
        CancelRequested(s) /\ state'[s] = "completed" => state[s] = "completed"]_vars

-----------------------------------------------------------------------------
(* Liveness *)

\* An accepted cancellation settles the session, also when the execution
\* completed between the decision and Cancel().
AcceptedCancelSettles ==
    \A s \in Sessions : dispatch = s ~> ~IsActive(s)

\* The cancellation source of a disposed session is eventually released, though
\* its execution may have to be waited for.
DisposedReleasesToken ==
    \A s \in Sessions : state[s] = "disposed" ~> token[s] = "disposed"

\* An idle session is removed by the timer unless someone accesses it again.
IdleExpires ==
    \A s \in Sessions : s \in idle ~> s \notin idle

=============================================================================
