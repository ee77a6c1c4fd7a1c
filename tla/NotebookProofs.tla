--------------------------- MODULE NotebookProofs ---------------------------
(***************************************************************************)
(* Proofs about NotebookSessions, ResultGrid and NotebookCommands, for any *)
(* sets of sessions, cells and views, and any bounds.                      *)
(***************************************************************************)
EXTENDS NotebookSessions, ResultGrid, NotebookCommands, SequenceLemmas

(***************************************************************************)
(* The sessions of a notebook.                                             *)
(***************************************************************************)


\* The run works on a cell, with a session from its start to its end.
RunFits ==
    /\ pc # "idle" => cell \in Cells
    /\ session # NoSession <=>
        pc \in {"polling", "connecting", "emptying", "showing", "shown"}

\* Sessions in use were handed out by the server, and the session of the run
\* is adopted by no cell yet.
SessionsAreDistinct ==
    /\ \A c \in Cells : sessionOf[c] # NoSession => phase[sessionOf[c]] # "absent"
    /\ session # NoSession =>
        phase[session] # "absent" /\ \A c \in Cells : sessionOf[c] # session

\* While the output of a cell is replaced, its pending session and its grid go
\* together, unless the user clears the cell.
ReplacementFits ==
    cell \in present \ overtaken =>
        /\ pc = "showing" => pendingOf[cell] = session
        /\ pc = "shown" =>
            \/ pendingOf[cell] = session /\ shown[cell] = session
            \/ /\ pendingOf[cell] = NoSession /\ shown[cell] = NoSession
               /\ sessionOf[cell] = NoSession

NbInv ==
    /\ NbTypeOK
    /\ RunFits
    /\ SessionsAreDistinct
    /\ ReplacementFits
    /\ NoSessionIsOrphaned
    /\ PendingOnlyWhileShowing
    /\ ShownIsHeld

-----------------------------------------------------------------------------

LEMMA NbInvInit == NbInit => NbInv
  BY NotebookAssumption DEF NbInit, NbInv, NbTypeOK, RunFits, SessionsAreDistinct,
     ReplacementFits, NoSessionIsOrphaned, PendingOnlyWhileShowing, ShownIsHeld,
     SessionOrNone, RunPhases, HeldBy

\* The invariant is inductive.
LEMMA NbInvNext == NbInv /\ [NbNext]_nbVars => NbInv'
<1> SUFFICES ASSUME NbInv, [NbNext]_nbVars
             PROVE  NbInv'
  OBVIOUS
<1> USE NotebookAssumption
    DEF NbInv, NbTypeOK, RunFits, SessionsAreDistinct, ReplacementFits,
        NoSessionIsOrphaned, PendingOnlyWhileShowing, ShownIsHeld, SessionOrNone,
        RunPhases, HeldBy
<1>1. CASE ServerActs
  BY <1>1 DEF ServerActs, Server!Settle, Server!Withdraw, Server!WithdrawnFrom, runVars
<1>2. ASSUME NEW s \in Sessions, Disposed(s)
      PROVE  NbInv'
  BY <1>2 DEF Disposed, Server!Withdraw, Server!WithdrawnFrom, runVars
<1>3. ASSUME NEW c \in Cells, Begin(c)
      PROVE  NbInv'
  BY <1>3, ZenonT(40) DEF Begin
<1>4. CASE ShowBlank
  BY <1>4 DEF ShowBlank, SetOutput, Release, EndAfter, Without
<1>5. CASE StartReturns
  BY <1>5 DEF StartReturns, Server!Open, Server!WithdrawnFrom
<1>6. CASE StartFails
  BY <1>6 DEF StartFails, EndAfter
<1>7. CASE PollEnds
  BY <1>7 DEF PollEnds, Continue, Abandon, EndAfter, Purged
<1>8. CASE Connected
  BY <1>8 DEF Connected, Continue, Abandon, EndAfter, Purged
<1>9. CASE ShowEmpty
  BY <1>9 DEF ShowEmpty, SetOutput, EndAfter, Purged, Without
<1>10. CASE ShowGrid
  BY <1>10 DEF ShowGrid, SetOutput, Continue
<1>11. CASE ShowFails
  BY <1>11 DEF ShowFails, Abandon, EndAfter, Purged
<1>12. CASE Adopt
  BY <1>12 DEF Adopt, Abandon, EndAfter, Purged
<1>13. CASE End
  BY <1>13 DEF End
<1>14. CASE Interrupt
  BY <1>14 DEF Interrupt
<1>15. ASSUME NEW C \in SUBSET Cells, Delete(C)
       PROVE  NbInv'
  BY <1>15 DEF Delete, Release, Without, runVars
<1>16. ASSUME NEW c \in Cells, Clear(c)
       PROVE  NbInv'
  BY <1>16 DEF Clear, Release, Without, runVars
<1>17. CASE Close
  BY <1>17 DEF Close, Release, Without, runVars
<1>18. CASE UNCHANGED nbVars
  BY <1>18 DEF nbVars, runVars
<1> QED
  BY <1>1, <1>2, <1>3, <1>4, <1>5, <1>6, <1>7, <1>8, <1>9, <1>10, <1>11, <1>12, <1>13,
     <1>14, <1>15, <1>16, <1>17, <1>18 DEF NbNext, ExecuteCell, User

\* The invariant holds in every reachable state.
LEMMA NbInvAlways == NbSpec => []NbInv
  BY NbInvInit, NbInvNext, PTL DEF NbSpec

-----------------------------------------------------------------------------
(* The theorems *)

\* Every variable keeps its type.
THEOREM NbTypeCorrect == NbSpec => []NbTypeOK
<1>1. NbInv => NbTypeOK
  BY DEF NbInv
<1> QED
  BY <1>1, NbInvAlways, PTL

\* The client never loses track of a session, whatever is deleted, cleared,
\* closed or interrupted between the awaits of executeCell and runQuery.
THEOREM NoSessionLeaksUnseen == NbSpec => []NoSessionIsOrphaned
<1>1. NbInv => NoSessionIsOrphaned
  BY DEF NbInv
<1> QED
  BY <1>1, NbInvAlways, PTL

\* prepareSession never finds a session pending for the cell.
THEOREM PrepareIsNeverRefused == NbSpec => []PendingOnlyWhileShowing
<1>1. NbInv => PendingOnlyWhileShowing
  BY DEF NbInv
<1> QED
  BY <1>1, NbInvAlways, PTL

\* The grid of a cell shows the session the cell holds: runs that fail keep the
\* previous one, runs that succeed let go of it only when the new one is shown.
THEOREM ShownResultsAreHeld == NbSpec => []ShownIsHeld
<1>1. NbInv => ShownIsHeld
  BY DEF NbInv
<1> QED
  BY <1>1, NbInvAlways, PTL

\* The notebook meets the server only through the server's promise: its steps
\* are steps of ResultService, which the store is proved to implement.
THEOREM NotebookReliesOnPromise == NbSpec => Server!SSpec
<1>1. NbInit => Server!SInit
  BY DEF NbInit, Server!SInit
<1>2. [NbNext]_nbVars => [Server!SNext]_Server!svars
  <2> SUFFICES ASSUME NbNext
               PROVE  Server!SNext \/ UNCHANGED phase
    BY DEF nbVars, Server!svars
  <2>1. CASE ServerActs
    <3>1. CASE \E s \in Sessions : Server!Settle(s)
      BY <3>1 DEF Server!SNext
    <3>2. ASSUME NEW s \in Sessions, phase[s] # "absent", Server!Withdraw({s})
          PROVE  Server!SNext
      BY <3>2 DEF Server!SNext
    <3> QED
      BY <2>1, <3>1, <3>2 DEF ServerActs
  <2>2. ASSUME NEW s \in Sessions, Disposed(s)
        PROVE  Server!SNext
    <3>1. phase[s] # "absent" /\ Server!Withdraw({s})
      BY <2>2 DEF Disposed, Server!Withdraw
    <3> QED
      BY <3>1 DEF Server!SNext
  <2>3. CASE StartReturns
    <3>1. PICK s \in Sessions, D \in SUBSET Sessions :
            (\A t \in D : phase[t] # "absent") /\ Server!Open(s, D)
      BY <2>3 DEF StartReturns
    <3> QED
      BY <3>1 DEF Server!SNext
  <2>4. CASE ExecuteCell /\ ~StartReturns
    BY <2>4 DEF ExecuteCell, ShowBlank, StartFails, PollEnds, Connected, ShowEmpty,
       ShowGrid, ShowFails, Adopt, End
  <2>5. CASE User
    BY <2>5 DEF User, Interrupt, Close, Begin, Clear, Delete
  <2> QED
    BY <2>1, <2>2, <2>3, <2>4, <2>5 DEF NbNext
<1> QED
  BY <1>1, <1>2, PTL DEF NbSpec, Server!SSpec

-----------------------------------------------------------------------------
(***************************************************************************)
(* The grid, for any views, numbers of acts and of renderings.             *)
(***************************************************************************)

PendingView == [id: Nat, revision: Nat, view: Views, cancelled: BOOLEAN]
PageRequest == [id: Nat, revision: Nat]

GridState ==
    [number: Nat, revision: Nat, next: Nat, applied: Views, draft: Views,
     pending: PendingView, queued: BOOLEAN, timer: BOOLEAN, retries: 0 .. MaxRetries,
     page: Nat \union {NoPage}, awaited: Nat, requests: SUBSET PageRequest,
     drawn: Nat \union {NoPage}, missed: BOOLEAN]

\* The messages, replies and calls there may be.
ToHost == [type: {"page", "setView", "cancelView"}, id: Nat \ {0}, view: Views, revision: Nat]
StatusReply == [rev: Nat, ready: Nat \union {-1}]
ToGrid == [type: Replies, id: Nat \ {0}, revision: Nat, at: StatusReply]
Phases == Replies \union {"outdated", "evaluating", "rejected", "refused", "cancelled", "answered", "recovering"}
HostCall == [id: Nat \ {0}, revision: Nat, phase: Phases, at: StatusReply,
             render: Nat, listed: BOOLEAN, cancelled: BOOLEAN]

\* What an operation of the grid returns.
GridOp == [t: GridState, sent: Seq(ToHost)]

\* A change of view waits for the one under way, and only for it; an edit that is
\* still debounced waits for none.
PendingFits(t) ==
    /\ t.pending.id <= t.number
    /\ t.pending.id = 0 <=> t.pending = NoView
    /\ t.timer => t.pending.id = 0
QueueFits(t) == PendingFits(t) /\ (t.queued => t.pending.id # 0)

\* The server numbers its views, and a status it reported is one it had.
ServerFits(rv, rd, st, vo) ==
    /\ rv \in Nat /\ rd \in 0 .. rv /\ vo \in Seq(Views) /\ Len(vo) = rv
    /\ st = "ready" => rd = rv
StatusFits(at, rd) == at # NoStatus => at.ready \in 0 .. rd

GridShape ==
    /\ ServerFits(rev, ready, status, viewOf)
    /\ grid \in GridState /\ QueueFits(grid) /\ renders \in Nat
    /\ outbox \in Seq(ToHost)
    /\ inbox \in Seq(ToGrid) /\ \A i \in 1 .. Len(inbox) : StatusFits(inbox[i].at, ready)
    /\ gridCalls \subseteq HostCall /\ \A c \in gridCalls : StatusFits(c.at, ready)

\* The screen shows one revision the server had ready, under its view.
ViewIn(vo, r) == IF r = 0 THEN AllRows ELSE vo[r]
ScreenFits(t, rv, rd, vo) ==
    /\ t.revision \in 0 .. rd
    /\ t.applied = ViewIn(vo, t.revision)
    /\ t.page \in {NoPage, t.revision}
    /\ \A q \in t.requests : q.id \in 1 .. t.number /\ q.revision \in 0 .. rv
    /\ t.awaited \in {0} \union {q.id : q \in t.requests}
Current(t) == t.missed \/ t.drawn \in {NoPage, t.revision}

\* Whatever carries the number of the pending view is about that view: the
\* message that asks for it, the call that waits for it and the reply.
Asks(t, m) ==
    m.type = "setView" /\ m.id = t.pending.id =>
        m.revision = t.pending.revision /\ m.view = t.pending.view
Accepted(t, r, rv, vo) ==
    r = t.pending.revision /\ r \in 1 .. rv /\ vo[r] = t.pending.view
OutboxFits(t, ob) == \A i \in 1 .. Len(ob) : ob[i].id <= t.number /\ Asks(t, ob[i])
InboxFits(t, ib, rv, rd, vo) ==
    \A i \in 1 .. Len(ib) :
        /\ ib[i].id <= t.number
        /\ ib[i].id = t.pending.id /\ ib[i].type = "viewReady" =>
            Accepted(t, ib[i].revision, rv, vo) /\ ib[i].revision <= rd
CallFits(t, c, rv, rd, vo) ==
    /\ c.id <= t.number
    /\ c.id = t.pending.id =>
        /\ c.phase \in {"evaluating", "answered", "viewReady"} => Accepted(t, c.revision, rv, vo)
        /\ c.phase = "viewReady" => c.revision <= rd

\* The first rendering starts with nothing under way.
Untouched ==
    renders = 0 => grid = Fresh /\ outbox = <<>> /\ inbox = <<>> /\ gridCalls = {}

GridTrue ==
    /\ GridShape /\ Untouched
    /\ ScreenFits(grid, rev, ready, viewOf) /\ Current(grid)
    /\ OutboxFits(grid, outbox)
    /\ InboxFits(grid, inbox, rev, ready, viewOf)
    /\ \A c \in gridCalls : CallFits(grid, c, rev, ready, viewOf)

-----------------------------------------------------------------------------
(* What the operations of the grid make of its state *)

\* An operation may start from any state.
LEMMA WithOp == ASSUME NEW t \in GridState PROVE With(t) \in GridOp /\ With(t).t = t /\ With(t).sent = <<>>
<1>1. <<>> \in Seq(ToHost)
  OBVIOUS
<1> QED
  BY <1>1, Zenon DEF With, GridOp

\* A message takes the next number.
LEMMA PostOp ==
  ASSUME NEW x \in GridOp, NEW type \in {"page", "setView", "cancelView"}, NEW view \in Views
  PROVE  LET y == Post(x, type, view)
             t == [x.t EXCEPT !.number = x.t.number + 1]
             m == [type |-> type, id |-> x.t.number + 1, view |-> view,
                   revision |-> IF type = "setView" THEN x.t.next + 1 ELSE x.t.revision]
         IN  /\ y = [t |-> t, sent |-> Append(x.sent, m)]
             /\ t \in GridState /\ m \in ToHost /\ Append(x.sent, m) \in Seq(ToHost)
             /\ y \in GridOp
<1> DEFINE y == Post(x, type, view)
           t == [x.t EXCEPT !.number = x.t.number + 1]
           m == [type |-> type, id |-> x.t.number + 1, view |-> view,
                 revision |-> IF type = "setView" THEN x.t.next + 1 ELSE x.t.revision]
<1>1. x.t \in GridState /\ x.sent \in Seq(ToHost)
  BY DEF GridOp
<1>2. x.t.number + 1 \in Nat \ {0} /\ x.t.next + 1 \in Nat /\ x.t.revision \in Nat
  BY <1>1 DEF GridState
<1>3. t \in GridState
  BY <1>1, <1>2 DEF GridState
<1>4. t.number = x.t.number + 1 /\ t.next = x.t.next /\ t.revision = x.t.revision
  BY <1>1, <1>2 DEF GridState
<1>5. m \in ToHost
  BY <1>2 DEF ToHost
<1>6. y = [t |-> t, sent |-> Append(x.sent, m)]
  BY <1>4 DEF Post
<1> HIDE DEF m, t, y
<1>7. Append(x.sent, m) \in Seq(ToHost)
  BY <1>1, <1>5
<1>8. y \in GridOp
  BY <1>3, <1>6, <1>7 DEF GridOp
<1> QED
  BY <1>3, <1>5, <1>6, <1>7, <1>8 DEF m, t, y

\* Everything but the rows and their requests is as it was.
SameView(t, u) ==
    /\ u.revision = t.revision /\ u.next = t.next /\ u.applied = t.applied /\ u.draft = t.draft
    /\ u.pending = t.pending /\ u.queued = t.queued /\ u.timer = t.timer /\ u.page = t.page

\* Rows are drawn from the page there is, which is asked for when there is none.
LEMMA DrawOp ==
  ASSUME NEW x \in GridOp
  PROVE  LET y == Draw(x)
             n == x.t.number + 1
         IN  /\ y \in GridOp /\ SameView(x.t, y.t) /\ y.t.drawn = x.t.page /\ ~y.t.missed
             /\ \/ /\ y.t.number = x.t.number /\ y.t.awaited = x.t.awaited
                   /\ y.t.requests = x.t.requests /\ y.sent = x.sent
                \/ /\ y.t.number = n /\ y.t.awaited = n
                   /\ y.t.requests = x.t.requests \union {[id |-> n, revision |-> x.t.revision]}
                   /\ y.sent = Append(x.sent, [type |-> "page", id |-> n, view |-> AllRows,
                                               revision |-> x.t.revision])
<1> DEFINE y == Draw(x)
           n == x.t.number + 1
<1>1. x.t \in GridState /\ x.sent \in Seq(ToHost) /\ x = [t |-> x.t, sent |-> x.sent]
  BY DEF GridOp
<1>2. CASE x.t.page # NoPage \/ x.t.awaited # 0
  <2> DEFINE u == [x.t EXCEPT !.drawn = x.t.page, !.missed = FALSE]
  <2>1. y = [x EXCEPT !.t.drawn = x.t.page, !.t.missed = FALSE]
    BY <1>2 DEF Draw
  <2>2. y = [t |-> u, sent |-> x.sent]
    BY <1>1, <2>1
  <2>3. x.t.page \in Nat \union {NoPage}
    BY <1>1 DEF GridState
  <2>4. u \in GridState
    BY <1>1, <2>3 DEF GridState
  <2>5. /\ SameView(x.t, u) /\ u.drawn = x.t.page /\ ~u.missed
        /\ u.number = x.t.number /\ u.awaited = x.t.awaited /\ u.requests = x.t.requests
    BY <1>1 DEF GridState, SameView
  <2> HIDE DEF u, y
  <2>6. y \in GridOp /\ y.t = u /\ y.sent = x.sent
    BY <1>1, <2>2, <2>4 DEF GridOp
  <2> QED
    BY <2>5, <2>6 DEF y
<1>3. CASE ~(x.t.page # NoPage \/ x.t.awaited # 0)
  <2> DEFINE p == Post(x, "page", AllRows)
             t == [x.t EXCEPT !.number = n]
             m == [type |-> "page", id |-> n, view |-> AllRows, revision |-> x.t.revision]
             q == [id |-> n, revision |-> x.t.revision]
             u == [x.t EXCEPT !.number = n, !.awaited = n, !.requests = x.t.requests \union {q},
                              !.drawn = x.t.page, !.missed = FALSE]
  <2>1. /\ p = [t |-> t, sent |-> Append(x.sent, m)]
        /\ t \in GridState /\ m \in ToHost /\ Append(x.sent, m) \in Seq(ToHost)
    BY PostOp, GridAssumption
  <2>2. t.number = n /\ t.revision = x.t.revision /\ t.page = x.t.page /\ t.requests = x.t.requests
    BY <1>1 DEF GridState
  <2>3. y = [[p EXCEPT !.t.awaited = p.t.number,
                       !.t.requests = @ \union {[id |-> p.t.number, revision |-> p.t.revision]}]
                EXCEPT !.t.drawn = [p EXCEPT !.t.awaited = p.t.number,
                            !.t.requests = @ \union {[id |-> p.t.number, revision |-> p.t.revision]}].t.page,
                       !.t.missed = FALSE]
    BY <1>3 DEF Draw
  <2> DEFINE v == [t EXCEPT !.awaited = n, !.requests = x.t.requests \union {q}]
  <2>4. [p EXCEPT !.t.awaited = p.t.number,
                  !.t.requests = @ \union {[id |-> p.t.number, revision |-> p.t.revision]}]
        = [t |-> v, sent |-> Append(x.sent, m)]
    <3>1. [t EXCEPT !.awaited = n].requests = x.t.requests
      BY <1>1 DEF GridState
    <3> DEFINE S == Append(x.sent, m)
    <3> HIDE DEF t, p, n, S, v
    <3>2. p = [t |-> t, sent |-> S]
      BY <2>1 DEF S
    <3>3. p.t = t /\ p.t.number = n /\ p.t.revision = x.t.revision
      BY <3>2, <2>2
    <3>4. [p EXCEPT !.t.awaited = n, !.t.requests = @ \union {q}]
          = [p EXCEPT !.t = [[t EXCEPT !.awaited = n] EXCEPT !.requests = x.t.requests \union {q}]]
      BY <3>1, <3>3
    <3>5. [p EXCEPT !.t = [[t EXCEPT !.awaited = n] EXCEPT !.requests = x.t.requests \union {q}]]
          = [p EXCEPT !.t = v]
      BY DEF v
    <3>6. [p EXCEPT !.t = v] = [t |-> v, sent |-> S]
      BY <3>2
    <3> HIDE DEF q
    <3> QED
      BY <3>3, <3>4, <3>5, <3>6 DEF S, q
  <2>5. v.page = x.t.page
    BY <1>1, <2>2 DEF GridState
  <2>6. y = [t |-> [v EXCEPT !.drawn = x.t.page, !.missed = FALSE], sent |-> Append(x.sent, m)]
    <3> HIDE DEF v, m, p, y
    <3> QED
      BY <2>3, <2>4, <2>5
  <2>7. [v EXCEPT !.drawn = x.t.page, !.missed = FALSE] = u
    BY <1>1 DEF GridState
  <2>8. /\ x.t.page \in Nat \union {NoPage} /\ n \in Nat
        /\ x.t.requests \union {q} \in SUBSET PageRequest
    BY <1>1 DEF GridState, PageRequest
  <2>9. u \in GridState
    BY <1>1, <2>8 DEF GridState
  <2>10. /\ SameView(x.t, u) /\ u.drawn = x.t.page /\ ~u.missed
         /\ u.number = n /\ u.awaited = n /\ u.requests = x.t.requests \union {q}
    BY <1>1 DEF GridState, SameView
  <2> HIDE DEF u, y, v, t, p, m
  <2>11. y \in GridOp /\ y.t = u /\ y.sent = Append(x.sent, m)
    BY <2>1, <2>6, <2>7, <2>9 DEF GridOp
  <2> QED
    BY <2>10, <2>11 DEF m, y
<1> QED
  BY <1>2, <1>3

\* A view is sent, or waits for the one under way.
LEMMA SendViewOp ==
  ASSUME NEW x \in GridOp
  PROVE  LET y == SendView(x)
             n == x.t.number + 1
             v == x.t.next + 1
         IN  \/ /\ x.t.pending.id # 0
                /\ y = [t |-> [x.t EXCEPT !.timer = FALSE, !.queued = TRUE], sent |-> x.sent]
                /\ y \in GridOp
             \/ /\ x.t.pending.id = 0
                /\ y.t = [x.t EXCEPT !.number = n, !.timer = FALSE,
                                     !.pending = [id |-> n, revision |-> v, view |-> x.t.draft, cancelled |-> FALSE]]
                /\ y.sent = Append(x.sent, [type |-> "setView", id |-> n, view |-> x.t.draft, revision |-> v])
                /\ y \in GridOp
<1> DEFINE y == SendView(x)
           n == x.t.number + 1
           v == x.t.next + 1
<1>1. x.t \in GridState /\ x.sent \in Seq(ToHost) /\ x = [t |-> x.t, sent |-> x.sent]
  BY DEF GridOp
<1>2. CASE x.t.pending.id # 0
  <2> DEFINE u == [x.t EXCEPT !.timer = FALSE, !.queued = TRUE]
  <2>1. y = [t |-> u, sent |-> x.sent]
    BY <1>1, <1>2 DEF SendView
  <2>2. u \in GridState
    BY <1>1 DEF GridState
  <2>3. y \in GridOp
    <3> HIDE DEF u, y
    <3> QED
      BY <1>1, <2>1, <2>2 DEF GridOp
  <2> QED
    BY <1>2, <2>1, <2>3
<1>3. CASE x.t.pending.id = 0
  <2> DEFINE p == Post(x, "setView", x.t.draft)
             t == [x.t EXCEPT !.number = n]
             m == [type |-> "setView", id |-> n, view |-> x.t.draft, revision |-> v]
             w == [id |-> n, revision |-> v, view |-> x.t.draft, cancelled |-> FALSE]
             u == [x.t EXCEPT !.number = n, !.timer = FALSE, !.pending = w]
  <2>1. x.t.draft \in Views /\ n \in Nat /\ v \in Nat
    BY <1>1 DEF GridState
  <2>2. /\ p = [t |-> t, sent |-> Append(x.sent, m)]
        /\ t \in GridState /\ m \in ToHost /\ Append(x.sent, m) \in Seq(ToHost)
    BY <2>1, PostOp
  <2>3. t.number = n /\ t.next = x.t.next /\ t.draft = x.t.draft
    BY <1>1 DEF GridState
  <2>4. y = [p EXCEPT !.t.timer = FALSE,
                      !.t.pending = [id |-> p.t.number, revision |-> p.t.next + 1,
                                     view |-> p.t.draft, cancelled |-> FALSE]]
    BY <1>3 DEF SendView
  <2>5. y = [t |-> [t EXCEPT !.timer = FALSE, !.pending = w], sent |-> Append(x.sent, m)]
    <3> HIDE DEF t, m, p, y
    <3> QED
      BY <2>2, <2>3, <2>4
  <2>6. [t EXCEPT !.timer = FALSE, !.pending = w] = u
    BY <1>1 DEF GridState
  <2>7. w \in PendingView
    BY <2>1 DEF PendingView
  <2>8. u \in GridState
    <3> HIDE DEF w
    <3> QED
      BY <1>1, <2>1, <2>7 DEF GridState
  <2> HIDE DEF u, y, t, p, m
  <2>9. y \in GridOp /\ y.t = u /\ y.sent = Append(x.sent, m)
    BY <2>2, <2>5, <2>6, <2>8 DEF GridOp
  <2> QED
    BY <1>3, <2>9 DEF u, m, y
<1> QED
  BY <1>2, <1>3

\* What the fields of the grid's state hold.
LEMMA Fields ==
  ASSUME NEW t \in GridState
  PROVE  /\ t.number \in Nat /\ t.number + 1 \in Nat \ {0} /\ t.revision \in Nat /\ t.next \in Nat /\ t.next + 1 \in Nat
         /\ t.applied \in Views /\ t.draft \in Views /\ t.pending \in PendingView
         /\ t.pending.id \in Nat /\ t.pending.revision \in Nat /\ t.pending.view \in Views
         /\ t.queued \in BOOLEAN /\ t.timer \in BOOLEAN /\ t.retries \in 0 .. MaxRetries
         /\ t.page \in Nat \union {NoPage} /\ t.awaited \in Nat /\ t.requests \subseteq PageRequest
<1>1. /\ t.number \in Nat /\ t.revision \in Nat /\ t.next \in Nat
      /\ t.applied \in Views /\ t.draft \in Views
      /\ t.queued \in BOOLEAN /\ t.timer \in BOOLEAN /\ t.retries \in 0 .. MaxRetries
      /\ t.page \in Nat \union {NoPage} /\ t.awaited \in Nat /\ t.requests \subseteq PageRequest
  BY DEF GridState
<1>2. t.pending \in PendingView
  BY DEF GridState
<1>3. t.pending.id \in Nat /\ t.pending.revision \in Nat /\ t.pending.view \in Views
  BY <1>2 DEF PendingView
<1> QED
  BY <1>1, <1>2, <1>3

\* The operation x, which began at the state t, has posted messages with new
\* numbers, and its pending view is that of t, a new one or none.
Keeps(t, x) ==
    /\ x \in GridOp /\ x.t.number >= t.number
    /\ \A i \in 1 .. Len(x.sent) :
        x.sent[i].id \in (t.number + 1) .. x.t.number /\ Asks(x.t, x.sent[i])
    /\ \/ x.t.pending.id = 0
       \/ x.t.pending.id > t.number
       \/ /\ x.t.pending.id = t.pending.id
          /\ x.t.pending.revision = t.pending.revision /\ x.t.pending.view = t.pending.view

\* The rows on the screen are those the grid says.
Shows(t, rv, rd, vo) == ScreenFits(t, rv, rd, vo) /\ Current(t)

\* The first operation of a step.
LEMMA WithKeeps ==
  ASSUME NEW t \in GridState, NEW u \in GridState, u.number = t.number,
         \/ u.pending.id = 0
         \/ /\ u.pending.id = t.pending.id
            /\ u.pending.revision = t.pending.revision /\ u.pending.view = t.pending.view
  PROVE  Keeps(t, With(u))
<1>1. With(u) \in GridOp /\ With(u).t = u /\ With(u).sent = <<>> /\ t.number \in Nat
  BY WithOp DEF GridState
<1> QED
  BY <1>1 DEF Keeps

\* Messages that were posted, and one more.
LEMMA Posted ==
  ASSUME NEW s \in Seq(ToHost), NEW m \in ToHost, NEW i \in 1 .. Len(Append(s, m))
  PROVE  \/ i \in 1 .. Len(s) /\ Append(s, m)[i] = s[i]
         \/ i = Len(s) + 1 /\ Append(s, m)[i] = m
  OBVIOUS

\* Drawing keeps to the numbers, and puts the rows of the grid's revision on
\* the screen.
LEMMA DrawKeeps ==
  ASSUME NEW t \in GridState, NEW x, Keeps(t, x), PendingFits(x.t)
  PROVE  LET y == Draw(x)
         IN  /\ Keeps(t, y) /\ PendingFits(y.t) /\ SameView(x.t, y.t)
             /\ \A rv \in Nat : \A rd \in 0 .. rv : \A vo :
                    ScreenFits(x.t, rv, rd, vo) => Shows(y.t, rv, rd, vo)
<1> DEFINE y == Draw(x)
           n == x.t.number + 1
           m == [type |-> "page", id |-> n, view |-> AllRows, revision |-> x.t.revision]
<1>1. x \in GridOp /\ x.t \in GridState /\ x.sent \in Seq(ToHost)
  BY DEF Keeps, GridOp
<1>2. x.t.number \in Nat /\ t.number \in Nat /\ n \in Nat \ {0} /\ x.t.revision \in Nat /\ x.t.pending.id \in Nat
  BY <1>1, Fields
<1>3. /\ y \in GridOp /\ SameView(x.t, y.t) /\ y.t.drawn = x.t.page /\ ~y.t.missed
      /\ \/ /\ y.t.number = x.t.number /\ y.t.awaited = x.t.awaited
            /\ y.t.requests = x.t.requests /\ y.sent = x.sent
         \/ /\ y.t.number = n /\ y.t.awaited = n
            /\ y.t.requests = x.t.requests \union {[id |-> n, revision |-> x.t.revision]}
            /\ y.sent = Append(x.sent, m)
  BY <1>1, DrawOp
<1>4. m \in ToHost
  BY <1>2, GridAssumption DEF ToHost
<1>5. m.type # "setView" /\ m.id = n
  OBVIOUS
<1> HIDE DEF y, m
<1>6. y.t.pending = x.t.pending /\ y.t.number >= x.t.number /\ y.t.number \in Nat
  BY <1>2, <1>3 DEF SameView
<1>7. ASSUME NEW i \in 1 .. Len(y.sent)
      PROVE  y.sent[i].id \in (t.number + 1) .. y.t.number /\ Asks(y.t, y.sent[i])
  <2>1. \/ i \in 1 .. Len(x.sent) /\ y.sent[i] = x.sent[i]
        \/ y.t.number = n /\ y.sent[i] = m
    <3>1. CASE y.sent = x.sent
      BY <3>1
    <3>2. CASE y.t.number = n /\ y.sent = Append(x.sent, m)
      BY <1>1, <1>4, <3>2, Posted
    <3> QED
      BY <1>3, <3>1, <3>2
  <2>2. CASE i \in 1 .. Len(x.sent) /\ y.sent[i] = x.sent[i]
    BY <1>2, <1>6, <2>2, SMTT(30) DEF Keeps, Asks
  <2>3. CASE y.t.number = n /\ y.sent[i] = m
    BY <1>2, <1>5, <2>3 DEF Keeps, Asks
  <2> QED
    BY <2>1, <2>2, <2>3
<1>8. Keeps(t, y)
  <2>1. y.t.number >= t.number
    BY <1>2, <1>6 DEF Keeps
  <2> QED
    BY <1>3, <1>6, <1>7, <2>1 DEF Keeps
<1>9. PendingFits(y.t)
  BY <1>2, <1>3, <1>6 DEF PendingFits, SameView
<1>10. ASSUME NEW rv \in Nat, NEW rd \in 0 .. rv, NEW vo, ScreenFits(x.t, rv, rd, vo)
       PROVE  Shows(y.t, rv, rd, vo)
  <2>1. /\ y.t.revision = x.t.revision /\ y.t.applied = x.t.applied /\ y.t.page = x.t.page
        /\ y.t.drawn = x.t.page /\ y.t.revision \in 0 .. rv
    BY <1>3, <1>10 DEF SameView, ScreenFits
  <2>2. \A q \in y.t.requests : q.id \in 1 .. y.t.number /\ q.revision \in 0 .. rv
    BY <1>2, <1>3, <1>6, <1>10, <2>1 DEF ScreenFits
  <2>3. y.t.awaited \in {0} \union {q.id : q \in y.t.requests}
    <3>1. CASE y.t.awaited = n /\ y.t.requests = x.t.requests \union {[id |-> n, revision |-> x.t.revision]}
      <4>1. [id |-> n, revision |-> x.t.revision] \in y.t.requests
        BY <3>1
      <4> QED
        BY <3>1, <4>1
    <3>2. CASE y.t.awaited = x.t.awaited /\ y.t.requests = x.t.requests
      BY <1>10, <3>2 DEF ScreenFits
    <3> QED
      BY <1>3, <3>1, <3>2
  <2> QED
    BY <1>10, <2>1, <2>2, <2>3 DEF Shows, ScreenFits, Current
<1> QED
  BY <1>3, <1>8, <1>9, <1>10 DEF y

\* So does sending a view.
LEMMA SendKeeps ==
  ASSUME NEW t \in GridState, NEW x, Keeps(t, x), PendingFits(x.t),
         x.t.queued => x.t.pending.id # 0
  PROVE  LET y == SendView(x)
         IN  /\ Keeps(t, y) /\ QueueFits(y.t) /\ y.t.draft = x.t.draft
             /\ \A rv \in Nat : \A rd \in 0 .. rv : \A vo :
                    Shows(x.t, rv, rd, vo) => Shows(y.t, rv, rd, vo)
<1> DEFINE y == SendView(x)
           n == x.t.number + 1
           v == x.t.next + 1
           w == [id |-> n, revision |-> v, view |-> x.t.draft, cancelled |-> FALSE]
           m == [type |-> "setView", id |-> n, view |-> x.t.draft, revision |-> v]
<1>1. x \in GridOp /\ x.t \in GridState /\ x.sent \in Seq(ToHost)
  BY DEF Keeps, GridOp
<1>2. /\ x.t.number \in Nat /\ t.number \in Nat /\ n \in Nat \ {0} /\ v \in Nat
      /\ x.t.draft \in Views /\ x.t.pending \in PendingView /\ x.t.pending.id \in Nat
  BY <1>1, Fields
<1>3. \/ /\ x.t.pending.id # 0
         /\ y = [t |-> [x.t EXCEPT !.timer = FALSE, !.queued = TRUE], sent |-> x.sent]
         /\ y \in GridOp
      \/ /\ x.t.pending.id = 0
         /\ y.t = [x.t EXCEPT !.number = n, !.timer = FALSE, !.pending = w]
         /\ y.sent = Append(x.sent, m)
         /\ y \in GridOp
  BY <1>1, SendViewOp
<1>4. CASE x.t.pending.id # 0
  <2>1. y.t = [x.t EXCEPT !.timer = FALSE, !.queued = TRUE] /\ y.sent = x.sent /\ y \in GridOp
    BY <1>3, <1>4
  <2> HIDE DEF y
  <2>2. /\ y.t.number = x.t.number /\ y.t.pending = x.t.pending /\ ~y.t.timer /\ y.t.draft = x.t.draft
        /\ y.t.revision = x.t.revision /\ y.t.applied = x.t.applied /\ y.t.page = x.t.page
        /\ y.t.requests = x.t.requests /\ y.t.awaited = x.t.awaited
        /\ y.t.drawn = x.t.drawn /\ y.t.missed = x.t.missed
    BY <1>1, <2>1 DEF GridState
  <2>3. Keeps(t, y)
    BY <2>1, <2>2 DEF Keeps, Asks
  <2>4. QueueFits(y.t)
    BY <1>4, <2>2 DEF QueueFits, PendingFits
  <2>5. \A rv \in Nat : \A rd \in 0 .. rv : \A vo : Shows(x.t, rv, rd, vo) => Shows(y.t, rv, rd, vo)
    BY <2>2 DEF Shows, ScreenFits, Current
  <2> QED
    BY <2>2, <2>3, <2>4, <2>5 DEF y
<1>5. CASE x.t.pending.id = 0
  <2>1. /\ y.t = [x.t EXCEPT !.number = n, !.timer = FALSE, !.pending = w]
        /\ y.sent = Append(x.sent, m) /\ y \in GridOp
    BY <1>3, <1>5
  <2> HIDE DEF y
  <2>2. /\ y.t.number = n /\ y.t.pending = w /\ ~y.t.timer /\ y.t.draft = x.t.draft /\ y.t.queued = x.t.queued
        /\ y.t.revision = x.t.revision /\ y.t.applied = x.t.applied /\ y.t.page = x.t.page
        /\ y.t.requests = x.t.requests /\ y.t.awaited = x.t.awaited
        /\ y.t.drawn = x.t.drawn /\ y.t.missed = x.t.missed
    BY <1>1, <2>1 DEF GridState
  <2>3. m \in ToHost /\ m.id = n /\ m.revision = v /\ m.view = x.t.draft
    BY <1>2 DEF ToHost
  <2>4. w.id = n /\ w.revision = v /\ w.view = x.t.draft
    OBVIOUS
  <2> HIDE DEF w, m
  <2>5. x.t.number >= t.number
    BY DEF Keeps
  <2>6. ASSUME NEW i \in 1 .. Len(y.sent)
        PROVE  y.sent[i].id \in (t.number + 1) .. y.t.number /\ Asks(y.t, y.sent[i])
    <3>1. \/ i \in 1 .. Len(x.sent) /\ y.sent[i] = x.sent[i]
          \/ y.sent[i] = m
      BY <1>1, <2>1, <2>3, Posted
    <3>2. CASE i \in 1 .. Len(x.sent) /\ y.sent[i] = x.sent[i]
      <4>1. x.sent[i].id \in (t.number + 1) .. x.t.number
        BY <3>2 DEF Keeps
      <4> QED
        BY <1>2, <2>2, <2>4, <3>2, <4>1 DEF Asks
    <3>3. CASE y.sent[i] = m
      BY <1>2, <2>2, <2>3, <2>4, <2>5, <3>3 DEF Asks
    <3> QED
      BY <3>1, <3>2, <3>3
  <2>7. Keeps(t, y)
    BY <1>2, <2>1, <2>2, <2>4, <2>5, <2>6 DEF Keeps
  <2>8. QueueFits(y.t)
    <3>1. w # NoView
      BY <1>2, <2>4 DEF NoView
    <3>2. ~x.t.queued
      BY <1>5
    <3> QED
      BY <1>2, <2>2, <2>4, <3>1, <3>2 DEF QueueFits, PendingFits
  <2>9. ASSUME NEW rv \in Nat, NEW rd \in 0 .. rv, NEW vo, Shows(x.t, rv, rd, vo)
        PROVE  Shows(y.t, rv, rd, vo)
    <3>1. \A q \in x.t.requests : q.id \in 1 .. n
      BY <1>2, <2>9 DEF Shows, ScreenFits
    <3> QED
      BY <2>2, <2>9, <3>1 DEF Shows, ScreenFits, Current
  <2> QED
    BY <2>2, <2>7, <2>8, <2>9 DEF y
<1> QED
  BY <1>4, <1>5

\* So does sending the view that waits, once nothing is under way.
LEMMA SendQueuedKeeps ==
  ASSUME NEW t \in GridState, NEW x, Keeps(t, x), PendingFits(x.t)
  PROVE  LET y == SendQueued(x)
         IN  /\ Keeps(t, y) /\ QueueFits(y.t) /\ y.t.draft = x.t.draft
             /\ \A rv \in Nat : \A rd \in 0 .. rv : \A vo :
                    Shows(x.t, rv, rd, vo) => Shows(y.t, rv, rd, vo)
<1>1. x \in GridOp /\ x.t \in GridState /\ x.sent \in Seq(ToHost) /\ x = [t |-> x.t, sent |-> x.sent]
  BY DEF Keeps, GridOp
<1>2. CASE x.t.queued
  <2> DEFINE z == [x EXCEPT !.t.queued = FALSE]
             u == [x.t EXCEPT !.queued = FALSE]
  <2>1. SendQueued(x) = SendView(z)
    BY <1>2 DEF SendQueued
  <2>2. u \in GridState
    BY <1>1 DEF GridState
  <2>3. /\ u.number = x.t.number /\ u.pending = x.t.pending /\ u.timer = x.t.timer /\ u.draft = x.t.draft
        /\ ~u.queued
        /\ u.revision = x.t.revision /\ u.applied = x.t.applied /\ u.page = x.t.page
        /\ u.requests = x.t.requests /\ u.awaited = x.t.awaited
        /\ u.drawn = x.t.drawn /\ u.missed = x.t.missed
    BY <1>1 DEF GridState
  <2>4. z = [t |-> u, sent |-> x.sent]
    <3>1. ASSUME NEW a, NEW b, NEW c, x = [t |-> a, sent |-> b], c = [x EXCEPT !.t.queued = FALSE]
          PROVE  c = [t |-> [a EXCEPT !.queued = FALSE], sent |-> b]
      BY <3>1
    <3> QED
      BY <1>1, <3>1
  <2> HIDE DEF z, u
  <2>5. z \in GridOp /\ z.t = u /\ z.sent = x.sent
    BY <1>1, <2>2, <2>4 DEF GridOp
  <2>6. Keeps(t, z)
    BY <2>3, <2>5 DEF Keeps, Asks
  <2>7. PendingFits(z.t)
    BY <2>3, <2>5 DEF PendingFits
  <2>8. \A rv \in Nat : \A rd \in 0 .. rv : \A vo : Shows(x.t, rv, rd, vo) => Shows(z.t, rv, rd, vo)
    BY <2>3, <2>5 DEF Shows, ScreenFits, Current
  <2>9. /\ Keeps(t, SendView(z)) /\ QueueFits(SendView(z).t) /\ SendView(z).t.draft = z.t.draft
        /\ \A rv \in Nat : \A rd \in 0 .. rv : \A vo :
                Shows(z.t, rv, rd, vo) => Shows(SendView(z).t, rv, rd, vo)
    BY <2>3, <2>5, <2>6, <2>7, SendKeeps
  <2> QED
    BY <2>1, <2>3, <2>5, <2>8, <2>9
<1>3. CASE ~x.t.queued
  <2>1. SendQueued(x) = x
    BY <1>3 DEF SendQueued
  <2> QED
    BY <1>3, <2>1 DEF QueueFits
<1> QED
  BY <1>1, <1>2, <1>3

-----------------------------------------------------------------------------
(* Steps of the grid *)

\* The state u of the grid may follow the state t before anything is posted.
Follows(t, u) ==
    /\ u \in GridState /\ u.number = t.number /\ PendingFits(u)
    /\ \/ u.pending.id = 0
       \/ /\ u.pending.id = t.pending.id
          /\ u.pending.revision = t.pending.revision /\ u.pending.view = t.pending.view

\* The operation x keeps what the invariant says of the grid, and the draft.
Sound(t, x, draft) == Keeps(t, x) /\ QueueFits(x.t) /\ x.t.draft = draft

\* What the grid does once it has taken a reply in: it sends the view that
\* waits, or not, and draws its rows first, or not.
LEMMA Replied ==
  ASSUME NEW t \in GridState, NEW u, Follows(t, u)
  PROVE  /\ QueueFits(u) => Sound(t, With(u), u.draft) /\ Sound(t, Draw(With(u)), u.draft)
         /\ Sound(t, SendQueued(With(u)), u.draft)
         /\ Sound(t, SendQueued(Draw(With(u))), u.draft)
         /\ \A rv \in Nat : \A rd \in 0 .. rv : \A vo :
                /\ Shows(u, rv, rd, vo) =>
                    Shows(With(u).t, rv, rd, vo) /\ Shows(SendQueued(With(u)).t, rv, rd, vo)
                /\ ScreenFits(u, rv, rd, vo) =>
                    Shows(Draw(With(u)).t, rv, rd, vo) /\ Shows(SendQueued(Draw(With(u))).t, rv, rd, vo)
<1> DEFINE x == With(u)
           y == Draw(x)
<1>1. u \in GridState /\ PendingFits(u)
  BY DEF Follows
<1>2. Keeps(t, x) /\ x.t = u
  BY <1>1, WithKeeps, WithOp DEF Follows
<1> HIDE DEF x
<1>3. /\ Keeps(t, y) /\ PendingFits(y.t) /\ SameView(x.t, y.t)
      /\ \A rv \in Nat : \A rd \in 0 .. rv : \A vo :
            ScreenFits(x.t, rv, rd, vo) => Shows(y.t, rv, rd, vo)
  BY <1>1, <1>2, DrawKeeps
<1> HIDE DEF y
<1>4. /\ Keeps(t, SendQueued(x)) /\ QueueFits(SendQueued(x).t) /\ SendQueued(x).t.draft = x.t.draft
      /\ \A rv \in Nat : \A rd \in 0 .. rv : \A vo :
            Shows(x.t, rv, rd, vo) => Shows(SendQueued(x).t, rv, rd, vo)
  BY <1>1, <1>2, SendQueuedKeeps
<1>5. /\ Keeps(t, SendQueued(y)) /\ QueueFits(SendQueued(y).t) /\ SendQueued(y).t.draft = y.t.draft
      /\ \A rv \in Nat : \A rd \in 0 .. rv : \A vo :
            Shows(y.t, rv, rd, vo) => Shows(SendQueued(y).t, rv, rd, vo)
  BY <1>3, SendQueuedKeeps
<1>6. y.t.draft = u.draft /\ (QueueFits(u) => QueueFits(y.t))
  BY <1>2, <1>3 DEF SameView, QueueFits
<1>7. QueueFits(u) => Sound(t, x, u.draft) /\ Sound(t, y, u.draft)
  BY <1>2, <1>3, <1>6 DEF Sound
<1>8. Sound(t, SendQueued(x), u.draft) /\ Sound(t, SendQueued(y), u.draft)
  BY <1>2, <1>4, <1>5, <1>6 DEF Sound
<1>9. ASSUME NEW rv \in Nat, NEW rd \in 0 .. rv, NEW vo
      PROVE  /\ Shows(u, rv, rd, vo) => Shows(x.t, rv, rd, vo) /\ Shows(SendQueued(x).t, rv, rd, vo)
             /\ ScreenFits(u, rv, rd, vo) => Shows(y.t, rv, rd, vo) /\ Shows(SendQueued(y).t, rv, rd, vo)
  BY <1>2, <1>3, <1>4, <1>5
<1> QED
  BY <1>7, <1>8, <1>9 DEF x, y

\* A page request that is answered is forgotten.
LEMMA PageAnsweredState ==
  ASSUME NEW t \in GridState, NEW m, m.id \in Nat \ {0}
  PROVE  LET u == PageAnswered(t, m)
         IN  /\ u \in GridState /\ SameView(t, u) /\ u.number = t.number /\ u.retries = t.retries
             /\ u.drawn = t.drawn /\ u.missed = t.missed
             /\ \A rv, rd, vo : ScreenFits(t, rv, rd, vo) => ScreenFits(u, rv, rd, vo)
<1> DEFINE R == {q \in t.requests : q.id # m.id}
           a == IF t.awaited = m.id THEN 0 ELSE t.awaited
           u == [t EXCEPT !.requests = R, !.awaited = a]
<1>1. PageAnswered(t, m) = u
  <2>1. [t EXCEPT !.requests = R].awaited = t.awaited
    BY DEF GridState
  <2> QED
    BY <2>1 DEF PageAnswered
<1>2. R \in SUBSET PageRequest /\ a \in Nat
  BY Fields
<1> HIDE DEF R, a
<1>3. u \in GridState
  BY <1>2 DEF GridState
<1>4. /\ SameView(t, u) /\ u.number = t.number /\ u.retries = t.retries
      /\ u.drawn = t.drawn /\ u.missed = t.missed /\ u.requests = R /\ u.awaited = a
  BY DEF GridState, SameView
<1> HIDE DEF u
<1>5. ASSUME NEW rv, NEW rd, NEW vo, ScreenFits(t, rv, rd, vo)
      PROVE  ScreenFits(u, rv, rd, vo)
  <2>1. a \in {0} \union {q.id : q \in R}
    BY <1>5 DEF ScreenFits, a, R
  <2>2. \A q \in R : q \in t.requests
    BY DEF R
  <2> QED
    BY <1>4, <1>5, <2>1, <2>2 DEF ScreenFits, SameView
<1> QED
  BY <1>1, <1>3, <1>4, <1>5

\* What the state u has in common with the state t: what is to be sent, and what
\* is shown.
SameQueue(t, u) ==
    u.number = t.number /\ u.pending = t.pending /\ u.queued = t.queued /\ u.timer = t.timer
SameScreen(t, u) ==
    /\ u.number = t.number /\ u.revision = t.revision /\ u.applied = t.applied /\ u.page = t.page
    /\ u.requests = t.requests /\ u.awaited = t.awaited /\ u.drawn = t.drawn /\ u.missed = t.missed

LEMMA SameScreenShows ==
  ASSUME NEW t, NEW u, SameScreen(t, u), NEW rv, NEW rd, NEW vo
  PROVE  /\ ScreenFits(t, rv, rd, vo) <=> ScreenFits(u, rv, rd, vo)
         /\ Current(t) <=> Current(u)
  BY DEF SameScreen, ScreenFits, Current

\* The view under way is over.
LEMMA AnsweredState ==
  ASSUME NEW t \in GridState, NEW n \in Nat, NEW w \in PendingView
  PROVE  /\ LET u == [t EXCEPT !.pending = NoView, !.next = n]
            IN  /\ u \in GridState /\ SameScreen(t, u) /\ u.pending = NoView /\ u.draft = t.draft
                /\ u.queued = t.queued /\ u.timer = t.timer /\ u.retries = t.retries
         /\ LET u == [t EXCEPT !.pending = w]
            IN  /\ u \in GridState /\ SameScreen(t, u) /\ u.pending = w /\ u.draft = t.draft
                /\ u.queued = t.queued /\ u.timer = t.timer /\ u.retries = t.retries
<1>1. NoView \in PendingView
  BY GridAssumption DEF NoView, PendingView
<1> QED
  BY <1>1 DEF GridState, SameScreen

\* The grid moves to the revision r, with the view v.
LEMMA MovedState ==
  ASSUME NEW t \in GridState, NEW r \in Nat, NEW v \in Views, NEW n \in Nat, NEW d \in Views
  PROVE  \A u \in {[MovedTo(t, r, v) EXCEPT !.next = n, !.draft = d], [MovedTo(t, r, v) EXCEPT !.draft = d]} :
             /\ u \in GridState /\ SameQueue(t, u) /\ u.draft = d /\ u.retries = t.retries
             /\ \A rv, rd, vo : ScreenFits(t, rv, rd, vo) /\ r \in 0 .. rd /\ v = ViewIn(vo, r)
                    => ScreenFits(u, rv, rd, vo)
<1>1. MovedTo(t, r, v) \in GridState
  BY DEF GridState, MovedTo
<1> SUFFICES ASSUME NEW u \in {[MovedTo(t, r, v) EXCEPT !.next = n, !.draft = d], [MovedTo(t, r, v) EXCEPT !.draft = d]}
             PROVE  /\ u \in GridState /\ SameQueue(t, u) /\ u.draft = d /\ u.retries = t.retries
                    /\ \A rv, rd, vo : ScreenFits(t, rv, rd, vo) /\ r \in 0 .. rd /\ v = ViewIn(vo, r)
                            => ScreenFits(u, rv, rd, vo)
  OBVIOUS
<1> DEFINE s == MovedTo(t, r, v)
<1>2. /\ SameQueue(t, s) /\ s.retries = t.retries /\ s.requests = t.requests
      /\ s.revision = r /\ s.applied = v /\ s.page = NoPage /\ s.awaited = 0
  BY DEF GridState, SameQueue, MovedTo
<1>3. u = [s EXCEPT !.next = n, !.draft = d] \/ u = [s EXCEPT !.draft = d]
  OBVIOUS
<1>4. s \in GridState
  BY <1>1
<1> HIDE DEF s
<1>5. /\ u \in GridState /\ SameQueue(s, u) /\ u.draft = d /\ u.retries = s.retries /\ u.requests = s.requests
      /\ u.revision = s.revision /\ u.applied = s.applied /\ u.page = s.page /\ u.awaited = s.awaited
  <2>1. CASE u = [s EXCEPT !.next = n, !.draft = d]
    BY <1>4, <2>1 DEF GridState, SameQueue
  <2>2. CASE u = [s EXCEPT !.draft = d]
    BY <1>4, <2>2 DEF GridState, SameQueue
  <2> QED
    BY <1>3, <2>1, <2>2
<1> QED
  BY <1>2, <1>5 DEF ScreenFits, SameQueue

MovedWith(t, r, v, d) == [MovedTo(t, r, v) EXCEPT !.draft = d]

LEMMA MovedWithState ==
  ASSUME NEW t \in GridState, NEW r \in Nat, NEW v \in Views, NEW d \in Views, NEW u, u = MovedWith(t, r, v, d)
  PROVE  /\ u \in GridState /\ SameQueue(t, u) /\ u.draft = d
         /\ \A rv, rd, vo : ScreenFits(t, rv, rd, vo) /\ r \in 0 .. rd /\ v = ViewIn(vo, r)
                => ScreenFits(u, rv, rd, vo)
<1> DEFINE s == MovedTo(t, r, v)
<1>1. s \in GridState
  BY DEF GridState, MovedTo
<1>2. /\ SameQueue(t, s) /\ s.requests = t.requests
      /\ s.revision = r /\ s.applied = v /\ s.page = NoPage /\ s.awaited = 0
  BY DEF GridState, SameQueue, MovedTo
<1>3. u = [s EXCEPT !.draft = d]
  BY DEF MovedWith
<1> HIDE DEF s
<1>4. /\ u \in GridState /\ SameQueue(s, u) /\ u.draft = d /\ u.requests = s.requests
      /\ u.revision = s.revision /\ u.applied = s.applied /\ u.page = s.page /\ u.awaited = s.awaited
  BY <1>1, <1>3 DEF GridState, SameQueue
<1> QED
  BY <1>2, <1>4 DEF ScreenFits, SameQueue

\* The grid takes over the ready view that a status reports.
LEMMA SynchronizedState ==
  ASSUME NEW t \in GridState, ServerFits(rev, ready, status, viewOf), NEW at \in StatusReply,
         at # NoStatus, StatusFits(at, ready), NEW keep \in BOOLEAN
  PROVE  LET u == Synchronized(t, at, keep)
         IN  /\ u \in GridState /\ SameQueue(t, u) /\ (keep => u.draft = t.draft) /\ u.retries = t.retries
             /\ ScreenFits(t, rev, ready, viewOf) => ScreenFits(u, rev, ready, viewOf)
<1> DEFINE v == ViewAt(at.ready)
           n == IF at.rev > t.next THEN at.rev ELSE t.next
           d == IF keep THEN t.draft ELSE v
<1>1. at.ready \in 0 .. ready /\ at.ready \in Nat /\ at.rev \in Nat
  BY DEF StatusFits, ServerFits, StatusReply
<1>2. v \in Views
  BY <1>1, GridAssumption DEF ViewAt, ServerFits
<1>3. n \in Nat /\ d \in Views
  BY <1>1, <1>2, Fields
<1>4. MovedTo(t, at.ready, v).next = t.next /\ MovedTo(t, at.ready, v).draft = t.draft
  BY DEF MovedTo, GridState
<1>5. [MovedTo(t, at.ready, v) EXCEPT !.next = n].draft = t.draft
  BY DEF MovedTo, GridState
<1>6. Synchronized(t, at, keep) = [MovedTo(t, at.ready, v) EXCEPT !.next = n, !.draft = d]
  BY <1>4, <1>5 DEF Synchronized
<1>7. v = ViewIn(viewOf, at.ready)
  BY DEF ViewAt, ViewIn
<1>8. keep => d = t.draft
  OBVIOUS
<1> DEFINE u == [MovedTo(t, at.ready, v) EXCEPT !.next = n, !.draft = d]
<1> HIDE DEF v, n, d
<1>9. /\ u \in GridState /\ SameQueue(t, u) /\ u.draft = d /\ u.retries = t.retries
      /\ \A rv, rd, vo : ScreenFits(t, rv, rd, vo) /\ at.ready \in 0 .. rd /\ v = ViewIn(vo, at.ready)
                    => ScreenFits(u, rv, rd, vo)
  BY <1>1, <1>2, <1>3, MovedState
<1> HIDE DEF u
<1>10. Synchronized(t, at, keep) = u
  BY <1>6 DEF u
<1> QED
  BY <1>1, <1>7, <1>8, <1>9, <1>10

\* The grid will send its view again.
LEMMA RetryState ==
  ASSUME NEW t \in GridState, CanRetry(t)
  PROVE  LET u == Retry(t)
         IN  /\ u \in GridState /\ SameScreen(t, u) /\ u.pending = t.pending /\ u.draft = t.draft
             /\ u.timer = t.timer /\ u.queued
<1>1. t.retries + 1 \in 0 .. MaxRetries
  BY Fields DEF CanRetry, MaxRetries
<1> QED
  BY <1>1 DEF Retry, GridState, SameScreen

-----------------------------------------------------------------------------
(* Replies *)

\* What is shown is true, and so are the replies under way.
GridShowsTrue ==
    /\ ScreenFits(grid, rev, ready, viewOf) /\ Current(grid)
    /\ InboxFits(grid, inbox, rev, ready, viewOf)

\* The grid may become x.t and post x.sent.
Fit(x) ==
    Keeps(grid, x) /\ QueueFits(x.t) /\ (GridShowsTrue => Shows(x.t, rev, ready, viewOf))

\* And it keeps what the user typed and it has not sent.
FitReply(x) == Fit(x) /\ (grid.queued \/ grid.timer => x.t.draft = grid.draft)

\* The state u of the grid follows its present state on a reply.
FitState(u) ==
    /\ Follows(grid, u) /\ (grid.queued \/ grid.timer => u.draft = grid.draft)
    /\ GridShowsTrue => ScreenFits(u, rev, ready, viewOf)

LEMMA ReplyFits ==
  ASSUME GridShape, NEW u, FitState(u)
  PROVE  /\ FitReply(SendQueued(Draw(With(u))))
         /\ QueueFits(u) => FitReply(Draw(With(u)))
         /\ (GridShowsTrue => Current(u)) =>
                FitReply(SendQueued(With(u))) /\ (QueueFits(u) => FitReply(With(u)))
<1>1. grid \in GridState /\ rev \in Nat /\ ready \in 0 .. rev
  BY DEF GridShape, ServerFits
<1>2. Follows(grid, u)
  BY DEF FitState
<1>3. /\ QueueFits(u) => Sound(grid, With(u), u.draft) /\ Sound(grid, Draw(With(u)), u.draft)
      /\ Sound(grid, SendQueued(With(u)), u.draft)
      /\ Sound(grid, SendQueued(Draw(With(u))), u.draft)
      /\ Shows(u, rev, ready, viewOf) =>
            Shows(With(u).t, rev, ready, viewOf) /\ Shows(SendQueued(With(u)).t, rev, ready, viewOf)
      /\ ScreenFits(u, rev, ready, viewOf) =>
            Shows(Draw(With(u)).t, rev, ready, viewOf) /\ Shows(SendQueued(Draw(With(u))).t, rev, ready, viewOf)
  BY <1>1, <1>2, Replied
<1>4. GridShowsTrue /\ Current(u) => Shows(u, rev, ready, viewOf)
  BY DEF FitState, Shows
<1> QED
  BY <1>3, <1>4 DEF FitState, FitReply, Fit, Sound

\* The grid itself, when it has nothing to do.
LEMMA SameStateFits ==
  ASSUME GridShape
  PROVE  FitState(grid) /\ QueueFits(grid) /\ (GridShowsTrue => Current(grid)) /\ FitReply(With(grid))
<1>1. FitState(grid) /\ QueueFits(grid) /\ (GridShowsTrue => Current(grid))
  BY DEF GridShape, FitState, Follows, QueueFits, GridShowsTrue
<1> QED
  BY <1>1, ReplyFits

\* What the head of the inbox is.
LEMMA HeadFits ==
  ASSUME GridShape, inbox # <<>>
  PROVE  LET m == Head(inbox)
         IN  /\ m \in ToGrid /\ m.id \in Nat \ {0} /\ m.revision \in Nat
             /\ m.at \in StatusReply /\ StatusFits(m.at, ready)
             /\ GridShowsTrue /\ m.id = grid.pending.id /\ m.type = "viewReady" =>
                    /\ grid.pending.revision \in 0 .. ready
                    /\ grid.pending.view = ViewIn(viewOf, grid.pending.revision)
<1> DEFINE m == inbox[1]
<1>1. inbox \in Seq(ToGrid) /\ 1 \in 1 .. Len(inbox) /\ Head(inbox) = m
  BY DEF GridShape
<1>2. m \in ToGrid
  BY <1>1
<1>3. StatusFits(m.at, ready)
  BY <1>1 DEF GridShape
<1>4. m.id \in Nat \ {0} /\ m.revision \in Nat /\ m.at \in StatusReply
  BY <1>2 DEF ToGrid
<1>5. ASSUME GridShowsTrue, m.id = grid.pending.id, m.type = "viewReady"
      PROVE  /\ grid.pending.revision \in 0 .. ready
             /\ grid.pending.view = ViewIn(viewOf, grid.pending.revision)
  <2>1. Accepted(grid, m.revision, rev, viewOf) /\ m.revision <= ready
    BY <1>1, <1>5 DEF GridShowsTrue, InboxFits
  <2>2. rev \in Nat /\ ready \in 0 .. rev
    BY DEF GridShape, ServerFits
  <2> QED
    BY <2>1, <2>2 DEF Accepted, ViewIn
<1> HIDE DEF m
<1> QED
  BY <1>1, <1>2, <1>3, <1>4, <1>5

LEMMA ReceivePageFits ==
  ASSUME GridShape, ReceivePage
  PROVE  \E x : Becomes(x) /\ FitReply(x)
<1> DEFINE m == Head(inbox)
           p == PageAnswered(grid, m)
           u == [p EXCEPT !.page = m.revision]
<1>1. inbox # <<>>
  BY DEF ReceivePage, Arrives
<1>2. m.id \in Nat \ {0} /\ m.revision \in Nat
  BY <1>1, HeadFits
<1>3. grid \in GridState /\ QueueFits(grid)
  BY DEF GridShape
<1>4. /\ p \in GridState /\ SameView(grid, p) /\ p.number = grid.number
      /\ p.drawn = grid.drawn /\ p.missed = grid.missed
      /\ ScreenFits(grid, rev, ready, viewOf) => ScreenFits(p, rev, ready, viewOf)
  BY <1>2, <1>3, PageAnsweredState
<1>5. Becomes(IF ~Known(grid, m) THEN With(grid)
              ELSE IF m.revision # grid.revision THEN With(p)
              ELSE Draw(With(u)))
  BY DEF ReceivePage
<1> HIDE DEF m, p
<1>6. CASE ~Known(grid, m)
  <2>1. Becomes(With(grid))
    BY <1>5, <1>6
  <2> QED
    BY <2>1, SameStateFits
<1>7. CASE Known(grid, m) /\ m.revision # grid.revision
  <2>1. Becomes(With(p))
    BY <1>5, <1>7
  <2>2. FitState(p) /\ QueueFits(p) /\ (GridShowsTrue => Current(p))
    BY <1>3, <1>4 DEF FitState, Follows, QueueFits, PendingFits, SameView, GridShowsTrue, Current
  <2> QED
    BY <2>1, <2>2, ReplyFits
<1>8. CASE Known(grid, m) /\ m.revision = grid.revision
  <2>1. Becomes(Draw(With(u)))
    BY <1>5, <1>8
  <2>2. u \in GridState
    BY <1>2, <1>4 DEF GridState
  <2>3. /\ u.number = p.number /\ u.revision = p.revision /\ u.applied = p.applied /\ u.draft = p.draft
        /\ u.pending = p.pending /\ u.queued = p.queued /\ u.timer = p.timer
        /\ u.page = m.revision /\ u.requests = p.requests /\ u.awaited = p.awaited
    BY <1>4 DEF GridState
  <2> HIDE DEF u
  <2>4. QueueFits(u)
    BY <1>3, <1>4, <2>3 DEF QueueFits, PendingFits, SameView
  <2>5. GridShowsTrue => ScreenFits(u, rev, ready, viewOf)
    BY <1>4, <1>8, <2>3 DEF GridShowsTrue, ScreenFits, SameView
  <2>6. FitState(u)
    BY <1>3, <1>4, <2>2, <2>3, <2>4, <2>5 DEF FitState, Follows, QueueFits, SameView
  <2> QED
    BY <2>1, <2>4, <2>6, ReplyFits
<1> QED
  BY <1>6, <1>7, <1>8

LEMMA ReceiveViewFits ==
  ASSUME GridShape, ReceiveView
  PROVE  \E x : Becomes(x) /\ FitReply(x)
<1> DEFINE m == Head(inbox)
           v == grid.pending
           a == [grid EXCEPT !.pending = NoView, !.next = v.revision]
           d == IF grid.queued THEN MovedTo(a, v.revision, v.view).draft ELSE v.view
           u == [MovedTo(a, v.revision, v.view) EXCEPT !.draft = d]
<1>1. inbox # <<>>
  BY DEF ReceiveView, Arrives
<1>2. /\ m.id \in Nat \ {0}
      /\ GridShowsTrue /\ m.id = v.id /\ m.type = "viewReady" =>
            v.revision \in 0 .. ready /\ v.view = ViewIn(viewOf, v.revision)
  BY <1>1, HeadFits
<1>3. grid \in GridState /\ QueueFits(grid)
  BY DEF GridShape
<1>4. NoView \in PendingView /\ NoView.id = 0
  BY GridAssumption DEF NoView, PendingView
<1>5. v.revision \in Nat /\ v.view \in Views
  BY <1>3, Fields
<1>6. /\ a \in GridState /\ SameScreen(grid, a) /\ a.pending = NoView /\ a.draft = grid.draft
      /\ a.queued = grid.queued /\ a.timer = grid.timer
  BY <1>3, <1>4, <1>5, AnsweredState
<1>7. Becomes(IF v.id # m.id THEN With(grid)
              ELSE SendQueued(Draw(With(IF m.type = "viewReady" THEN u ELSE a))))
  BY DEF ReceiveView
<1> HIDE DEF m, a
<1>8. CASE v.id # m.id
  <2>1. Becomes(With(grid))
    BY <1>7, <1>8
  <2> QED
    BY <2>1, SameStateFits
<1>9. CASE v.id = m.id
  <2>1. ~grid.timer
    BY <1>2, <1>3, <1>9 DEF QueueFits, PendingFits
  <2>2. FitState(a)
    <3>1. GridShowsTrue => ScreenFits(a, rev, ready, viewOf)
      BY <1>6, SameScreenShows DEF GridShowsTrue
    <3>2. Follows(grid, a)
      BY <1>3, <1>4, <1>6, <2>1, Fields DEF Follows, PendingFits, SameScreen
    <3> QED
      BY <1>6, <3>1, <3>2 DEF FitState
  <2>3. CASE m.type = "viewReady"
    <3>1. MovedTo(a, v.revision, v.view).draft = a.draft
      BY <1>6 DEF MovedTo, GridState
    <3>2. d \in Views /\ (grid.queued => d = grid.draft)
      BY <1>3, <1>5, <1>6, <3>1, Fields
    <3> HIDE DEF d
    <3>3. /\ u \in GridState /\ SameQueue(a, u) /\ u.draft = d
          /\ \A rv, rd, vo : ScreenFits(a, rv, rd, vo) /\ v.revision \in 0 .. rd /\ v.view = ViewIn(vo, v.revision)
                 => ScreenFits(u, rv, rd, vo)
      <4> DEFINE r == v.revision
                 z == v.view
                 y == MovedWith(a, r, z, d)
      <4>1. r \in Nat /\ z \in Views
        BY <1>5
      <4> HIDE DEF r, z
      <4>2. /\ y \in GridState /\ SameQueue(a, y) /\ y.draft = d
            /\ \A rv, rd, vo : ScreenFits(a, rv, rd, vo) /\ r \in 0 .. rd /\ z = ViewIn(vo, r)
                    => ScreenFits(y, rv, rd, vo)
        BY <1>6, <3>2, <4>1, MovedWithState
      <4>3. y = u
        BY DEF r, z, MovedWith
      <4> HIDE DEF u, y
      <4> QED
        BY <4>2, <4>3 DEF r, z
    <3> HIDE DEF u
    <3>4. GridShowsTrue => ScreenFits(u, rev, ready, viewOf)
      BY <1>2, <1>9, <2>2, <2>3, <3>3 DEF FitState
    <3>5. Follows(grid, u)
      BY <2>2, <3>3 DEF FitState, Follows, PendingFits, SameQueue
    <3>6. FitState(u)
      BY <2>1, <3>2, <3>3, <3>4, <3>5 DEF FitState
    <3>7. Becomes(SendQueued(Draw(With(u))))
      BY <1>7, <1>9, <2>3
    <3> QED
      BY <3>6, <3>7, ReplyFits
  <2>4. CASE m.type # "viewReady"
    <3>1. Becomes(SendQueued(Draw(With(a))))
      BY <1>7, <1>9, <2>4
    <3> QED
      BY <2>2, <3>1, ReplyFits
  <2> QED
    BY <2>3, <2>4
<1> QED
  BY <1>8, <1>9

LEMMA ReceiveCancelledFits ==
  ASSUME GridShape, ReceiveCancelled
  PROVE  \E x : Becomes(x) /\ FitReply(x)
<1> DEFINE m == Head(inbox)
           v == grid.pending
           a == [grid EXCEPT !.pending = NoView]
           b == [a EXCEPT !.next = v.revision]
           s == Synchronized(a, m.at, grid.queued)
<1>1. inbox # <<>>
  BY DEF ReceiveCancelled, Arrives
<1>2. m.id \in Nat \ {0} /\ m.at \in StatusReply /\ StatusFits(m.at, ready)
  BY <1>1, HeadFits
<1>3. grid \in GridState /\ QueueFits(grid) /\ ServerFits(rev, ready, status, viewOf)
  BY DEF GridShape
<1>4. NoView \in PendingView /\ NoView.id = 0
  BY GridAssumption DEF NoView, PendingView
<1>5. v.revision \in Nat /\ v.view \in Views /\ grid.queued \in BOOLEAN
  BY <1>3, Fields
<1>6. /\ a \in GridState /\ SameScreen(grid, a) /\ a.pending = NoView /\ a.draft = grid.draft
      /\ a.queued = grid.queued /\ a.timer = grid.timer
  BY <1>3, <1>4, <1>5, AnsweredState
<1>7. Becomes(IF v.id # m.id THEN With(grid)
              ELSE SendQueued(Draw(With(IF m.at # NoStatus THEN s ELSE b))))
  BY DEF ReceiveCancelled
<1> HIDE DEF m, a
<1>8. CASE v.id # m.id
  <2>1. Becomes(With(grid))
    BY <1>7, <1>8
  <2> QED
    BY <2>1, SameStateFits
<1>9. CASE v.id = m.id
  <2>1. ~grid.timer
    BY <1>2, <1>3, <1>9 DEF QueueFits, PendingFits
  <2>2. GridShowsTrue => ScreenFits(a, rev, ready, viewOf)
    BY <1>6, SameScreenShows DEF GridShowsTrue
  <2>3. Follows(grid, a)
    BY <1>3, <1>4, <1>6, <2>1, Fields DEF Follows, PendingFits, SameScreen
  <2>4. CASE m.at # NoStatus
    <3>1. /\ s \in GridState /\ SameQueue(a, s) /\ (grid.queued => s.draft = a.draft)
          /\ ScreenFits(a, rev, ready, viewOf) => ScreenFits(s, rev, ready, viewOf)
      BY <1>2, <1>3, <1>5, <1>6, <2>4, SynchronizedState
    <3> HIDE DEF s
    <3>2. Follows(grid, s)
      BY <2>3, <3>1 DEF Follows, PendingFits, SameQueue
    <3>3. FitState(s)
      BY <1>6, <2>1, <2>2, <3>1, <3>2 DEF FitState
    <3>4. Becomes(SendQueued(Draw(With(s))))
      BY <1>7, <1>9, <2>4
    <3> QED
      BY <3>3, <3>4, ReplyFits
  <2>5. CASE m.at = NoStatus
    <3>1. b \in GridState /\ SameScreen(a, b) /\ SameQueue(a, b) /\ b.draft = a.draft
      BY <1>5, <1>6 DEF GridState, SameScreen, SameQueue
    <3> HIDE DEF b
    <3>2. Follows(grid, b)
      BY <2>3, <3>1 DEF Follows, PendingFits, SameQueue
    <3>3. FitState(b)
      BY <1>6, <2>2, <3>1, <3>2, SameScreenShows DEF FitState
    <3>4. Becomes(SendQueued(Draw(With(b))))
      BY <1>7, <1>9, <2>5
    <3> QED
      BY <3>3, <3>4, ReplyFits
  <2> QED
    BY <2>4, <2>5
<1> QED
  BY <1>8, <1>9

LEMMA ReceiveRejectedFits ==
  ASSUME GridShape, ReceiveRejected
  PROVE  \E x : Becomes(x) /\ FitReply(x)
<1> DEFINE m == Head(inbox)
           v == grid.pending
           a == [grid EXCEPT !.pending = NoView]
           b == [a EXCEPT !.next = m.revision]
           s == Synchronized(a, m.at, TRUE)
           c == [s EXCEPT !.missed = TRUE]
           i == IF m.at # NoStatus THEN c ELSE b
           u == IF CanRetry(grid) THEN Retry(i) ELSE i
<1>1. inbox # <<>>
  BY DEF ReceiveRejected, Arrives
<1>2. m.id \in Nat \ {0} /\ m.revision \in Nat /\ m.at \in StatusReply /\ StatusFits(m.at, ready)
  BY <1>1, HeadFits
<1>3. grid \in GridState /\ QueueFits(grid) /\ ServerFits(rev, ready, status, viewOf)
  BY DEF GridShape
<1>4. NoView \in PendingView /\ NoView.id = 0
  BY GridAssumption DEF NoView, PendingView
<1>5. /\ a \in GridState /\ SameScreen(grid, a) /\ a.pending = NoView /\ a.draft = grid.draft
      /\ a.queued = grid.queued /\ a.timer = grid.timer /\ a.retries = grid.retries
  <2>1. 0 \in Nat
    OBVIOUS
  <2> QED
    BY <1>3, <1>4, <2>1, AnsweredState
<1>6. Becomes(IF v.id # m.id THEN With(grid) ELSE SendQueued(With(u)))
  BY DEF ReceiveRejected
<1> HIDE DEF m, a
<1>7. CASE v.id # m.id
  <2>1. Becomes(With(grid))
    BY <1>6, <1>7
  <2> QED
    BY <2>1, SameStateFits
<1>8. CASE v.id = m.id
  <2>1. ~grid.timer
    BY <1>2, <1>3, <1>8 DEF QueueFits, PendingFits
  <2>2. GridShowsTrue => ScreenFits(a, rev, ready, viewOf) /\ Current(a)
    BY <1>5, SameScreenShows DEF GridShowsTrue
  <2>3. Follows(grid, a)
    BY <1>3, <1>4, <1>5, <2>1, Fields DEF Follows, PendingFits, SameScreen
  <2>4. /\ i \in GridState /\ i.number = a.number /\ i.pending = a.pending /\ i.timer = a.timer
        /\ i.draft = a.draft /\ i.retries = a.retries
        /\ GridShowsTrue => ScreenFits(i, rev, ready, viewOf) /\ Current(i)
    <3>1. CASE m.at # NoStatus
      <4>1. /\ s \in GridState /\ SameQueue(a, s) /\ s.draft = a.draft /\ s.retries = a.retries
            /\ ScreenFits(a, rev, ready, viewOf) => ScreenFits(s, rev, ready, viewOf)
        <5>1. TRUE \in BOOLEAN
          OBVIOUS
        <5> QED
          BY <1>2, <1>3, <1>5, <3>1, <5>1, SynchronizedState
      <4> HIDE DEF s
      <4>2. /\ c \in GridState /\ SameQueue(s, c) /\ c.draft = s.draft /\ c.retries = s.retries /\ c.missed
            /\ c.revision = s.revision /\ c.applied = s.applied /\ c.page = s.page
            /\ c.requests = s.requests /\ c.awaited = s.awaited
        BY <4>1 DEF GridState, SameQueue
      <4> HIDE DEF c
      <4>3. ScreenFits(s, rev, ready, viewOf) => ScreenFits(c, rev, ready, viewOf)
        BY <4>2 DEF ScreenFits, SameQueue
      <4>4. i = c
        BY <3>1
      <4> QED
        BY <2>2, <4>1, <4>2, <4>3, <4>4 DEF SameQueue, Current
    <3>2. CASE m.at = NoStatus
      <4>1. b \in GridState /\ SameScreen(a, b) /\ SameQueue(a, b) /\ b.draft = a.draft /\ b.retries = a.retries
        BY <1>2, <1>5 DEF GridState, SameScreen, SameQueue
      <4> HIDE DEF b
      <4>2. i = b
        BY <3>2
      <4>3. GridShowsTrue => ScreenFits(b, rev, ready, viewOf) /\ Current(b)
        BY <2>2, <4>1, SameScreenShows
      <4> HIDE DEF i
      <4> QED
        BY <4>1, <4>2, <4>3 DEF SameQueue
    <3> QED
      BY <3>1, <3>2
  <2> HIDE DEF i
  <2>5. /\ u \in GridState /\ SameScreen(i, u) /\ u.pending = i.pending /\ u.draft = i.draft
        /\ u.timer = i.timer
    <3>1. CASE CanRetry(grid)
      <4>1. CanRetry(i)
        BY <1>5, <2>4, <3>1 DEF CanRetry
      <4> QED
        BY <2>4, <3>1, <4>1, RetryState
    <3>2. CASE ~CanRetry(grid)
      BY <2>4, <3>2 DEF SameScreen
    <3> QED
      BY <3>1, <3>2
  <2> HIDE DEF u
  <2>6. Follows(grid, u)
    BY <2>3, <2>4, <2>5 DEF Follows, PendingFits, SameScreen
  <2>7. FitState(u) /\ (GridShowsTrue => Current(u))
    BY <1>5, <2>4, <2>5, <2>6, SameScreenShows DEF FitState
  <2>8. Becomes(SendQueued(With(u)))
    BY <1>6, <1>8
  <2> QED
    BY <2>7, <2>8, ReplyFits
<1> QED
  BY <1>7, <1>8

LEMMA ReceiveErrorFits ==
  ASSUME GridShape, ReceiveError
  PROVE  \E x : Becomes(x) /\ FitReply(x)
<1> DEFINE m == Head(inbox)
           outdated == \E q \in grid.requests : q.id = m.id /\ q.revision # grid.revision
           failedView == grid.pending.id = m.id
           p == PageAnswered(grid, m)
           w == IF failedView THEN NoView ELSE p.pending
           a == [p EXCEPT !.pending = w]
           preserveDraft == grid.queued \/ grid.pending # NoView \/ grid.timer
           retry == failedView /\ ~grid.queued /\ CanRetry(grid)
           s == Synchronized(a, m.at, preserveDraft)
           u == IF retry THEN Retry(s) ELSE s
<1>1. inbox # <<>>
  BY DEF ReceiveError, Arrives
<1>2. m.id \in Nat \ {0} /\ m.at \in StatusReply /\ StatusFits(m.at, ready)
  BY <1>1, HeadFits
<1>3. grid \in GridState /\ QueueFits(grid) /\ ServerFits(rev, ready, status, viewOf)
  BY DEF GridShape
<1>4. NoView \in PendingView /\ NoView.id = 0
  BY GridAssumption DEF NoView, PendingView
<1>5. /\ p \in GridState /\ SameView(grid, p) /\ p.number = grid.number /\ p.retries = grid.retries
      /\ p.drawn = grid.drawn /\ p.missed = grid.missed
      /\ ScreenFits(grid, rev, ready, viewOf) => ScreenFits(p, rev, ready, viewOf)
  BY <1>2, <1>3, PageAnsweredState
<1>6. Becomes(IF outdated THEN With(p)
              ELSE IF ~(m.at # NoStatus /\ m.at.ready # grid.revision) THEN SendQueued(With(a))
              ELSE SendQueued(Draw(With(u))))
  BY DEF ReceiveError
<1> HIDE DEF m, p
<1>7. FitState(p) /\ QueueFits(p) /\ (GridShowsTrue => Current(p))
  BY <1>3, <1>5 DEF FitState, Follows, QueueFits, PendingFits, SameView, GridShowsTrue, Current
<1>8. /\ a \in GridState /\ SameScreen(p, a) /\ a.pending = w /\ a.draft = p.draft
      /\ a.queued = p.queued /\ a.timer = p.timer /\ a.retries = p.retries
  <2>1. w \in PendingView /\ 0 \in Nat
    BY <1>4, <1>5, Fields
  <2> HIDE DEF w
  <2> QED
    BY <1>5, <2>1, AnsweredState
<1>9. failedView => ~grid.timer
  BY <1>2, <1>3 DEF QueueFits, PendingFits
<1>10. Follows(grid, a)
  <2>1. CASE failedView
    BY <1>3, <1>4, <1>5, <1>8, <1>9, <2>1, Fields DEF Follows, PendingFits, SameScreen, SameView
  <2>2. CASE ~failedView
    BY <1>3, <1>5, <1>8, <2>2 DEF Follows, PendingFits, QueueFits, SameScreen, SameView
  <2> QED
    BY <2>1, <2>2
<1> HIDE DEF a
<1>11. FitState(a) /\ (GridShowsTrue => Current(a))
  BY <1>5, <1>7, <1>8, <1>10, SameScreenShows DEF FitState, SameView
<1>12. CASE outdated
  <2>1. Becomes(With(p))
    BY <1>6, <1>12
  <2> QED
    BY <1>7, <2>1, ReplyFits
<1>13. CASE ~outdated /\ ~(m.at # NoStatus /\ m.at.ready # grid.revision)
  <2>1. Becomes(SendQueued(With(a)))
    BY <1>6, <1>13
  <2> QED
    BY <1>11, <2>1, ReplyFits
<1>14. CASE ~outdated /\ m.at # NoStatus /\ m.at.ready # grid.revision
  <2>1. preserveDraft \in BOOLEAN /\ (grid.queued \/ grid.timer => preserveDraft)
    BY <1>3, Fields
  <2> HIDE DEF preserveDraft
  <2>2. /\ s \in GridState /\ SameQueue(a, s) /\ (preserveDraft => s.draft = a.draft) /\ s.retries = a.retries
        /\ ScreenFits(a, rev, ready, viewOf) => ScreenFits(s, rev, ready, viewOf)
    BY <1>2, <1>3, <1>8, <1>14, <2>1, SynchronizedState
  <2> HIDE DEF s
  <2>3. /\ u \in GridState /\ SameScreen(s, u) /\ u.pending = s.pending /\ u.draft = s.draft
        /\ u.timer = s.timer
    <3>1. CASE retry
      <4>1. CanRetry(s)
        BY <1>5, <1>8, <2>2, <3>1 DEF CanRetry
      <4> QED
        BY <2>2, <3>1, <4>1, RetryState
    <3>2. CASE ~retry
      BY <2>2, <3>2 DEF SameScreen
    <3> QED
      BY <3>1, <3>2
  <2> HIDE DEF u
  <2>4. Follows(grid, u)
    BY <1>10, <2>2, <2>3 DEF Follows, PendingFits, SameQueue, SameScreen
  <2>5. GridShowsTrue => ScreenFits(u, rev, ready, viewOf)
    BY <1>11, <2>2, <2>3, SameScreenShows DEF FitState
  <2>6. FitState(u)
    BY <1>5, <1>8, <2>1, <2>2, <2>3, <2>4, <2>5 DEF FitState, SameView
  <2>7. Becomes(SendQueued(Draw(With(u))))
    BY <1>6, <1>14
  <2> QED
    BY <2>6, <2>7, ReplyFits
<1> QED
  BY <1>12, <1>13, <1>14

-----------------------------------------------------------------------------
(* The user and the timer *)

\* An edit changes what is to be sent only.
LEMMA EditFits ==
  ASSUME GridShape, Edit
  PROVE  \E x : Becomes(x) /\ Fit(x)
<1>1. PICK v \in Views \ {grid.draft}, debounce \in BOOLEAN :
        LET edited == [grid EXCEPT !.draft = v, !.retries = 0, !.timer = FALSE]
        IN  Becomes(
                IF grid.pending # NoView THEN With([edited EXCEPT !.queued = TRUE])
                ELSE IF debounce THEN With([edited EXCEPT !.timer = TRUE])
                ELSE SendView(With(edited)))
  BY DEF Edit
<1> DEFINE e == [grid EXCEPT !.draft = v, !.retries = 0, !.timer = FALSE]
           q == [e EXCEPT !.queued = TRUE]
           d == [e EXCEPT !.timer = TRUE]
<1>2. grid \in GridState /\ QueueFits(grid) /\ rev \in Nat /\ ready \in 0 .. rev
  BY DEF GridShape, ServerFits
<1>3. e \in GridState /\ SameScreen(grid, e) /\ e.pending = grid.pending /\ e.queued = grid.queued /\ ~e.timer
  <2>1. 0 \in 0 .. MaxRetries /\ v \in Views
    BY DEF MaxRetries
  <2> QED
    BY <1>2, <2>1 DEF GridState, SameScreen
<1>4. Becomes(IF grid.pending # NoView THEN With(q) ELSE IF debounce THEN With(d) ELSE SendView(With(e)))
  BY <1>1
<1> HIDE DEF e
<1>5. q \in GridState /\ SameScreen(e, q) /\ q.pending = e.pending /\ q.queued /\ ~q.timer
  BY <1>3 DEF GridState, SameScreen
<1>6. d \in GridState /\ SameScreen(e, d) /\ d.pending = e.pending /\ d.queued = e.queued
  BY <1>3 DEF GridState, SameScreen
<1> HIDE DEF q, d
<1>7. GridShowsTrue => Shows(e, rev, ready, viewOf) /\ Shows(q, rev, ready, viewOf) /\ Shows(d, rev, ready, viewOf)
  <2>1. GridShowsTrue => ScreenFits(grid, rev, ready, viewOf) /\ Current(grid)
    BY DEF GridShowsTrue
  <2>2. GridShowsTrue => ScreenFits(e, rev, ready, viewOf) /\ Current(e)
    BY <1>3, <2>1, SameScreenShows
  <2> QED
    BY <1>5, <1>6, <2>2, SameScreenShows DEF Shows
<1>8. CASE grid.pending # NoView
  <2>1. QueueFits(q) /\ Follows(grid, q)
    BY <1>2, <1>3, <1>5, <1>8 DEF QueueFits, PendingFits, Follows, SameScreen
  <2>2. Fit(With(q))
    BY <1>2, <1>5, <1>7, <2>1, Replied, WithOp DEF Fit, Sound
  <2>3. Becomes(With(q))
    BY <1>4, <1>8
  <2> QED
    BY <2>2, <2>3
<1>9. CASE grid.pending = NoView /\ debounce
  <2>1. QueueFits(d) /\ Follows(grid, d)
    BY <1>2, <1>3, <1>6, <1>9 DEF QueueFits, PendingFits, Follows, SameScreen
  <2>2. Fit(With(d))
    BY <1>2, <1>6, <1>7, <2>1, Replied, WithOp DEF Fit, Sound
  <2>3. Becomes(With(d))
    BY <1>4, <1>9
  <2> QED
    BY <2>2, <2>3
<1>10. CASE grid.pending = NoView /\ ~debounce
  <2>1. With(e).t = e /\ Keeps(grid, With(e))
    BY <1>2, <1>3, WithOp, WithKeeps DEF SameScreen
  <2>2. PendingFits(e) /\ (e.queued => e.pending.id # 0)
    BY <1>2, <1>3 DEF QueueFits, PendingFits, SameScreen
  <2> DEFINE z == With(e)
  <2> HIDE DEF z
  <2>3. z.t = e /\ Keeps(grid, z)
    BY <2>1 DEF z
  <2>4. Fit(SendView(z))
    BY <1>2, <1>7, <2>2, <2>3, SendKeeps DEF Fit
  <2>5. Becomes(SendView(z))
    BY <1>4, <1>10 DEF z
  <2> QED
    BY <2>4, <2>5
<1> QED
  BY <1>8, <1>9, <1>10, SMTT(30)

LEMMA CancelFits ==
  ASSUME GridShape, Cancel
  PROVE  \E x : Becomes(x) /\ Fit(x)
<1> DEFINE u == [grid EXCEPT !.timer = FALSE, !.queued = FALSE, !.draft = grid.applied, !.pending.cancelled = TRUE]
           w == [grid.pending EXCEPT !.cancelled = TRUE]
           m == [type |-> "cancelView", id |-> u.number + 1, view |-> AllRows, revision |-> u.revision]
           s == [u EXCEPT !.number = u.number + 1]
           y == Post(With(u), "cancelView", AllRows)
<1>1. grid \in GridState /\ QueueFits(grid) /\ rev \in Nat /\ ready \in 0 .. rev
  BY DEF GridShape, ServerFits
<1>2. grid.pending # NoView /\ Becomes(y)
  BY DEF Cancel
<1>3. grid.pending \in PendingView /\ grid.applied \in Views
  BY <1>1, Fields
<1>4. w \in PendingView /\ w.id = grid.pending.id /\ w.revision = grid.pending.revision /\ w.view = grid.pending.view /\ w.cancelled
  BY <1>3 DEF PendingView
<1>5. u = [grid EXCEPT !.timer = FALSE, !.queued = FALSE, !.draft = grid.applied, !.pending = w]
  BY <1>1 DEF GridState
<1> HIDE DEF w
<1>6. u \in GridState /\ SameScreen(grid, u) /\ u.pending = w /\ ~u.queued /\ ~u.timer
  <2>1. ASSUME NEW z, z = [grid EXCEPT !.timer = FALSE, !.queued = FALSE, !.draft = grid.applied, !.pending = w]
        PROVE  z \in GridState /\ SameScreen(grid, z) /\ z.pending = w /\ ~z.queued /\ ~z.timer
    BY <1>1, <1>3, <1>4, <2>1 DEF GridState, SameScreen
  <2> HIDE DEF u
  <2> QED
    BY <1>5, <2>1
<1> HIDE DEF u
<1>7. With(u) \in GridOp /\ With(u).t = u /\ With(u).sent = <<>>
  BY <1>6, WithOp
<1>8. AllRows \in Views
  BY GridAssumption
<1>9. /\ y = [t |-> s, sent |-> Append(<<>>, m)] /\ s \in GridState /\ m \in ToHost /\ y \in GridOp
  <2> DEFINE z == With(u)
  <2> HIDE DEF z
  <2>1. z \in GridOp /\ z.t = u /\ z.sent = <<>>
    BY <1>7 DEF z
  <2>2. LET r == Post(z, "cancelView", AllRows)
             a == [z.t EXCEPT !.number = z.t.number + 1]
             b == [type |-> "cancelView", id |-> z.t.number + 1, view |-> AllRows, revision |-> z.t.revision]
        IN  r = [t |-> a, sent |-> Append(z.sent, b)] /\ a \in GridState /\ b \in ToHost /\ r \in GridOp
    BY <1>8, <2>1, PostOp
  <2> QED
    BY <2>1, <2>2 DEF z
<1>10. /\ s.number = u.number + 1 /\ s.pending = u.pending /\ ~s.queued /\ ~s.timer
       /\ s.revision = u.revision /\ s.applied = u.applied /\ s.page = u.page
       /\ s.requests = u.requests /\ s.awaited = u.awaited /\ s.drawn = u.drawn /\ s.missed = u.missed
  BY <1>6 DEF GridState
<1>11. m.id = u.number + 1 /\ m.type # "setView"
  OBVIOUS
<1> HIDE DEF y, m, s
<1>12. y.t = s /\ y.sent = Append(<<>>, m)
  BY <1>9
<1>13. Len(y.sent) = 1 /\ y.sent[1] = m
  BY <1>12
<1>14. u.number \in Nat /\ u.number = grid.number /\ grid.pending.id \in Nat
  BY <1>1, <1>6, Fields DEF SameScreen
<1>15. Keeps(grid, y)
  BY <1>4, <1>6, <1>9, <1>10, <1>11, <1>12, <1>13, <1>14 DEF Keeps, Asks
<1>16. QueueFits(s)
  <2>1. w # NoView /\ w.id # 0
    BY <1>1, <1>2, <1>4 DEF NoView, QueueFits, PendingFits
  <2> QED
    BY <1>1, <1>4, <1>6, <1>10, <1>14, <2>1 DEF QueueFits, PendingFits
<1>17. GridShowsTrue => Shows(s, rev, ready, viewOf)
  <2>1. GridShowsTrue => ScreenFits(u, rev, ready, viewOf) /\ Current(u)
    BY <1>6, SameScreenShows DEF GridShowsTrue
  <2> QED
    BY <1>10, <1>14, <2>1 DEF Shows, ScreenFits, Current
<1> QED
  BY <1>2, <1>12, <1>15, <1>16, <1>17 DEF Fit

LEMMA ScrollFits ==
  ASSUME GridShape, Scroll
  PROVE  \E x : Becomes(x) /\ Fit(x)
<1>1. Becomes(Draw(With(grid)))
  BY DEF Scroll
<1>2. FitReply(Draw(With(grid)))
  BY SameStateFits, ReplyFits
<1> QED
  BY <1>1, <1>2 DEF FitReply

LEMMA TimerFits ==
  ASSUME GridShape, GridTimerFires
  PROVE  \E x : Becomes(x) /\ Fit(x)
<1> DEFINE z == With(grid)
<1>1. Becomes(SendView(z))
  BY DEF GridTimerFires
<1>2. grid \in GridState /\ QueueFits(grid) /\ rev \in Nat /\ ready \in 0 .. rev
  BY DEF GridShape, ServerFits
<1>3. z.t = grid /\ Keeps(grid, z)
  BY <1>2, WithOp, WithKeeps
<1> HIDE DEF z
<1>4. Fit(SendView(z))
  BY <1>2, <1>3, SendKeeps DEF Fit, QueueFits, GridShowsTrue, Shows
<1> QED
  BY <1>1, <1>4

-----------------------------------------------------------------------------
(* The invariant *)

\* A step of the grid keeps the invariant.
LEMMA GridSteps ==
  ASSUME GridShape, NEW x, Becomes(x), Fit(x), UNCHANGED <<serverVars, viewOf, gridCalls>>, renders' \in Nat,
         UNCHANGED inbox \/ (inbox # <<>> /\ inbox' = Tail(inbox))
  PROVE  GridShape' /\ (GridTrue /\ renders' # 0 => GridTrue')
<1>1. grid' = x.t /\ outbox' = outbox \o x.sent
  BY DEF Becomes
<1>2. x \in GridOp /\ x.t \in GridState /\ x.sent \in Seq(ToHost)
  BY DEF Fit, Keeps, GridOp
<1>3. rev' = rev /\ ready' = ready /\ status' = status /\ viewOf' = viewOf /\ gridCalls' = gridCalls
  BY DEF serverVars
<1>4. /\ ServerFits(rev, ready, status, viewOf) /\ grid \in GridState
      /\ outbox \in Seq(ToHost) /\ inbox \in Seq(ToGrid) /\ gridCalls \subseteq HostCall
  BY DEF GridShape
<1>5. inbox' \in Seq(ToGrid) /\ \A i \in 1 .. Len(inbox') : \E j \in 1 .. Len(inbox) : inbox'[i] = inbox[j]
  <2>1. CASE inbox' = inbox
    BY <1>4, <2>1
  <2>2. CASE inbox # <<>> /\ inbox' = Tail(inbox)
    <3> DEFINE T == Tail(inbox)
    <3>1. T \in Seq(ToGrid) /\ Len(T) = Len(inbox) - 1 /\ \A i \in 1 .. Len(T) : T[i] = inbox[i + 1]
      BY <1>4, <2>2, HeadTailProperties
    <3>2. inbox' = T /\ Len(inbox) \in Nat
      BY <1>4, <2>2
    <3> HIDE DEF T
    <3> SUFFICES ASSUME NEW i \in 1 .. Len(T)
                 PROVE  \E j \in 1 .. Len(inbox) : T[i] = inbox[j]
      BY <3>1, <3>2
    <3>3. i + 1 \in 1 .. Len(inbox)
      BY <3>1, <3>2
    <3> QED
      BY <3>1, <3>3
  <2> QED
    BY <2>1, <2>2
<1>6. outbox' \in Seq(ToHost)
  BY <1>1, <1>2, <1>4
<1>7. GridShape'
  BY <1>1, <1>2, <1>3, <1>5, <1>6 DEF GridShape, Fit
<1>8. ASSUME GridTrue, renders' # 0
      PROVE  GridTrue'
  <2>1. GridShowsTrue
    BY <1>8 DEF GridTrue, GridShowsTrue
  <2>2. ScreenFits(grid', rev', ready', viewOf') /\ Current(grid')
    BY <1>1, <1>3, <2>1 DEF Fit, Shows
  <2>3. /\ grid.number \in Nat /\ x.t.number \in Nat /\ x.t.number >= grid.number /\ x.t.pending.id \in Nat
        /\ \A n \in Nat \ {0} : n <= grid.number /\ n = x.t.pending.id =>
                /\ n = grid.pending.id /\ x.t.pending.revision = grid.pending.revision
                /\ x.t.pending.view = grid.pending.view
    BY <1>2, <1>4, Fields, SMTT(30) DEF Fit, Keeps
  <2>4. OutboxFits(grid', outbox')
    <3> SUFFICES ASSUME NEW i \in 1 .. Len(outbox')
                 PROVE  outbox'[i].id <= x.t.number /\ Asks(x.t, outbox'[i])
      BY <1>1 DEF OutboxFits
    <3>1. \/ i \in 1 .. Len(outbox) /\ outbox'[i] = outbox[i]
          \/ i - Len(outbox) \in 1 .. Len(x.sent) /\ outbox'[i] = x.sent[i - Len(outbox)]
      BY <1>1, <1>2, <1>4
    <3>2. CASE i \in 1 .. Len(outbox) /\ outbox'[i] = outbox[i]
      <4>1. outbox[i] \in ToHost
        BY <1>4, <3>2
      <4>2. outbox[i].id \in Nat \ {0}
        BY <4>1 DEF ToHost
      <4>3. outbox[i].id <= grid.number /\ Asks(grid, outbox[i])
        BY <1>8, <3>2 DEF GridTrue, OutboxFits
      <4> QED
        BY <2>3, <3>2, <4>2, <4>3 DEF Asks
    <3>3. CASE i - Len(outbox) \in 1 .. Len(x.sent) /\ outbox'[i] = x.sent[i - Len(outbox)]
      <4> DEFINE j == i - Len(outbox)
      <4>1. x.sent[j].id \in (grid.number + 1) .. x.t.number /\ Asks(x.t, x.sent[j])
        BY <3>3 DEF Fit, Keeps
      <4> HIDE DEF j
      <4>2. outbox'[i] = x.sent[j]
        BY <3>3 DEF j
      <4> QED
        BY <2>3, <4>1, <4>2
    <3> QED
      BY <3>1, <3>2, <3>3
  <2>5. InboxFits(grid', inbox', rev', ready', viewOf')
    <3> SUFFICES ASSUME NEW j \in 1 .. Len(inbox)
                 PROVE  /\ inbox[j].id <= x.t.number
                        /\ inbox[j].id = x.t.pending.id /\ inbox[j].type = "viewReady" =>
                            Accepted(x.t, inbox[j].revision, rev, viewOf) /\ inbox[j].revision <= ready
      BY <1>1, <1>3, <1>5 DEF InboxFits
    <3>1. inbox[j] \in ToGrid
      BY <1>4
    <3>2. inbox[j].id \in Nat \ {0}
      BY <3>1 DEF ToGrid
    <3>3. /\ inbox[j].id <= grid.number
          /\ inbox[j].id = grid.pending.id /\ inbox[j].type = "viewReady" =>
                Accepted(grid, inbox[j].revision, rev, viewOf) /\ inbox[j].revision <= ready
      BY <1>8 DEF GridTrue, InboxFits
    <3> QED
      BY <2>3, <3>2, <3>3 DEF Accepted
  <2>6. \A c \in gridCalls' : CallFits(grid', c, rev', ready', viewOf')
    <3> SUFFICES ASSUME NEW c \in gridCalls
                 PROVE  CallFits(x.t, c, rev, ready, viewOf)
      BY <1>1, <1>3
    <3>1. c.id \in Nat \ {0}
      BY <1>4 DEF HostCall
    <3>2. CallFits(grid, c, rev, ready, viewOf)
      BY <1>8 DEF GridTrue
    <3> QED
      BY <2>3, <3>1, <3>2 DEF CallFits, Accepted
  <2> QED
    BY <1>7, <1>8, <2>2, <2>4, <2>5, <2>6 DEF GridTrue, Untouched
<1> QED
  BY <1>7, <1>8

\* The server accepts views and gets them ready; it forgets none.
Grows(rv, rd, vo, rv2, rd2, vo2) ==
    /\ rv2 \in Nat /\ rv2 >= rv /\ rd2 \in rd .. rv2
    /\ \A r \in 1 .. rv : vo2[r] = vo[r]

\* What was true stays true of a server that grows.
LEMMA GrowthKeeps ==
  ASSUME NEW t, NEW rv \in Nat, NEW rd \in 0 .. rv, NEW vo, NEW rv2, NEW rd2, NEW vo2,
         Grows(rv, rd, vo, rv2, rd2, vo2)
  PROVE  /\ ScreenFits(t, rv, rd, vo) => ScreenFits(t, rv2, rd2, vo2)
         /\ \A r \in Nat : Accepted(t, r, rv, vo) => Accepted(t, r, rv2, vo2)
         /\ \A ib \in Seq(ToGrid) : InboxFits(t, ib, rv, rd, vo) => InboxFits(t, ib, rv2, rd2, vo2)
         /\ \A c \in HostCall : CallFits(t, c, rv, rd, vo) => CallFits(t, c, rv2, rd2, vo2)
         /\ \A at : StatusFits(at, rd) => StatusFits(at, rd2)
<1>1. rv2 \in Nat /\ rv2 >= rv /\ rd2 \in rd .. rv2 /\ rd \in Nat /\ rd2 \in Nat
      /\ \A r \in 1 .. rv : vo2[r] = vo[r]
  BY DEF Grows
<1>2. ScreenFits(t, rv, rd, vo) => ScreenFits(t, rv2, rd2, vo2)
  <2> SUFFICES ASSUME ScreenFits(t, rv, rd, vo)
               PROVE  ScreenFits(t, rv2, rd2, vo2)
    OBVIOUS
  <2>1. t.revision \in 0 .. rd /\ t.revision \in 0 .. rd2
    BY <1>1 DEF ScreenFits
  <2>2. ViewIn(vo2, t.revision) = ViewIn(vo, t.revision)
    BY <1>1, <2>1 DEF ViewIn
  <2>3. \A q \in t.requests : q.revision \in 0 .. rv2
    BY <1>1 DEF ScreenFits
  <2> QED
    BY <2>1, <2>2, <2>3 DEF ScreenFits
<1>3. \A r \in Nat : Accepted(t, r, rv, vo) => Accepted(t, r, rv2, vo2)
  BY <1>1 DEF Accepted
<1>4. ASSUME NEW ib \in Seq(ToGrid), InboxFits(t, ib, rv, rd, vo)
      PROVE  InboxFits(t, ib, rv2, rd2, vo2)
  <2> SUFFICES ASSUME NEW i \in 1 .. Len(ib), ib[i].id = t.pending.id, ib[i].type = "viewReady"
               PROVE  Accepted(t, ib[i].revision, rv2, vo2) /\ ib[i].revision <= rd2
    BY <1>4 DEF InboxFits
  <2>1. Accepted(t, ib[i].revision, rv, vo) /\ ib[i].revision <= rd
    BY <1>4 DEF InboxFits
  <2>2. ib[i] \in ToGrid
    OBVIOUS
  <2>3. ib[i].revision \in Nat
    BY <2>2 DEF ToGrid
  <2> QED
    BY <1>1, <1>3, <2>1, <2>3
<1>5. ASSUME NEW c \in HostCall, CallFits(t, c, rv, rd, vo)
      PROVE  CallFits(t, c, rv2, rd2, vo2)
  <2>1. c.revision \in Nat
    BY DEF HostCall
  <2> QED
    BY <1>1, <1>3, <1>5, <2>1 DEF CallFits
<1>6. \A at : StatusFits(at, rd) => StatusFits(at, rd2)
  BY <1>1 DEF StatusFits
<1> QED
  BY <1>2, <1>3, <1>4, <1>5, <1>6

\* What the server may do, with the views the host knows of.
ServerMoves ==
    /\ ServerFits(rev', ready', status', viewOf')
    /\ Grows(rev, ready, viewOf, rev', ready', viewOf')

LEMMA ServerStays ==
  ASSUME GridShape, UNCHANGED <<rev, ready, status, viewOf>>
  PROVE  ServerMoves
  BY DEF GridShape, ServerFits, ServerMoves, Grows

LEMMA ServerSubmits ==
  ASSUME GridShape, Session!Submit, NEW v \in Views, viewOf' = Append(viewOf, v)
  PROVE  ServerMoves /\ rev' = rev + 1 /\ viewOf'[rev'] = v
<1>1. ServerFits(rev, ready, status, viewOf)
  BY DEF GridShape
<1>2. rev' = rev + 1 /\ ready' = ready /\ status' # "ready"
  BY DEF Session!Submit
<1> QED
  BY <1>1, <1>2 DEF ServerFits, ServerMoves, Grows

LEMMA ServerEvaluates ==
  ASSUME GridShape, Session!Publish \/ Session!Fail \/ Session!Withdraw, viewOf' = viewOf
  PROVE  ServerMoves
  BY DEF GridShape, ServerFits, ServerMoves, Grows, Session!Publish, Session!Fail, Session!Withdraw

\* A call goes on as it was, or there is a reason for what it has become.
SameCall(c, d) == d \in HostCall /\ d.id = c.id /\ d.revision = c.revision /\ d.phase = c.phase /\ d.at = c.at
CallIsDue(d) ==
    /\ d \in HostCall /\ StatusFits(d.at, ready')
    /\ GridTrue => CallFits(grid, d, rev', ready', viewOf')
CallsGoOn == \A d \in gridCalls' : (\E c \in gridCalls : SameCall(c, d)) \/ CallIsDue(d)

\* A step of the host or of the server keeps the invariant.
LEMMA HostChanges ==
  ASSUME GridShape, UNCHANGED <<grid, renders>>, ServerMoves, CallsGoOn,
         UNCHANGED outbox \/ (outbox # <<>> /\ outbox' = Tail(outbox)),
         \/ UNCHANGED inbox
         \/ \E c \in gridCalls :
                /\ c.phase \in Replies
                /\ inbox' = Append(inbox, [type |-> c.phase, id |-> c.id, revision |-> c.revision, at |-> c.at]),
         gridCalls = {} /\ outbox = <<>> => gridCalls' = {}
  PROVE  GridShape' /\ (GridTrue => GridTrue')
<1>1. /\ ServerFits(rev, ready, status, viewOf) /\ grid \in GridState /\ QueueFits(grid) /\ renders \in Nat
      /\ outbox \in Seq(ToHost)
      /\ inbox \in Seq(ToGrid) /\ \A i \in 1 .. Len(inbox) : StatusFits(inbox[i].at, ready)
      /\ gridCalls \subseteq HostCall /\ \A c \in gridCalls : StatusFits(c.at, ready)
  BY DEF GridShape
<1>2. /\ rev \in Nat /\ ready \in 0 .. rev
      /\ ServerFits(rev', ready', status', viewOf')
      /\ Grows(rev, ready, viewOf, rev', ready', viewOf')
  BY <1>1 DEF ServerMoves, ServerFits
<1>3. /\ ScreenFits(grid, rev, ready, viewOf) => ScreenFits(grid, rev', ready', viewOf')
      /\ \A ib \in Seq(ToGrid) : InboxFits(grid, ib, rev, ready, viewOf) => InboxFits(grid, ib, rev', ready', viewOf')
      /\ \A c \in HostCall : CallFits(grid, c, rev, ready, viewOf) => CallFits(grid, c, rev', ready', viewOf')
      /\ \A at : StatusFits(at, ready) => StatusFits(at, ready')
  BY <1>2, GrowthKeeps
<1>4. gridCalls' \subseteq HostCall /\ \A d \in gridCalls' : StatusFits(d.at, ready')
  BY <1>1, <1>3 DEF CallsGoOn, SameCall, CallIsDue
<1>5. /\ outbox' \in Seq(ToHost)
      /\ \A i \in 1 .. Len(outbox') : \E j \in 1 .. Len(outbox) : outbox'[i] = outbox[j]
  <2>1. CASE outbox' = outbox
    BY <1>1, <2>1
  <2>2. CASE outbox # <<>> /\ outbox' = Tail(outbox)
    <3> DEFINE T == Tail(outbox)
    <3>1. T \in Seq(ToHost) /\ Len(T) = Len(outbox) - 1 /\ \A i \in 1 .. Len(T) : T[i] = outbox[i + 1]
      BY <1>1, <2>2, HeadTailProperties
    <3>2. outbox' = T /\ Len(outbox) \in Nat
      BY <1>1, <2>2
    <3> HIDE DEF T
    <3> SUFFICES ASSUME NEW i \in 1 .. Len(T)
                 PROVE  \E j \in 1 .. Len(outbox) : T[i] = outbox[j]
      BY <3>1, <3>2
    <3>3. i + 1 \in 1 .. Len(outbox)
      BY <3>1, <3>2
    <3> QED
      BY <3>1, <3>3
  <2> QED
    BY <2>1, <2>2
<1>6. /\ inbox' \in Seq(ToGrid) /\ \A i \in 1 .. Len(inbox') : StatusFits(inbox'[i].at, ready')
      /\ GridTrue => InboxFits(grid, inbox', rev', ready', viewOf')
  <2>1. CASE inbox' = inbox
    BY <1>1, <1>3, <2>1 DEF GridTrue
  <2>2. ASSUME NEW c \in gridCalls, c.phase \in Replies,
               inbox' = Append(inbox, [type |-> c.phase, id |-> c.id, revision |-> c.revision, at |-> c.at])
        PROVE  /\ inbox' \in Seq(ToGrid) /\ \A i \in 1 .. Len(inbox') : StatusFits(inbox'[i].at, ready')
               /\ GridTrue => InboxFits(grid, inbox', rev', ready', viewOf')
    <3> DEFINE m == [type |-> c.phase, id |-> c.id, revision |-> c.revision, at |-> c.at]
    <3>1. c \in HostCall /\ StatusFits(c.at, ready)
      BY <1>1
    <3>2. m \in ToGrid /\ StatusFits(m.at, ready') /\ m.id = c.id /\ m.type = c.phase /\ m.revision = c.revision
      BY <1>3, <2>2, <3>1 DEF HostCall, ToGrid
    <3> HIDE DEF m
    <3>3. inbox' = Append(inbox, m)
      BY <2>2 DEF m
    <3>4. inbox' \in Seq(ToGrid) /\ Len(inbox') = Len(inbox) + 1 /\ Len(inbox) \in Nat
          /\ inbox'[Len(inbox) + 1] = m /\ \A i \in 1 .. Len(inbox) : inbox'[i] = inbox[i]
      BY <1>1, <3>2, <3>3
    <3>5. ASSUME NEW i \in 1 .. Len(inbox')
          PROVE  (i \in 1 .. Len(inbox) /\ inbox'[i] = inbox[i]) \/ inbox'[i] = m
      BY <3>4
    <3>6. \A i \in 1 .. Len(inbox') : StatusFits(inbox'[i].at, ready')
      BY <1>1, <1>3, <3>2, <3>5
    <3>7. ASSUME GridTrue
          PROVE  InboxFits(grid, inbox', rev', ready', viewOf')
      <4>1. InboxFits(grid, inbox, rev', ready', viewOf') /\ CallFits(grid, c, rev', ready', viewOf')
        BY <1>1, <1>3, <3>1, <3>7 DEF GridTrue
      <4> QED
        BY <3>2, <3>5, <4>1 DEF InboxFits, CallFits
    <3> QED
      BY <3>4, <3>6, <3>7
  <2> QED
    BY <2>1, <2>2
<1>7. GridShape'
  BY <1>1, <1>2, <1>4, <1>5, <1>6 DEF GridShape
<1>8. ASSUME GridTrue
      PROVE  GridTrue'
  <2>1. ScreenFits(grid', rev', ready', viewOf') /\ Current(grid')
    BY <1>3, <1>8 DEF GridTrue
  <2>2. OutboxFits(grid', outbox')
    BY <1>5, <1>8 DEF GridTrue, OutboxFits
  <2>3. InboxFits(grid', inbox', rev', ready', viewOf')
    BY <1>6, <1>8
  <2>4. \A d \in gridCalls' : CallFits(grid', d, rev', ready', viewOf')
    <3> SUFFICES ASSUME NEW d \in gridCalls', NEW c \in gridCalls, SameCall(c, d)
                 PROVE  CallFits(grid, d, rev', ready', viewOf')
      BY <1>8 DEF CallsGoOn, CallIsDue
    <3>1. CallFits(grid, c, rev', ready', viewOf')
      BY <1>1, <1>3, <1>8 DEF GridTrue
    <3> QED
      BY <3>1 DEF CallFits, SameCall
  <2>5. Untouched'
    <3> SUFFICES ASSUME renders = 0
                 PROVE  grid' = Fresh /\ outbox' = <<>> /\ inbox' = <<>> /\ gridCalls' = {}
      BY DEF Untouched
    <3>1. grid = Fresh /\ outbox = <<>> /\ inbox = <<>> /\ gridCalls = {}
      BY <1>8 DEF GridTrue, Untouched
    <3> QED
      BY <3>1
  <2> QED
    BY <1>7, <2>1, <2>2, <2>3, <2>4, <2>5 DEF GridTrue
<1> QED
  BY <1>7, <1>8

\* What the head of the outbox is.
LEMMA OutHead ==
  ASSUME GridShape, outbox # <<>>
  PROVE  LET m == Head(outbox)
         IN  /\ m \in ToHost /\ m.id \in Nat \ {0} /\ m.revision \in Nat /\ m.view \in Views
             /\ GridTrue => m.id <= grid.number /\ Asks(grid, m)
<1>1. outbox \in Seq(ToHost) /\ 1 \in 1 .. Len(outbox) /\ Head(outbox) = outbox[1]
  BY DEF GridShape
<1>2. outbox[1] \in ToHost
  BY <1>1
<1>3. outbox[1].id \in Nat \ {0} /\ outbox[1].revision \in Nat /\ outbox[1].view \in Views
  BY <1>2 DEF ToHost
<1>4. GridTrue => outbox[1].id <= grid.number /\ Asks(grid, outbox[1])
  BY <1>1 DEF GridTrue, OutboxFits
<1> QED
  BY <1>1, <1>2, <1>3, <1>4

\* A call that has no view to wait for is due whenever its number was given.
LEMMA NewCall ==
  ASSUME GridShape, NEW id \in Nat \ {0}, GridTrue => id <= grid.number, NEW r \in Nat,
         NEW stage \in Phases \ {"evaluating", "answered", "viewReady"}, NEW at \in StatusReply,
         StatusFits(at, ready'), NEW listed \in BOOLEAN, NEW cancelled \in BOOLEAN, NEW n \in Nat
  PROVE  CallIsDue([id |-> id, revision |-> r, phase |-> stage, at |-> at,
                    render |-> n, listed |-> listed, cancelled |-> cancelled])
<1> DEFINE d == [id |-> id, revision |-> r, phase |-> stage, at |-> at,
                 render |-> n, listed |-> listed, cancelled |-> cancelled]
<1>1. d \in HostCall
  BY DEF HostCall
<1>2. d.id = id /\ d.phase = stage /\ d.at = at
  OBVIOUS
<1> HIDE DEF d
<1>3. GridTrue => CallFits(grid, d, rev', ready', viewOf')
  BY <1>2 DEF CallFits
<1>4. CallIsDue(d)
  BY <1>1, <1>2, <1>3 DEF CallIsDue
<1> QED
  BY <1>4 DEF d

\* The call for a message, before anything was answered.
LEMMA CallOfMessage ==
  ASSUME GridShape, outbox # <<>>, NEW m, m = Head(outbox), NEW stage \in Phases, NEW c, c = GridCall(m, stage)
  PROVE  /\ c \in HostCall /\ c.id = m.id /\ c.revision = m.revision /\ c.phase = stage /\ c.at = NoStatus
         /\ stage \notin {"evaluating", "answered", "viewReady"} => CallIsDue(c)
<1>1. /\ m.id \in Nat \ {0} /\ m.revision \in Nat /\ renders \in Nat
      /\ GridTrue => m.id <= grid.number
  BY OutHead DEF GridShape
<1>2. NoStatus \in StatusReply /\ StatusFits(NoStatus, ready')
  BY DEF NoStatus, StatusReply, StatusFits
<1>3. ASSUME NEW id \in Nat \ {0}, NEW r \in Nat, NEW n \in Nat, NEW b \in BOOLEAN,
             GridTrue => id <= grid.number,
             c = [id |-> id, revision |-> r, phase |-> stage, at |-> NoStatus,
                  render |-> n, listed |-> b, cancelled |-> FALSE]
      PROVE  /\ c \in HostCall /\ c.id = id /\ c.revision = r /\ c.phase = stage /\ c.at = NoStatus
             /\ stage \notin {"evaluating", "answered", "viewReady"} => CallIsDue(c)
  <2> DEFINE at == NoStatus
             f == FALSE
  <2>1. at \in StatusReply /\ StatusFits(at, ready') /\ f \in BOOLEAN
    BY <1>2
  <2> HIDE DEF at, f
  <2>2. c = [id |-> id, revision |-> r, phase |-> stage, at |-> at, render |-> n, listed |-> b, cancelled |-> f]
    BY <1>3 DEF at, f
  <2>3. c \in HostCall /\ c.id = id /\ c.revision = r /\ c.phase = stage /\ c.at = at
    BY <2>1, <2>2 DEF HostCall
  <2>4. stage \notin {"evaluating", "answered", "viewReady"} => CallIsDue(c)
    BY <1>3, <2>1, <2>2, NewCall
  <2> QED
    BY <2>3, <2>4 DEF at
<1>4. c = [id |-> m.id, revision |-> m.revision, phase |-> stage, at |-> NoStatus,
           render |-> renders, listed |-> m.type = "setView", cancelled |-> FALSE]
  BY DEF GridCall
<1>5. (m.type = "setView") \in BOOLEAN
  OBVIOUS
<1> QED
  BY <1>1, <1>3, <1>4, <1>5

\* Calls that lose their entry in viewCancellations, or are cancelled, go on.
LEMMA CallsAsTheyWere ==
  ASSUME GridShape
  PROVE  /\ \A d \in gridCalls : \E c \in gridCalls : SameCall(c, d)
         /\ \A d \in Cancelled : \E c \in gridCalls : SameCall(c, d)
         /\ \A e : \A d \in WithCall(e) : d = e \/ \E c \in gridCalls : SameCall(c, d)
<1>1. gridCalls \subseteq HostCall
  BY DEF GridShape
<1>2. ASSUME NEW c \in gridCalls, NEW b \in BOOLEAN
      PROVE  SameCall(c, c) /\ SameCall(c, [c EXCEPT !.cancelled = b]) /\ SameCall(c, [c EXCEPT !.listed = b])
  <2>1. c \in HostCall
    BY <1>1
  <2> QED
    BY <2>1 DEF SameCall, HostCall
<1>3. ASSUME NEW d \in Cancelled
      PROVE  \E c \in gridCalls : SameCall(c, d)
  <2>1. PICK c \in gridCalls : d = [c EXCEPT !.cancelled = c.cancelled \/ (c.listed /\ c.phase \in Cancellable)]
    BY DEF Cancelled
  <2>2. c \in HostCall
    BY <1>1
  <2>3. (c.cancelled \/ (c.listed /\ c.phase \in Cancellable)) \in BOOLEAN
    OBVIOUS
  <2> QED
    BY <1>2, <2>1, <2>3
<1>4. ASSUME NEW e, NEW d \in WithCall(e)
      PROVE  d = e \/ \E c \in gridCalls : SameCall(c, d)
  <2>1. d = e \/ \E c \in gridCalls : d = [c EXCEPT !.listed = FALSE]
    BY DEF WithCall
  <2>2. FALSE \in BOOLEAN
    OBVIOUS
  <2> QED
    BY <1>2, <2>1, <2>2
<1> QED
  BY <1>2, <1>3, <1>4

LEMMA HostFits ==
  ASSUME GridShape, Host
  PROVE  GridShape' /\ (GridTrue => GridTrue')
<1> DEFINE m == Head(outbox)
<1>1. /\ outbox # <<>> /\ outbox' = Tail(outbox) /\ UNCHANGED <<grid, renders>>
      /\ UNCHANGED inbox
  BY DEF Host, HandlePage, HandleSetView, HandleCancelView, Handles
<1>2. ServerMoves /\ CallsGoOn
  <2>1. CASE HandlePage
    <3>1. PICK stage \in {"outdated", "page"} : gridCalls' = gridCalls \union {GridCall(m, stage)}
      BY <2>1 DEF HandlePage
    <3>2. CallIsDue(GridCall(m, stage))
      <4>1. stage \in Phases /\ stage \notin {"evaluating", "answered", "viewReady"}
        BY DEF Phases, Replies
      <4> QED
        BY <1>1, <4>1, CallOfMessage
    <3>3. CallsGoOn
      BY <3>1, <3>2, CallsAsTheyWere DEF CallsGoOn
    <3>4. ServerMoves
      BY <2>1, ServerStays DEF HandlePage, serverVars
    <3> QED
      BY <3>3, <3>4
  <2>2. CASE HandleCancelView
    BY <2>2, ServerStays, CallsAsTheyWere DEF HandleCancelView, serverVars, CallsGoOn
  <2>3. CASE HandleSetView
    <3>0. m.type = "setView"
      BY <2>3 DEF HandleSetView, Handles
    <3>1. CASE /\ ~gone /\ m.revision = rev + 1
               /\ Session!Submit
               /\ viewOf' = Append(viewOf, m.view)
               /\ gridCalls' = WithCall(GridCall(m, IF status' = "failed" THEN "answered" ELSE "evaluating"))
      <4>1. PICK stage \in {"answered", "evaluating"} : gridCalls' = WithCall(GridCall(m, stage))
        BY <3>1
      <4>2. /\ m.view \in Views /\ m.id \in Nat \ {0}
            /\ GridTrue => m.id <= grid.number /\ Asks(grid, m)
        BY <1>1, OutHead
      <4>3. ServerMoves /\ rev' = rev + 1 /\ viewOf'[rev'] = m.view
        BY <3>1, <4>2, ServerSubmits
      <4> DEFINE c == GridCall(m, stage)
      <4>4. c \in HostCall /\ c.id = m.id /\ c.revision = m.revision /\ c.phase = stage /\ c.at = NoStatus
        <5>1. stage \in Phases
          BY DEF Phases
        <5> QED
          BY <1>1, <5>1, CallOfMessage
      <4> HIDE DEF c, m
      <4>5. rev' \in Nat \ {0}
        BY <4>3 DEF GridShape, ServerFits
      <4>6. GridTrue => CallFits(grid, c, rev', ready', viewOf')
        <5> SUFFICES ASSUME GridTrue
                     PROVE  CallFits(grid, c, rev', ready', viewOf')
          OBVIOUS
        <5>1. c.id <= grid.number /\ c.phase # "viewReady"
          BY <4>2, <4>4
        <5>2. c.id = grid.pending.id => Accepted(grid, c.revision, rev', viewOf')
          <6> SUFFICES ASSUME c.id = grid.pending.id
                       PROVE  Accepted(grid, c.revision, rev', viewOf')
            OBVIOUS
          <6>1. m.revision = grid.pending.revision /\ m.view = grid.pending.view
            BY <3>0, <4>2, <4>4 DEF Asks
          <6>2. m.revision = rev'
            BY <3>1, <4>3
          <6> QED
            BY <4>3, <4>4, <4>5, <6>1, <6>2 DEF Accepted
        <5> QED
          BY <5>1, <5>2 DEF CallFits
      <4>7. CallIsDue(c)
        BY <4>4, <4>6 DEF CallIsDue, StatusFits
      <4>8. \A d \in gridCalls' : d = c \/ \E b \in gridCalls : SameCall(b, d)
        BY <4>1, CallsAsTheyWere DEF c
      <4> QED
        BY <4>3, <4>7, <4>8 DEF CallsGoOn
    <3>2. CASE /\ ~gone /\ m.revision # rev + 1
               /\ gridCalls' = WithCall([GridCall(m, "rejected") EXCEPT !.revision = rev])
               /\ UNCHANGED <<serverVars, viewOf>>
      <4> DEFINE c == [GridCall(m, "rejected") EXCEPT !.revision = rev]
                 d == [id |-> m.id, revision |-> rev, phase |-> "rejected", at |-> NoStatus,
                       render |-> renders, listed |-> m.type = "setView", cancelled |-> FALSE]
      <4>1. c = d
        <5> DEFINE b == m.type = "setView"
        <5>1. ASSUME NEW y, NEW z, z = [y EXCEPT !.revision = rev],
                     y = [id |-> m.id, revision |-> m.revision, phase |-> "rejected", at |-> NoStatus,
                          render |-> renders, listed |-> b, cancelled |-> FALSE]
              PROVE  z = [id |-> m.id, revision |-> rev, phase |-> "rejected", at |-> NoStatus,
                          render |-> renders, listed |-> b, cancelled |-> FALSE]
          <6> HIDE DEF b, m
          <6> QED
            BY <5>1
        <5>2. GridCall(m, "rejected") = [id |-> m.id, revision |-> m.revision, phase |-> "rejected", at |-> NoStatus,
                          render |-> renders, listed |-> b, cancelled |-> FALSE]
          BY DEF GridCall
        <5> QED
          BY <5>1, <5>2
      <4>2. CallIsDue(d)
        <5>1. /\ m.id \in Nat \ {0} /\ rev \in Nat /\ renders \in Nat
              /\ GridTrue => m.id <= grid.number
          BY <1>1, OutHead DEF GridShape, ServerFits
        <5>2. NoStatus \in StatusReply /\ StatusFits(NoStatus, ready')
          BY DEF NoStatus, StatusReply, StatusFits
        <5>3. (m.type = "setView") \in BOOLEAN /\ FALSE \in BOOLEAN
              /\ "rejected" \in Phases \ {"evaluating", "answered", "viewReady"}
          BY DEF Phases
        <5> QED
          BY <5>1, <5>2, <5>3, NewCall
      <4> HIDE DEF c, d
      <4>3. ServerMoves
        BY <3>2, ServerStays DEF serverVars
      <4>4. \A e \in gridCalls' : e = c \/ \E b \in gridCalls : SameCall(b, e)
        BY <3>2, CallsAsTheyWere DEF c
      <4> QED
        BY <4>1, <4>2, <4>3, <4>4 DEF CallsGoOn
    <3>3. CASE /\ gridCalls' \in {WithCall(GridCall(m, "refused")), WithCall(GridCall(m, "cancelled"))}
               /\ UNCHANGED <<serverVars, viewOf>>
      <4>1. PICK stage \in {"refused", "cancelled"} : gridCalls' = WithCall(GridCall(m, stage))
        BY <3>3
      <4>2. CallIsDue(GridCall(m, stage))
        <5>1. stage \in Phases /\ stage \notin {"evaluating", "answered", "viewReady"}
          BY DEF Phases
        <5> QED
          BY <1>1, <5>1, CallOfMessage
      <4>3. ServerMoves
        BY <3>3, ServerStays DEF serverVars
      <4> QED
        BY <4>1, <4>2, <4>3, CallsAsTheyWere DEF CallsGoOn
    <3> QED
      BY <2>3, <3>1, <3>2, <3>3 DEF HandleSetView
  <2> QED
    BY <2>1, <2>2, <2>3 DEF Host
<1> QED
  BY <1>1, <1>2, HostChanges

\* A call of the host goes on to d, while the server moves.
LEMMA CallMovesOn ==
  ASSUME GridShape, NEW c \in gridCalls, NEW d, CallIsDue(d), ServerMoves,
         gridCalls' = (gridCalls \ {c}) \union {d}, UNCHANGED <<grid, renders, outbox, inbox>>
  PROVE  GridShape' /\ (GridTrue => GridTrue')
<1>1. CallsGoOn
  BY CallsAsTheyWere DEF CallsGoOn
<1>2. UNCHANGED <<grid, renders>> /\ UNCHANGED outbox /\ UNCHANGED inbox /\ gridCalls # {}
  OBVIOUS
<1> QED
  BY <1>1, <1>2, HostChanges

LEMMA CallFitsMoves ==
  ASSUME GridShape, NEW c \in gridCalls, CallMoves(c)
  PROVE  GridShape' /\ (GridTrue => GridTrue')
<1>1. /\ c \in HostCall /\ c.id \in Nat \ {0} /\ c.revision \in Nat /\ c.at \in StatusReply /\ c.render \in Nat
      /\ c.listed \in BOOLEAN /\ c.cancelled \in BOOLEAN /\ StatusFits(c.at, ready)
  BY DEF GridShape, HostCall
<1>2. ServerFits(rev, ready, status, viewOf) /\ rev \in Nat /\ ready \in 0 .. rev
  BY DEF GridShape, ServerFits
<1>3. GridTrue => CallFits(grid, c, rev, ready, viewOf)
  BY DEF GridTrue
<1>4. ASSUME NEW stage \in Phases
      PROVE  /\ [c EXCEPT !.phase = stage] \in HostCall
             /\ \A d : d = [c EXCEPT !.phase = stage] =>
                    d.id = c.id /\ d.revision = c.revision /\ d.phase = stage /\ d.at = c.at
  BY <1>1 DEF HostCall
<1>5. ASSUME NEW stage \in Phases, NEW at \in StatusReply
      PROVE  /\ [c EXCEPT !.phase = stage, !.at = at] \in HostCall
             /\ \A d : d = [c EXCEPT !.phase = stage, !.at = at] =>
                    d.id = c.id /\ d.revision = c.revision /\ d.phase = stage /\ d.at = at
  BY <1>1 DEF HostCall
<1>6. ASSUME ServerMoves
      PROVE  /\ GridTrue => CallFits(grid, c, rev', ready', viewOf')
             /\ \A at : StatusFits(at, ready) => StatusFits(at, ready')
  BY <1>1, <1>2, <1>3, <1>6, GrowthKeeps DEF ServerMoves
<1>7. ASSUME ServerMoves, NEW stage \in Phases, GoesOn(c, stage),
             \/ stage \notin {"evaluating", "answered", "viewReady"}
             \/ c.phase = "evaluating" /\ stage = "answered"
      PROVE  GridShape' /\ (GridTrue => GridTrue')
  <2> DEFINE d == [c EXCEPT !.phase = stage]
  <2>1. d \in HostCall /\ d.id = c.id /\ d.revision = c.revision /\ d.phase = stage /\ d.at = c.at
    BY <1>4
  <2> HIDE DEF d
  <2>2. gridCalls' = (gridCalls \ {c}) \union {d} /\ UNCHANGED <<grid, renders, outbox, inbox>>
    BY <1>7 DEF GoesOn, d
  <2>3. GridTrue => CallFits(grid, d, rev', ready', viewOf')
    BY <1>6, <1>7, <2>1 DEF CallFits
  <2>4. CallIsDue(d)
    BY <1>1, <1>6, <1>7, <2>1, <2>3 DEF CallIsDue
  <2> QED
    BY <1>7, <2>2, <2>4, CallMovesOn
<1>8. ASSUME NEW type \in Replies, NEW at \in StatusReply, Ends(c, type, at), StatusFits(at, ready),
             type = "viewReady" => c.phase = "answered" /\ c.revision <= ready
      PROVE  GridShape' /\ (GridTrue => GridTrue')
  <2> DEFINE d == [c EXCEPT !.phase = type, !.at = at]
  <2>1. d \in HostCall /\ d.id = c.id /\ d.revision = c.revision /\ d.phase = type /\ d.at = at
    <3>1. type \in Phases
      BY DEF Phases
    <3>2. /\ [c EXCEPT !.phase = type, !.at = at] \in HostCall
          /\ \A e : e = [c EXCEPT !.phase = type, !.at = at] =>
                e.id = c.id /\ e.revision = c.revision /\ e.phase = type /\ e.at = at
      BY <1>5, <3>1
    <3> QED
      BY <3>2
  <2> HIDE DEF d
  <2>2. /\ gridCalls' = (gridCalls \ {c}) \union {d} /\ UNCHANGED <<grid, renders, outbox, inbox>>
        /\ UNCHANGED <<rev, ready, status, viewOf>>
    BY <1>8 DEF Ends, d, serverVars
  <2>3. ServerMoves
    BY <2>2, ServerStays
  <2>4. GridTrue => CallFits(grid, d, rev', ready', viewOf')
    <3>1. type \notin {"evaluating", "answered"}
      BY DEF Replies
    <3>2. GridTrue => CallFits(grid, c, rev', ready', viewOf')
      BY <1>6, <2>3
    <3> QED
      BY <1>8, <2>1, <2>2, <3>1, <3>2 DEF CallFits
  <2>5. CallIsDue(d)
    BY <1>8, <2>1, <2>2, <2>4 DEF CallIsDue
  <2> QED
    BY <2>2, <2>3, <2>5, CallMovesOn
<1>9. CASE EvaluationEnds(c)
  <2>1. ServerMoves
    <3>1. viewOf' = viewOf
      BY <1>9 DEF EvaluationEnds, GoesOn
    <3>2. CASE Session!Publish \/ Session!Fail
      BY <3>1, <3>2, ServerEvaluates
    <3>3. CASE UNCHANGED serverVars
      BY <3>1, <3>3, ServerStays DEF serverVars
    <3> QED
      BY <1>9, <3>2, <3>3 DEF EvaluationEnds
  <2>2. c.phase = "evaluating" /\ (GoesOn(c, "cancelled") \/ GoesOn(c, "answered"))
    BY <1>9 DEF EvaluationEnds
  <2>3. "cancelled" \in Phases /\ "answered" \in Phases
    BY DEF Phases
  <2> QED
    BY <1>7, <2>1, <2>2, <2>3
<1>10. CASE PollFails(c)
  <2>1. ServerMoves
    BY <1>10, ServerStays DEF PollFails, GoesOn, serverVars
  <2>2. GoesOn(c, "cancelled") \/ GoesOn(c, "recovering")
    BY <1>10 DEF PollFails
  <2>3. "cancelled" \in Phases /\ "recovering" \in Phases
    BY DEF Phases
  <2> QED
    BY <1>7, <2>1, <2>2, <2>3
<1>11. NoStatus \in StatusReply /\ StatusFits(NoStatus, ready) /\ Status \in StatusReply /\ StatusFits(Status, ready)
  BY <1>2 DEF NoStatus, Status, StatusReply, StatusFits
<1>12. CASE PollSucceeds(c)
  <2>1. status = "ready" => c.revision <= ready
    BY <1>2, <1>12 DEF PollSucceeds, ServerFits
  <2>2. \/ Ends(c, "viewReady", NoStatus) /\ status = "ready"
        \/ Ends(c, "viewFailed", NoStatus)
    BY <1>12 DEF PollSucceeds
  <2>3. c.phase = "answered"
    BY <1>12 DEF PollSucceeds
  <2>4. "viewReady" \in Replies /\ "viewFailed" \in Replies
    BY DEF Replies
  <2> QED
    BY <1>8, <1>11, <2>1, <2>2, <2>3, <2>4
<1>13. CASE CallEnds(c)
  <2>1. PICK type \in {"error", "viewCancelled", "viewRejected"}, at \in {NoStatus, Status} : Ends(c, type, at)
    BY <1>13 DEF CallEnds
  <2>2. type \in Replies /\ type # "viewReady"
    BY DEF Replies
  <2>3. at \in StatusReply /\ StatusFits(at, ready)
    BY <1>11
  <2> QED
    BY <1>8, <2>1, <2>2, <2>3
<1>14. CASE ReplyTo(c)
  <2>1. ServerMoves
    BY <1>14, ServerStays DEF ReplyTo, serverVars
  <2>2. CallsGoOn
    BY <1>14, CallsAsTheyWere DEF ReplyTo, CallsGoOn
  <2>3. gridCalls # {} /\ UNCHANGED <<grid, renders>> /\ UNCHANGED outbox
    BY <1>14 DEF ReplyTo
  <2>4. c.phase \in Replies
        /\ inbox' = Append(inbox, [type |-> c.phase, id |-> c.id, revision |-> c.revision, at |-> c.at])
    BY <1>14 DEF ReplyTo
  <2> QED
    BY <2>1, <2>2, <2>3, <2>4, HostChanges
<1> QED
  BY <1>9, <1>10, <1>12, <1>13, <1>14 DEF CallMoves

LEMMA ElsewhereFits ==
  ASSUME GridShape, Elsewhere
  PROVE  GridShape' /\ (GridTrue => GridTrue')
<1>1. /\ UNCHANGED <<grid, renders>> /\ UNCHANGED outbox /\ UNCHANGED inbox
      /\ gridCalls' \in {gridCalls, Cancelled}
  BY DEF Elsewhere, WithdrawTable, ChangeElsewhere, EvaluateElsewhere
<1>2. CallsGoOn
  BY <1>1, CallsAsTheyWere DEF CallsGoOn
<1>3. gridCalls = {} => gridCalls' = {}
  BY <1>1 DEF Cancelled
<1>4. ServerMoves
  <2>1. CASE WithdrawTable
    BY <2>1, ServerEvaluates DEF WithdrawTable
  <2>2. CASE EvaluateElsewhere
    BY <2>2, ServerEvaluates DEF EvaluateElsewhere
  <2>3. CASE ChangeElsewhere
    BY <2>3, ServerSubmits DEF ChangeElsewhere
  <2> QED
    BY <2>1, <2>2, <2>3 DEF Elsewhere
<1> QED
  BY <1>1, <1>2, <1>3, <1>4, HostChanges

LEMMA ReceiveFits ==
  ASSUME GridShape, Receive
  PROVE  \E x : Becomes(x) /\ FitReply(x)
  BY ReceivePageFits, ReceiveViewFits, ReceiveCancelledFits, ReceiveRejectedFits, ReceiveErrorFits DEF Receive

LEMMA FreshState == Fresh \in GridState /\ QueueFits(Fresh) /\ Fresh.number = 0 /\ Fresh.pending.id = 0
<1>1. NoView \in PendingView /\ NoView.id = 0
  BY GridAssumption DEF NoView, PendingView
<1>2. 0 \in 0 .. MaxRetries /\ NoPage \in Nat \union {NoPage} /\ {} \in SUBSET PageRequest /\ AllRows \in Views
  BY GridAssumption DEF MaxRetries
<1>3. Fresh \in GridState
  BY <1>1, <1>2 DEF Fresh, GridState
<1>4. /\ Fresh.number = 0 /\ Fresh.pending = NoView /\ ~Fresh.queued /\ ~Fresh.timer
  BY DEF Fresh
<1> QED
  BY <1>1, <1>3, <1>4 DEF QueueFits, PendingFits

\* A new rendering starts afresh; the first one finds nothing under way.
LEMMA RenderFits ==
  ASSUME GridShape, RenderOutput
  PROVE  GridShape' /\ (GridTrue /\ renders' <= 1 => GridTrue')
<1> DEFINE x == Draw(With(Fresh))
<1>1. /\ renders < MaxRenders /\ renders' = renders + 1 /\ renders \in Nat /\ Becomes(x)
      /\ UNCHANGED <<serverVars, viewOf, gridCalls>> /\ UNCHANGED inbox
  BY DEF RenderOutput, GridShape
<1>2. Follows(Fresh, Fresh) /\ QueueFits(Fresh)
  BY FreshState DEF Follows, QueueFits
<1>3. Keeps(Fresh, x) /\ QueueFits(x.t)
  BY <1>2, FreshState, Replied DEF Sound
<1> HIDE DEF x
<1>4. GridShape'
  <2>1. x.t \in GridState /\ x.sent \in Seq(ToHost)
    BY <1>3 DEF Keeps, GridOp
  <2>2. /\ ServerFits(rev, ready, status, viewOf) /\ outbox \in Seq(ToHost)
        /\ inbox \in Seq(ToGrid) /\ \A i \in 1 .. Len(inbox) : StatusFits(inbox[i].at, ready)
        /\ gridCalls \subseteq HostCall /\ \A c \in gridCalls : StatusFits(c.at, ready)
    BY DEF GridShape
  <2>3. grid' = x.t /\ outbox' = outbox \o x.sent
    BY <1>1 DEF Becomes
  <2>4. outbox' \in Seq(ToHost) /\ renders' \in Nat
    BY <1>1, <2>1, <2>2, <2>3
  <2>5. rev' = rev /\ ready' = ready /\ status' = status /\ viewOf' = viewOf /\ gridCalls' = gridCalls /\ inbox' = inbox
    BY <1>1 DEF serverVars
  <2> QED
    BY <1>3, <2>1, <2>2, <2>3, <2>4, <2>5 DEF GridShape
<1>5. ASSUME GridTrue, renders' <= 1
      PROVE  GridTrue'
  <2>1. renders = 0
    BY <1>1, <1>5
  <2>2. grid = Fresh
    BY <1>5, <2>1 DEF GridTrue, Untouched
  <2>3. Fit(Draw(With(grid)))
    BY SameStateFits, ReplyFits DEF FitReply
  <2>4. Fit(x)
    BY <2>2, <2>3 DEF x
  <2>5. renders' \in Nat /\ renders' # 0
    BY <1>1
  <2> QED
    BY <1>1, <1>5, <2>4, <2>5, GridSteps
<1> QED
  BY <1>4, <1>5

LEMMA GridStart == GridInit => GridTrue
<1> SUFFICES ASSUME GridInit
             PROVE  GridTrue
  OBVIOUS
<1>1. /\ rev = 0 /\ ready = 0 /\ status = "none" /\ viewOf = <<>> /\ grid = Fresh /\ renders = 0
      /\ outbox = <<>> /\ inbox = <<>> /\ gridCalls = {}
  BY DEF GridInit, Session!VsInit
<1>2. ServerFits(rev, ready, status, viewOf)
  BY <1>1 DEF ServerFits
<1>3. GridShape
  BY <1>1, <1>2, FreshState DEF GridShape
<1>4. ScreenFits(grid, rev, ready, viewOf) /\ Current(grid)
  BY <1>1 DEF Fresh, ScreenFits, Current, ViewIn
<1>5. OutboxFits(grid, outbox) /\ InboxFits(grid, inbox, rev, ready, viewOf)
  BY <1>1 DEF OutboxFits, InboxFits
<1> QED
  BY <1>1, <1>3, <1>4, <1>5 DEF GridTrue, Untouched

\* The shape is kept by every step, the truth of what is shown by those of an
\* output that is rendered once.
LEMMA GridNextFits ==
  ASSUME GridShape, [GridNext]_gridVars
  PROVE  GridShape' /\ (GridTrue /\ renders' <= 1 => GridTrue')
<1>1. ASSUME NEW x, Becomes(x), Fit(x), UNCHANGED <<serverVars, viewOf, gridCalls>>, UNCHANGED renders,
             UNCHANGED inbox \/ (inbox # <<>> /\ inbox' = Tail(inbox)),
             renders = 0 => inbox # <<>> \/ grid.timer
      PROVE  GridShape' /\ (GridTrue => GridTrue')
  <2>1. renders' \in Nat
    BY <1>1 DEF GridShape
  <2>2. GridTrue => renders' # 0
    <3> SUFFICES ASSUME GridTrue, renders = 0
                 PROVE  FALSE
      BY <1>1
    <3>1. grid = Fresh /\ inbox = <<>>
      BY DEF GridTrue, Untouched
    <3>2. ~Fresh.timer
      BY DEF Fresh
    <3> QED
      BY <1>1, <3>1, <3>2
  <2> QED
    BY <1>1, <2>1, <2>2, GridSteps
<1>2. CASE Receive
  <2>1. PICK x : Becomes(x) /\ Fit(x)
    BY <1>2, ReceiveFits DEF FitReply
  <2>2. /\ UNCHANGED <<serverVars, viewOf, gridCalls>> /\ UNCHANGED renders
        /\ inbox # <<>> /\ inbox' = Tail(inbox)
    BY <1>2 DEF Receive, ReceivePage, ReceiveView, ReceiveCancelled, ReceiveRejected, ReceiveError, Arrives
  <2> QED
    BY <1>1, <2>1, <2>2
<1>3. CASE Edit \/ Cancel \/ Scroll
  <2>1. PICK x : Becomes(x) /\ Fit(x)
    BY <1>3, EditFits, CancelFits, ScrollFits, SMTT(30)
  <2>2. /\ UNCHANGED <<serverVars, viewOf, gridCalls>> /\ UNCHANGED renders /\ UNCHANGED inbox /\ renders > 0
    BY <1>3 DEF Edit, Cancel, Scroll, GridActs
  <2>3. renders # 0
    BY <2>2
  <2> QED
    BY <1>1, <2>1, <2>2, <2>3
<1>4. CASE GridTimerFires
  <2>1. PICK x : Becomes(x) /\ Fit(x)
    BY <1>4, TimerFits
  <2>2. /\ UNCHANGED <<serverVars, viewOf, gridCalls>> /\ UNCHANGED renders /\ UNCHANGED inbox /\ grid.timer
    BY <1>4 DEF GridTimerFires
  <2> QED
    BY <1>1, <2>1, <2>2
<1>5. CASE RenderOutput
  BY <1>5, RenderFits
<1>6. CASE Host
  BY <1>6, HostFits
<1>7. ASSUME NEW c \in gridCalls, CallMoves(c)
      PROVE  GridShape' /\ (GridTrue => GridTrue')
  BY <1>7, CallFitsMoves
<1>8. CASE Elsewhere
  BY <1>8, ElsewhereFits
<1>9. CASE UNCHANGED gridVars
  <2>1. /\ rev' = rev /\ ready' = ready /\ status' = status /\ viewOf' = viewOf /\ grid' = grid
        /\ renders' = renders /\ outbox' = outbox /\ inbox' = inbox /\ gridCalls' = gridCalls
    BY <1>9 DEF gridVars, serverVars
  <2>2. GridShape'
    BY <2>1 DEF GridShape
  <2> QED
    BY <2>1, <2>2 DEF GridTrue, Untouched
<1> QED
  BY <1>2, <1>3, <1>4, <1>5, <1>6, <1>7, <1>8, <1>9 DEF GridNext, GridUser

\* Renderings are counted.
LEMMA RendersAreCounted ==
  ASSUME GridShape, [GridNext]_gridVars
  PROVE  renders' <= 1 => renders <= 1
<1>1. renders \in Nat
  BY DEF GridShape
<1>2. renders' \in {renders, renders + 1}
  BY DEF gridVars, GridNext, GridUser, RenderOutput, Edit, Cancel, Scroll, GridActs, GridTimerFires,
     Receive, ReceivePage, ReceiveView, ReceiveCancelled, ReceiveRejected, ReceiveError, Arrives,
     Host, HandlePage, HandleSetView, HandleCancelView, Handles,
     CallMoves, EvaluationEnds, PollFails, PollSucceeds, CallEnds, Ends, ReplyTo, GoesOn,
     Elsewhere, WithdrawTable, ChangeElsewhere, EvaluateElsewhere
<1> QED
  BY <1>1, <1>2

\* The shape holds in every reachable state, however often the output is rendered.
LEMMA GridShapeAlways == GridSpec => []GridShape
<1>1. GridInit => GridShape
  BY GridStart DEF GridTrue
<1>2. GridShape /\ [GridNext]_gridVars => GridShape'
  BY GridNextFits
<1> QED
  BY <1>1, <1>2, PTL DEF GridSpec

-----------------------------------------------------------------------------
(* The theorems about the grid *)

\* What the user typed and the grid has not sent yet survives every reply:
\* a reply that replaces the draft comes only when nothing is queued and no timer
\* runs, however often the output is rendered.
THEOREM UnsentEditsAreKept == GridSpec => EditsAreKept
<1>1. GridShape /\ [GridNext]_gridVars =>
        [Receive /\ (grid.queued \/ grid.timer) => grid'.draft = grid.draft]_gridVars
  <2> SUFFICES ASSUME GridShape, Receive, grid.queued \/ grid.timer
               PROVE  grid'.draft = grid.draft
    OBVIOUS
  <2>1. PICK x : Becomes(x) /\ FitReply(x)
    BY ReceiveFits
  <2> QED
    BY <2>1 DEF Becomes, FitReply
<1> QED
  BY <1>1, GridShapeAlways, PTL DEF GridSpec, EditsAreKept

\* What the grid shows is true: rows, filters and revision belong together, until
\* its output is rendered a second time - then it takes replies to the requests
\* of its predecessor for its own.
THEOREM GridsShowTheTruth == GridSpec => [](renders <= 1 => ScreenIsTrue)
<1> DEFINE Once == renders <= 1 => GridTrue
<1>1. GridInit => Once
  BY GridStart
<1>2. GridShape /\ Once /\ [GridNext]_gridVars => Once'
  BY GridNextFits, RendersAreCounted
<1>3. GridTrue => ScreenIsTrue
  <2> SUFFICES ASSUME GridTrue
               PROVE  ScreenIsTrue
    OBVIOUS
  <2>1. ServerFits(rev, ready, status, viewOf) /\ grid \in GridState
    BY DEF GridTrue, GridShape
  <2>2. ScreenFits(grid, rev, ready, viewOf) /\ Current(grid)
    BY DEF GridTrue
  <2>3. GridTypeOK
    BY <2>1, <2>2, Fields DEF GridTypeOK, ServerFits, ScreenFits
  <2>4. LabelsMatchRows
    BY <2>2 DEF LabelsMatchRows, ScreenFits, ViewAt, ViewIn
  <2>5. ScreenIsCurrent
    BY <2>2 DEF ScreenIsCurrent, Current
  <2> QED
    BY <2>3, <2>4, <2>5 DEF ScreenIsTrue
<1>4. Once => (renders <= 1 => ScreenIsTrue)
  BY <1>3
<1> QED
  BY <1>1, <1>2, <1>4, GridShapeAlways, PTL DEF GridSpec

\* The grid meets the server only through the promise about views that the
\* session store implements.
THEOREM GridReliesOnPromise == GridSpec => Session!VsSpec
<1>1. GridInit => Session!VsInit
  BY DEF GridInit
<1>2. [GridNext]_gridVars => [Session!VsNext]_Session!vsvars
  <2> SUFFICES ASSUME GridNext
               PROVE  Session!VsNext \/ UNCHANGED serverVars
    BY SMTT(30) DEF gridVars, serverVars, Session!vsvars
  <2>1. CASE GridUser \/ GridTimerFires \/ Receive
    BY <2>1 DEF GridUser, RenderOutput, Edit, Cancel, Scroll, GridActs, GridTimerFires, Receive, ReceivePage,
       ReceiveView, ReceiveCancelled, ReceiveRejected, ReceiveError, Arrives
  <2>2. CASE Host
    BY <2>2 DEF Host, HandlePage, HandleSetView, HandleCancelView, Session!VsNext
  <2>3. ASSUME NEW c \in gridCalls, CallMoves(c)
        PROVE  Session!VsNext \/ UNCHANGED serverVars
    BY <2>3 DEF CallMoves, EvaluationEnds, PollFails, PollSucceeds, CallEnds, Ends, ReplyTo, Session!VsNext
  <2>4. CASE Elsewhere
    BY <2>4 DEF Elsewhere, WithdrawTable, ChangeElsewhere, EvaluateElsewhere, Session!VsNext
  <2> QED
    BY <2>1, <2>2, <2>3, <2>4 DEF GridNext
<1> QED
  BY <1>1, <1>2, PTL DEF GridSpec, Session!VsSpec

(***************************************************************************)
(* What a user does with a result in a notebook.                           *)
(***************************************************************************)

(* The parts of the invariant, as operators of the state they are about. *)

\* The grid selects rows of the revision it shows.
PanelFits(p) == p \in Panel /\ p.selected \in {None, p.revision}

\* Requests on their way are numbered apart, up to n, and name their rows.
RequestsFit(R, n) ==
    /\ R \in Seq(Request)
    /\ \A k \in 1 .. Len(R) : R[k].rows = R[k].revision /\ R[k].id <= n
    /\ \A k, l \in 1 .. Len(R) : R[k].id = R[l].id => k = l

\* So are those handled; what one has read is of the revision it names.
HandlesFit(H, R, n) ==
    /\ H \subseteq Handling
    /\ \A c \in H : /\ c.request.rows = c.request.revision /\ c.request.id <= n
                    /\ \A k \in 1 .. Len(c.read) : c.read[k] = c.request.revision
                    /\ \A k \in 1 .. Len(R) : R[k].id # c.request.id
    /\ \A b, c \in H : b.request.id = c.request.id => b = c

CopyFits(s) == s = None \/ (s \in Seq(Revisions) /\ Cardinality(ToSet(s)) = 1)

\* An insertion in the queue, or under way, is that of one request queued.
Queued(H, n) == \E c \in H : c.request.id = n /\ c.at = "queued"
Inserts(op, n) == op.kind = "insert" /\ op.id = n
JobsFit(J, j, H) ==
    /\ J \in Seq(Job) /\ (j = None \/ j \in BookEdit)
    /\ \A k \in 1 .. Len(J) : J[k].kind = "insert" => Queued(H, J[k].id)
    /\ \A k, l \in 1 .. Len(J) : Inserts(J[k], J[l].id) /\ J[l].kind = "insert" => k = l
    /\ j # None /\ j.op.kind = "insert" =>
          Queued(H, j.op.id) /\ \A k \in 1 .. Len(J) : ~Inserts(J[k], j.op.id)

\* Cells are told apart by their keys, and have identifiers given so far.
BookFits(b, last) ==
    /\ b \in Seq(BookCell) /\ last \in Nat
    /\ \A i \in 1 .. Len(b) : b[i].id \in 1 .. last /\ b[i].from \in {None, Source}
    /\ \A i, j \in 1 .. Len(b) : b[i].key = b[j].key => i = j
    /\ \E m \in Nat : \A i \in 1 .. Len(b) : b[i].key <= m

\* An edit that is not stale goes after the source, and names it.
EditInPlace(b, j) ==
    j # None /\ j.op.kind = "insert" /\ ~j.stale =>
        /\ j.at - 1 \in 1 .. Len(b) /\ b[j.at - 1].key = Source /\ j.of = b[j.at - 1].id

\* Unless copies were pasted above, the source keeps its identifier, which its
\* continuations name.
SourceIsFirst(b) ==
    \A s, i \in 1 .. Len(b) : b[s].key = Source /\ i < s => b[i].id # b[s].id
SourceFits(b) ==
    \A i, s \in 1 .. Len(b) : b[i].from # None /\ b[s].key = Source => b[i].of = b[s].id

\* Cells that share an identifier are about to be told apart.
Repeats(b) == {i \in 1 .. Len(b) : \E j \in 1 .. (i - 1) : b[j].id = b[i].id}
IdsDue(b, J, j, refused) ==
    \/ Repeats(b) = {} \/ refused
    \/ \E k \in 1 .. Len(J) : J[k].kind = "ids"
    \/ j # None /\ j.op.kind = "ids"

CountsFit(v, n, e) == v \in Revisions /\ n \in 0 .. MaxPosts /\ e \in 0 .. MaxCellEdits

CmInd ==
    /\ CountsFit(readyView, posted, cellEdits)
    /\ {sessionHeld, idsRefused, copiedAbove} \subseteq BOOLEAN
    /\ PanelFits(panel) /\ RequestsFit(requested, posted) /\ replied \in Seq(Reply)
    /\ HandlesFit(handling, requested, posted) /\ CopyFits(copied)
    /\ JobsFit(jobs, job, handling)
    /\ BookFits(book, lastId) /\ EditInPlace(book, job)
    /\ ~copiedAbove => SourceIsFirst(book) /\ SourceFits(book)
    /\ IdsDue(book, jobs, job, idsRefused)
-----------------------------------------------------------------------------
\* The grid's record.
LEMMA PanelTypes ==
  ASSUME NEW p, PanelFits(p)
  PROVE  /\ p = [revision |-> p.revision, selected |-> p.selected, changing |-> p.changing,
                 continuing |-> p.continuing, enriching |-> p.enriching]
         /\ p.revision \in Revisions /\ p.selected \in {None, p.revision} /\ p.changing \in BOOLEAN
         /\ p.continuing \in 0 .. MaxPosts /\ p.enriching \in 0 .. MaxPosts
BY DEF PanelFits, Panel

LEMMA PanelChanges ==
  ASSUME NEW p, PanelFits(p), NEW b \in BOOLEAN
  PROVE  PanelFits([p EXCEPT !.changing = b])
BY DEF PanelFits, Panel

LEMMA PanelMoves ==
  ASSUME NEW p, PanelFits(p), NEW v \in Revisions
  PROVE  PanelFits([p EXCEPT !.revision = v, !.changing = FALSE, !.selected = None])
BY DEF PanelFits, Panel

LEMMA PanelSelects ==
  ASSUME NEW p, PanelFits(p)
  PROVE  PanelFits([p EXCEPT !.selected = p.revision])
BY DEF PanelFits, Panel

LEMMA PanelWaits ==
  ASSUME NEW p, PanelFits(p), NEW m \in 0 .. MaxPosts
  PROVE  PanelFits([p EXCEPT !.continuing = m]) /\ PanelFits([p EXCEPT !.enriching = m])
BY DEF PanelFits, Panel

\* Posting a request.
LEMMA RequestPosted ==
  ASSUME CommandsAssumption, NEW R, NEW H, NEW n \in 0 .. MaxPosts, n < MaxPosts,
         RequestsFit(R, n), HandlesFit(H, R, n),
         NEW x \in Request, x.id = n + 1, x.rows = x.revision
  PROVE  RequestsFit(Append(R, x), n + 1) /\ HandlesFit(H, Append(R, x), n + 1)
<1> DEFINE Z == Append(R, x)
<1>1. /\ R \in Seq(Request) /\ MaxPosts \in Nat
      /\ \A k \in 1 .. Len(R) : R[k].rows = R[k].revision /\ R[k].id <= n /\ R[k].id \in Nat
      /\ \A k, l \in 1 .. Len(R) : R[k].id = R[l].id => k = l
  <2>1. R \in Seq(Request) /\ MaxPosts \in Nat
    BY DEF RequestsFit, CommandsAssumption
  <2>2. \A k \in 1 .. Len(R) : R[k] \in Request
    BY <2>1, ElementOfSeq
  <2>3. \A z \in Request : z.id \in Nat
    BY DEF Request, PostIds
  <2> QED
    BY <2>1, <2>2, <2>3 DEF RequestsFit
<1>2. /\ Z \in Seq(Request) /\ Len(Z) = Len(R) + 1 /\ Len(R) \in Nat
      /\ \A k \in 1 .. Len(R) : Z[k] = R[k]
      /\ Z[Len(R) + 1] = x
  BY <1>1, AppendFacts
<1> HIDE DEF Z
<1>3. \A k \in 1 .. Len(Z) : k \in 1 .. Len(R) \/ k = Len(R) + 1
  BY <1>2
<1>4. \A k \in 1 .. Len(Z) : /\ Z[k].rows = Z[k].revision /\ Z[k].id <= n + 1
                             /\ k # Len(R) + 1 => Z[k].id <= n /\ Z[k].id \in Nat
  BY <1>1, <1>2, <1>3
<1>5. ASSUME NEW k \in 1 .. Len(Z), NEW l \in 1 .. Len(Z), Z[k].id = Z[l].id
      PROVE  k = l
  <2>1. CASE k \in 1 .. Len(R) /\ l \in 1 .. Len(R)
    BY <1>1, <1>2, <1>5, <2>1
  <2>2. CASE k = Len(R) + 1
    BY <1>2, <1>4, <1>5, <2>2
  <2>3. CASE l = Len(R) + 1
    BY <1>2, <1>4, <1>5, <2>3
  <2> QED
    BY <1>3, <2>1, <2>2, <2>3
<1>6. RequestsFit(Z, n + 1)
  BY <1>2, <1>4, <1>5 DEF RequestsFit
<1>7. ASSUME NEW c \in H
      PROVE  /\ c.request.id <= n + 1
             /\ \A k \in 1 .. Len(Z) : Z[k].id # c.request.id
  <2>1. c.request.id <= n /\ c.request.id \in Nat
    BY DEF HandlesFit, Handling, Request, PostIds
  <2>2. \A k \in 1 .. Len(R) : R[k].id # c.request.id
    BY DEF HandlesFit
  <2> QED
    BY <1>2, <1>3, <2>1, <2>2
<1>8. HandlesFit(H, Z, n + 1)
  BY <1>7 DEF HandlesFit
<1> QED
  BY <1>6, <1>8 DEF Z

\* The host receives the first one.
LEMMA RequestTaken ==
  ASSUME NEW R, NEW H, NEW n, RequestsFit(R, n), HandlesFit(H, R, n), R # <<>>,
         NEW d \in Handling, d.request = Head(R), d.read = <<>>
  PROVE  RequestsFit(Tail(R), n) /\ HandlesFit(H \union {d}, Tail(R), n)
<1> DEFINE T == Tail(R)
<1>1. /\ R \in Seq(Request)
      /\ \A k \in 1 .. Len(R) : R[k].rows = R[k].revision /\ R[k].id <= n
      /\ \A k, l \in 1 .. Len(R) : R[k].id = R[l].id => k = l
  BY DEF RequestsFit
<1>2. /\ T \in Seq(Request) /\ Len(R) \in Nat /\ Len(R) >= 1 /\ Len(T) = Len(R) - 1
      /\ \A k \in 1 .. Len(T) : T[k] = R[k + 1] /\ k + 1 \in 1 .. Len(R)
      /\ Head(R) = R[1] /\ 1 \in 1 .. Len(R)
  BY <1>1, TailFacts
<1> HIDE DEF T
<1>3. \A k, l \in 1 .. Len(T) : T[k].id = T[l].id => k = l
  BY <1>1, <1>2
<1>4. RequestsFit(T, n)
  BY <1>1, <1>2, <1>3 DEF RequestsFit
<1>5. \A k \in 1 .. Len(T) : T[k].id # d.request.id
  BY <1>1, <1>2
<1>6. \A c \in H : c.request.id # d.request.id
  BY <1>2 DEF HandlesFit
<1>7. /\ d.request.rows = d.request.revision /\ d.request.id <= n
      /\ \A k \in 1 .. Len(d.read) : d.read[k] = d.request.revision
  BY <1>1, <1>2, EmptySeq
<1>8. \A c \in H : \A k \in 1 .. Len(T) : T[k].id # c.request.id
  BY <1>2 DEF HandlesFit
<1>9. HandlesFit(H \union {d}, T, n)
  BY <1>5, <1>6, <1>7, <1>8 DEF HandlesFit
<1> QED
  BY <1>4, <1>9 DEF T

\* The handling of one proceeds, or ends.
LEMMA HandleReplaced ==
  ASSUME NEW R, NEW H, NEW n, HandlesFit(H, R, n), NEW c \in H, NEW d \in Handling,
         d.request = c.request, \A k \in 1 .. Len(d.read) : d.read[k] = d.request.revision
  PROVE  HandlesFit((H \ {c}) \union {d}, R, n)
BY DEF HandlesFit

LEMMA HandleRemoved ==
  ASSUME NEW R, NEW H, NEW n, HandlesFit(H, R, n), NEW c
  PROVE  HandlesFit(H \ {c}, R, n)
BY DEF HandlesFit

LEMMA HandleGoes ==
  ASSUME NEW c \in Handling, NEW d,
         NEW at \in {"reading", "picking", "creating", "asking", "queued", "inserted", "dismissed", "failed"},
         d = [c EXCEPT !.at = at]
  PROVE  d \in Handling /\ d.request = c.request /\ d.read = c.read /\ d.at = at
BY DEF Handling

\* The queue. Its insertions are of requests queued, whatever becomes of others.
LEMMA JobsWithHandles ==
  ASSUME NEW J, NEW j, NEW H, NEW G, JobsFit(J, j, H),
         \A c \in H : c.at = "queued" => c \in G
  PROVE  JobsFit(J, j, G)
<1>1. \A n : Queued(H, n) => Queued(G, n)
  BY DEF Queued
<1> QED
  BY <1>1 DEF JobsFit

\* An edit under way that has become stale.
Staled(j) == IF j = None THEN None ELSE [j EXCEPT !.stale = TRUE]

LEMMA JobsStale ==
  ASSUME NEW J, NEW j, NEW H, JobsFit(J, j, H)
  PROVE  /\ JobsFit(J, Staled(j), H)
         /\ Staled(j) = None <=> j = None
         /\ j # None => Staled(j).op = j.op /\ Staled(j).stale
<1>1. CASE j = None
  BY <1>1 DEF JobsFit, Staled
<1>2. CASE j # None
  <2> DEFINE u == Staled(j)
  <2>1. j \in BookEdit
    BY <1>2 DEF JobsFit
  <2>2. u \in BookEdit /\ u.op = j.op /\ u.stale
    BY <1>2, <2>1 DEF BookEdit, Staled
  <2>3. u # None
    BY <2>2, BookEditAssumption
  <2> HIDE DEF u
  <2>4. JobsFit(J, u, H)
    BY <1>2, <2>2, <2>3 DEF JobsFit
  <2> QED
    BY <1>2, <2>2, <2>3, <2>4 DEF u
<1> QED
  BY <1>1, <1>2

\* An operation enqueued: identifiers, or the insertion of a request not in it.
LEMMA JobEnqueued ==
  ASSUME NEW J, NEW j, NEW H, JobsFit(J, j, H), NEW op \in Job,
         op.kind = "insert" =>
            /\ Queued(H, op.id)
            /\ \A k \in 1 .. Len(J) : ~Inserts(J[k], op.id)
            /\ j # None => ~Inserts(j.op, op.id)
  PROVE  JobsFit(Append(J, op), j, H)
<1> DEFINE Z == Append(J, op)
<1>1. J \in Seq(Job)
  BY DEF JobsFit
<1>2. /\ Z \in Seq(Job) /\ Len(Z) = Len(J) + 1 /\ Len(J) \in Nat
      /\ \A k \in 1 .. Len(J) : Z[k] = J[k]
      /\ Z[Len(J) + 1] = op
  BY <1>1, AppendFacts
<1> HIDE DEF Z
<1>3. \A k \in 1 .. Len(Z) : k \in 1 .. Len(J) \/ k = Len(J) + 1
  BY <1>2
<1>4. \A k \in 1 .. Len(Z) : Z[k].kind = "insert" => Queued(H, Z[k].id)
  BY <1>2, <1>3 DEF JobsFit
<1>5. ASSUME NEW k \in 1 .. Len(Z), NEW l \in 1 .. Len(Z), Inserts(Z[k], Z[l].id), Z[l].kind = "insert"
      PROVE  k = l
  <2>1. CASE k \in 1 .. Len(J) /\ l \in 1 .. Len(J)
    BY <1>2, <1>5, <2>1 DEF JobsFit
  <2>2. CASE k = Len(J) + 1 /\ l \in 1 .. Len(J)
    BY <1>2, <1>5, <2>2 DEF Inserts
  <2>3. CASE l = Len(J) + 1 /\ k \in 1 .. Len(J)
    BY <1>2, <1>5, <2>3 DEF Inserts
  <2> QED
    BY <1>3, <2>1, <2>2, <2>3
<1>6. ASSUME j # None, j.op.kind = "insert"
      PROVE  Queued(H, j.op.id) /\ \A k \in 1 .. Len(Z) : ~Inserts(Z[k], j.op.id)
  BY <1>2, <1>3, <1>6 DEF JobsFit, Inserts
<1>7. j = None \/ j \in BookEdit
  BY DEF JobsFit
<1>8. JobsFit(Z, j, H)
  BY <1>2, <1>4, <1>5, <1>6, <1>7, Zenon DEF JobsFit
<1> QED
  BY <1>8 DEF Z

\* The first operation leaves the queue.
LEMMA JobTaken ==
  ASSUME NEW J, NEW H, JobsFit(J, None, H), J # <<>>
  PROVE  /\ JobsFit(Tail(J), None, H) /\ Head(J) \in Job
         /\ Head(J).kind = "insert" =>
                Queued(H, Head(J).id) /\ \A k \in 1 .. Len(Tail(J)) : ~Inserts(Tail(J)[k], Head(J).id)
         /\ (\E k \in 1 .. Len(J) : J[k].kind = "ids") /\ Head(J).kind # "ids" =>
                \E k \in 1 .. Len(Tail(J)) : Tail(J)[k].kind = "ids"
<1> DEFINE T == Tail(J)
           op == Head(J)
<1>1. /\ T \in Seq(Job) /\ Len(J) \in Nat /\ Len(J) >= 1 /\ Len(T) = Len(J) - 1
      /\ \A k \in 1 .. Len(T) : T[k] = J[k + 1] /\ k + 1 \in 1 .. Len(J)
      /\ op = J[1] /\ op \in Job /\ 1 \in 1 .. Len(J)
  BY TailFacts DEF JobsFit
<1> HIDE DEF T, op
<1>2. \A k \in 1 .. Len(T) : T[k].kind = "insert" => Queued(H, T[k].id)
  BY <1>1 DEF JobsFit
<1>3. ASSUME NEW k \in 1 .. Len(T), NEW l \in 1 .. Len(T), Inserts(T[k], T[l].id), T[l].kind = "insert"
      PROVE  k = l
  <2>1. k + 1 = l + 1
    BY <1>1, <1>3 DEF JobsFit
  <2> QED
    BY <2>1
<1>4. JobsFit(T, None, H)
  BY <1>1, <1>2, <1>3, Zenon DEF JobsFit
<1>5. ASSUME op.kind = "insert"
      PROVE  Queued(H, op.id) /\ \A k \in 1 .. Len(T) : ~Inserts(T[k], op.id)
  <2>1. Queued(H, op.id)
    BY <1>1, <1>5 DEF JobsFit
  <2>2. ASSUME NEW k \in 1 .. Len(T), Inserts(T[k], op.id) PROVE FALSE
    <3>1. k + 1 = 1
      BY <1>1, <1>5, <2>2 DEF JobsFit
    <3> QED
      BY <3>1
  <2> QED
    BY <2>1, <2>2
<1>6. ASSUME NEW k \in 1 .. Len(J), J[k].kind = "ids", op.kind # "ids"
      PROVE  \E l \in 1 .. Len(T) : T[l].kind = "ids"
  <2>1. k # 1
    BY <1>1, <1>6
  <2>2. k - 1 \in 1 .. Len(T) /\ (k - 1) + 1 = k
    BY <1>1, <2>1
  <2>3. T[k - 1] = J[k]
    BY <1>1, <2>2
  <2> QED
    BY <1>6, <2>2, <2>3
<1> QED
  BY <1>1, <1>4, <1>5, <1>6 DEF T, op

\* It runs: an edit is under way.
LEMMA JobRuns ==
  ASSUME BookEditAssumption, NEW J, NEW H, JobsFit(J, None, H), J # <<>>,
         NEW u \in BookEdit, u.op = Head(J)
  PROVE  JobsFit(Tail(J), u, H)
<1>1. u # None
  BY BookEditAssumption
<1> QED
  BY <1>1, JobTaken DEF JobsFit

\* The insertion of a request is the only one of it: once it is over, or has failed,
\* the queue has the others.
LEMMA InsertionIsOne ==
  ASSUME NEW H, NEW R, NEW m, HandlesFit(H, R, m), NEW n, Queued(H, n),
         NEW c, c = CHOOSE d \in H : d.request.id = n /\ d.at = "queued"
  PROVE  c \in H /\ c.request.id = n /\ c.at = "queued"
BY DEF Queued

LEMMA InsertionOver ==
  ASSUME NEW J, NEW H, JobsFit(J, None, H), NEW c \in H, NEW d,
         \A k \in 1 .. Len(J) : ~Inserts(J[k], c.request.id)
  PROVE  JobsFit(J, None, (H \ {c}) \union {d})
<1>1. ASSUME NEW k \in 1 .. Len(J), J[k].kind = "insert"
      PROVE  Queued((H \ {c}) \union {d}, J[k].id)
  <2>1. PICK b \in H : b.request.id = J[k].id /\ b.at = "queued"
    BY <1>1 DEF JobsFit, Queued
  <2>2. b # c
    BY <1>1, <2>1 DEF Inserts
  <2> QED
    BY <2>1, <2>2 DEF Queued
<1> QED
  BY <1>1 DEF JobsFit

(* The notebook *)

\* A cell, its key changed or not.
LEMMA CellTypes ==
  ASSUME NEW b, NEW last, BookFits(b, last), NEW i \in 1 .. Len(b)
  PROVE  /\ b[i] \in BookCell /\ b[i].key \in Nat /\ b[i].id \in 1 .. last /\ b[i].id \in Nat
         /\ b[i].from \in {None, Source} /\ Len(b) \in Nat /\ last \in Nat
<1>1. b \in Seq(BookCell) /\ last \in Nat /\ b[i].id \in 1 .. last /\ b[i].from \in {None, Source}
  BY DEF BookFits
<1>2. b[i] \in BookCell /\ Len(b) \in Nat
  BY <1>1, ElementOfSeq, LenProperties
<1>3. b[i].key \in Nat
  BY <1>2 DEF BookCell
<1> QED
  BY <1>1, <1>2, <1>3

LEMMA CellCopied ==
  ASSUME NEW x \in BookCell, NEW m \in Nat, NEW y, y = [x EXCEPT !.key = m]
  PROVE  y \in BookCell /\ y.key = m /\ y.id = x.id /\ y.of = x.of /\ y.from = x.from
BY DEF BookCell

LEMMA CellIdentified ==
  ASSUME NEW x \in BookCell, NEW m \in Nat, NEW y, y = [x EXCEPT !.id = m]
  PROVE  y \in BookCell /\ y.id = m /\ y.key = x.key /\ y.of = x.of /\ y.from = x.from
BY DEF BookCell

\* A new key is the key of no cell. The greatest key is the least bound of them.
LEMMA GreatestOf ==
  ASSUME NEW S \in SUBSET Nat, S # {}, NEW m \in Nat, \A x \in S : x <= m
  PROVE  Max(S) \in S /\ \A y \in S : Max(S) >= y
<1> DEFINE T == {n \in Nat : \A x \in S : x <= n}
<1>1. PICK u \in T : \A n \in T : u <= n
  <2>1. T \in SUBSET Nat /\ m \in T
    OBVIOUS
  <2> QED
    BY <2>1, LeastNatural
<1>2. u \in Nat /\ \A x \in S : x <= u
  OBVIOUS
<1>3. u \in S
  <2> SUFFICES ASSUME u \notin S PROVE FALSE
    OBVIOUS
  <2>1. \A x \in S : x \in Nat /\ x < u
    BY <1>2
  <2>2. u - 1 \in Nat /\ \A x \in S : x <= u - 1
    <3>1. PICK y \in S : y \in Nat /\ y < u
      BY <2>1
    <3>2. u - 1 \in Nat
      BY <1>2, <3>1
    <3>3. ASSUME NEW x \in S PROVE x <= u - 1
      BY <1>2, <2>1
    <3> QED
      BY <3>2, <3>3
  <2>3. u - 1 \in T
    BY <2>2
  <2> QED
    BY <1>1, <1>2, <2>3
<1>4. \E x \in S : \A y \in S : x >= y
  BY <1>2, <1>3
<1> QED
  BY <1>4, Zenon DEF Max

LEMMA NewKeyIsNew ==
  ASSUME BookFits(book, lastId)
  PROVE  NewKey \in Nat /\ NewKey # Source /\ \A i \in 1 .. Len(book) : book[i].key < NewKey
<1> DEFINE S == {0} \union {book[i].key : i \in DOMAIN book} \union {Source}
<1>1. DOMAIN book = 1 .. Len(book)
  BY LenProperties DEF BookFits
<1>2. PICK m \in Nat : \A i \in 1 .. Len(book) : book[i].key <= m
  BY DEF BookFits
<1>3. S \in SUBSET Nat /\ S # {} /\ Source \in S /\ \A i \in 1 .. Len(book) : book[i].key \in S
  BY <1>1, CellTypes DEF Source
<1>4. m + 1 \in Nat /\ \A x \in S : x <= m + 1
  <2>1. \A i \in 1 .. Len(book) : book[i].key <= m + 1
    BY <1>2, CellTypes
  <2> QED
    BY <1>1, <2>1 DEF Source
<1> HIDE DEF S
<1>5. Max(S) \in S /\ \A y \in S : Max(S) >= y
  BY <1>3, <1>4, GreatestOf
<1>6. NewKey = Max(S) + 1
  BY DEF NewKey, S
<1>7. Max(S) \in Nat /\ Source \in Nat
  BY <1>3, <1>5 DEF Source
<1>8. NewKey \in Nat /\ NewKey # Source
  BY <1>3, <1>5, <1>6, <1>7
<1>9. ASSUME NEW i \in 1 .. Len(book) PROVE book[i].key < NewKey
  BY <1>3, <1>5, <1>6, <1>7, CellTypes
<1> QED
  BY <1>8, <1>9

\* A cell is deleted.
LEMMA CellDeleted ==
  ASSUME NEW b, NEW last, BookFits(b, last), NEW i \in 1 .. Len(b), NEW z, z = RemoveAt(b, i)
  PROVE  /\ BookFits(z, last)
         /\ SourceIsFirst(b) /\ SourceFits(b) => SourceIsFirst(z) /\ SourceFits(z)
<1> DEFINE At(k) == IF k < i THEN k ELSE k + 1
<1>1. /\ b \in Seq(BookCell) /\ Len(b) \in Nat /\ last \in Nat
  BY LenProperties DEF BookFits
<1>2. /\ z \in Seq(BookCell) /\ Len(z) = Len(b) - 1
      /\ \A k \in 1 .. (Len(b) - 1) : z[k] = IF k < i THEN b[k] ELSE b[k + 1]
  BY <1>1, RemoveAtProperties
<1>3. /\ \A k \in 1 .. Len(z) : At(k) \in 1 .. Len(b) /\ z[k] = b[At(k)]
      /\ \A k, l \in 1 .. Len(z) : (At(k) = At(l) => k = l) /\ (k < l => At(k) < At(l))
  BY <1>1, <1>2
<1> HIDE DEF At
<1>4. \A k \in 1 .. Len(z) : z[k].id \in 1 .. last /\ z[k].from \in {None, Source}
  BY <1>3 DEF BookFits
<1>5. \A k, l \in 1 .. Len(z) : z[k].key = z[l].key => k = l
  BY <1>3 DEF BookFits
<1>6. \E m \in Nat : \A k \in 1 .. Len(z) : z[k].key <= m
  BY <1>3 DEF BookFits
<1>7. BookFits(z, last)
  BY <1>1, <1>2, <1>4, <1>5, <1>6 DEF BookFits
<1>8. ASSUME SourceIsFirst(b) PROVE SourceIsFirst(z)
  BY <1>3, <1>8 DEF SourceIsFirst
<1>9. ASSUME SourceFits(b) PROVE SourceFits(z)
  BY <1>3, <1>9 DEF SourceFits
<1> QED
  BY <1>7, <1>8, <1>9

\* A cell x, of a new key, is added at j.
KeysBelow(b, new) == \A k \in 1 .. Len(b) : b[k].key < new
Added(b, j, x, z) ==
    /\ Len(z) = Len(b) + 1 /\ z[j] = x /\ Len(b) \in Nat
    /\ \A k \in 1 .. Len(z) : k < j => k \in 1 .. Len(b) /\ z[k] = b[k]
    /\ \A k \in 1 .. Len(z) : k > j => k - 1 \in 1 .. Len(b) /\ z[k] = b[k - 1]

LEMMA CellIsInserted ==
  ASSUME NEW b \in Seq(BookCell), NEW x \in BookCell, NEW j \in 1 .. (Len(b) + 1)
  PROVE  /\ InsertAt(b, j, x) \in Seq(BookCell) /\ Len(InsertAt(b, j, x)) = Len(b) + 1
         /\ \A k \in 1 .. (Len(b) + 1) :
               InsertAt(b, j, x)[k] = IF k < j THEN b[k] ELSE IF k = j THEN x ELSE b[k - 1]
<1> DEFINE S == BookCell
<1>1. b \in Seq(S) /\ x \in S
  OBVIOUS
<1> HIDE DEF S
<1>2. /\ InsertAt(b, j, x) \in Seq(S) /\ Len(InsertAt(b, j, x)) = Len(b) + 1
      /\ \A k \in 1 .. (Len(b) + 1) :
            InsertAt(b, j, x)[k] = IF k < j THEN b[k] ELSE IF k = j THEN x ELSE b[k - 1]
  BY <1>1, InsertAtProperties
<1> QED
  BY <1>2 DEF S

LEMMA CellAdded ==
  ASSUME NEW b, NEW last, BookFits(b, last), NEW new \in Nat, KeysBelow(b, new),
         NEW x \in BookCell, x.key = new, x.from \in {None, Source},
         NEW top \in Nat, last <= top, x.id \in 1 .. top,
         NEW j \in 1 .. (Len(b) + 1), NEW z, z = InsertAt(b, j, x)
  PROVE  BookFits(z, top) /\ Added(b, j, x, z)
<1>1. b \in Seq(BookCell) /\ Len(b) \in Nat
  BY LenProperties DEF BookFits
<1>2. /\ z \in Seq(BookCell) /\ Len(z) = Len(b) + 1
      /\ \A k \in 1 .. (Len(b) + 1) : z[k] = IF k < j THEN b[k] ELSE IF k = j THEN x ELSE b[k - 1]
  <2> DEFINE y == InsertAt(b, j, x)
  <2>1. /\ y \in Seq(BookCell) /\ Len(y) = Len(b) + 1
        /\ \A k \in 1 .. (Len(b) + 1) : y[k] = IF k < j THEN b[k] ELSE IF k = j THEN x ELSE b[k - 1]
    BY <1>1, CellIsInserted, ZenonT(40)
  <2>2. z = y
    OBVIOUS
  <2> HIDE DEF y
  <2> QED
    BY <2>1, <2>2
<1>3. /\ \A k \in 1 .. Len(z) : k < j => k \in 1 .. Len(b) /\ z[k] = b[k]
      /\ \A k \in 1 .. Len(z) : k > j => k - 1 \in 1 .. Len(b) /\ z[k] = b[k - 1]
      /\ z[j] = x /\ \A k \in 1 .. Len(z) : k < j \/ k = j \/ k > j
  BY <1>1, <1>2
<1>4. \A k \in 1 .. Len(b) : /\ b[k].id \in 1 .. top /\ b[k].from \in {None, Source}
                             /\ b[k].key \in Nat /\ b[k].key < new
  BY CellTypes DEF KeysBelow
<1>5. \A k \in 1 .. Len(z) : z[k].id \in 1 .. top /\ z[k].from \in {None, Source}
  BY <1>3, <1>4
<1>6. ASSUME NEW k \in 1 .. Len(z), NEW l \in 1 .. Len(z), z[k].key = z[l].key
      PROVE  k = l
  <2>1. /\ k # j => z[k].key < new
        /\ l # j => z[l].key < new
    BY <1>3, <1>4
  <2>2. CASE k = j \/ l = j
    BY <1>3, <1>6, <2>1, <2>2
  <2>3. CASE k # j /\ l # j
    <3>1. PICK c \in 1 .. Len(b) : z[k] = b[c] /\ c = IF k < j THEN k ELSE k - 1
      BY <1>3, <2>3
    <3>2. PICK d \in 1 .. Len(b) : z[l] = b[d] /\ d = IF l < j THEN l ELSE l - 1
      BY <1>3, <2>3
    <3>3. c = d
      BY <1>6, <3>1, <3>2 DEF BookFits
    <3> QED
      BY <2>3, <3>1, <3>2, <3>3
  <2> QED
    BY <2>2, <2>3
<1>7. ASSUME NEW k \in 1 .. Len(z) PROVE z[k].key <= new
  <2>1. CASE k = j
    BY <1>3, <2>1
  <2>2. CASE k # j
    <3>1. PICK c \in 1 .. Len(b) : z[k] = b[c]
      BY <1>3, <2>2
    <3>2. b[c].key \in Nat /\ b[c].key < new
      BY <1>4
    <3> QED
      BY <3>1, <3>2
  <2> QED
    BY <2>1, <2>2
<1>8. BookFits(z, top)
  BY <1>2, <1>5, <1>6, <1>7 DEF BookFits
<1> QED
  BY <1>1, <1>2, <1>3, <1>8 DEF Added

\* A copy is pasted below the cell it is a copy of.
LEMMA CellPasted ==
  ASSUME NEW b, NEW last, BookFits(b, last), NEW new \in Nat, KeysBelow(b, new),
         new # Source, NEW i \in 1 .. Len(b), NEW j \in 1 .. (Len(b) + 1),
         NEW z, z = InsertAt(b, j, [b[i] EXCEPT !.key = new])
  PROVE  /\ BookFits(z, last) /\ Len(z) > Len(b)
         /\ i < j /\ SourceIsFirst(b) /\ SourceFits(b) => SourceIsFirst(z) /\ SourceFits(z)
<1> DEFINE x == [b[i] EXCEPT !.key = new]
<1>1. /\ x \in BookCell /\ x.key = new /\ x.id = b[i].id /\ x.of = b[i].of /\ x.from = b[i].from
  BY CellTypes, CellCopied
<1>2. /\ x.from \in {None, Source} /\ x.id \in 1 .. last /\ last \in Nat /\ last <= last
  BY <1>1, CellTypes
<1> HIDE DEF x
<1>3. z = InsertAt(b, j, x)
  BY DEF x
<1>4. /\ BookFits(z, last) /\ Len(z) = Len(b) + 1 /\ z[j] = x /\ Len(b) \in Nat
      /\ \A k \in 1 .. Len(z) : k < j => k \in 1 .. Len(b) /\ z[k] = b[k]
      /\ \A k \in 1 .. Len(z) : k > j => k - 1 \in 1 .. Len(b) /\ z[k] = b[k - 1]
  <2>1. BookFits(z, last) /\ Added(b, j, x, z)
    BY <1>1, <1>2, <1>3, CellAdded, Zenon
  <2> QED
    BY <2>1 DEF Added
<1>5. ASSUME i < j, SourceIsFirst(b), NEW s \in 1 .. Len(z), NEW k \in 1 .. Len(z), z[s].key = Source, k < s
      PROVE  z[k].id # z[s].id
  <2>1. s # j
    BY <1>1, <1>4, <1>5
  <2>2. CASE s < j
    BY <1>4, <1>5, <2>2, SMTT(30) DEF SourceIsFirst
  <2>3. CASE s > j
    <3>1. s - 1 \in 1 .. Len(b) /\ z[s] = b[s - 1]
      BY <1>4, <2>3
    <3>2. CASE k < j
      <4>1. k < s - 1 /\ k \in 1 .. Len(b) /\ z[k] = b[k]
        BY <1>4, <2>3, <3>2, SMTT(30)
      <4> QED
        BY <1>5, <3>1, <4>1 DEF SourceIsFirst
    <3>3. CASE k = j
      <4>1. i < s - 1
        BY <1>5, <2>3
      <4> QED
        BY <1>1, <1>4, <1>5, <3>1, <3>3, <4>1 DEF SourceIsFirst
    <3>4. CASE k > j
      <4>1. k - 1 \in 1 .. Len(b) /\ z[k] = b[k - 1]
        BY <1>4, <3>4
      <4>2. k - 1 < s - 1
        BY <1>5
      <4> QED
        BY <1>5, <3>1, <4>1, <4>2 DEF SourceIsFirst
    <3> QED
      BY <3>2, <3>3, <3>4
  <2> QED
    BY <2>1, <2>2, <2>3
<1>6. ASSUME SourceFits(b), NEW k \in 1 .. Len(z), NEW s \in 1 .. Len(z), z[k].from # None, z[s].key = Source
      PROVE  z[k].of = z[s].id
  <2>1. PICK t \in 1 .. Len(b) : z[s] = b[t]
    BY <1>1, <1>4, <1>6
  <2>2. \E c \in 1 .. Len(b) : z[k].from = b[c].from /\ z[k].of = b[c].of
    <3>1. CASE k < j
      BY <1>4, <3>1
    <3>2. CASE k = j
      BY <1>1, <1>4, <3>2
    <3>3. CASE k > j
      BY <1>4, <3>3
    <3>4. k \in Int /\ j \in Int
      OBVIOUS
    <3> QED
      BY <3>1, <3>2, <3>3, <3>4, SMTT(30)
  <2> QED
    BY <1>6, <2>1, <2>2 DEF SourceFits
<1>7. i < j /\ SourceIsFirst(b) => SourceIsFirst(z)
  BY <1>5 DEF SourceIsFirst
<1>8. SourceFits(b) => SourceFits(z)
  BY <1>6 DEF SourceFits
<1> QED
  BY <1>4, <1>7, <1>8

\* A cell is inserted after the source.
Continued(b, j, new, last) ==
    InsertAt(b, j, [key |-> new, id |-> last + 1, of |-> b[j - 1].id, from |-> Source])

LEMMA CellInserted ==
  ASSUME NEW b, NEW last, BookFits(b, last), NEW new \in Nat, KeysBelow(b, new),
         new # Source, NEW j \in Nat, j - 1 \in 1 .. Len(b), b[j - 1].key = Source,
         NEW z, z = Continued(b, j, new, last)
  PROVE  /\ BookFits(z, last + 1) /\ Len(z) = Len(b) + 1
         /\ z[j - 1].key = Source
         /\ \A k \in 1 .. Len(z) : k # j => \E c \in 1 .. Len(b) : z[k] = b[c]
         /\ SourceIsFirst(b) /\ SourceFits(b) => SourceIsFirst(z) /\ SourceFits(z)
<1> DEFINE x == [key |-> new, id |-> last + 1, of |-> b[j - 1].id, from |-> Source]
<1>1. /\ last \in Nat /\ last + 1 \in Nat /\ last <= last + 1 /\ last + 1 \in 1 .. (last + 1)
      /\ b[j - 1].id \in Nat /\ Source \in Nat
  BY CellTypes DEF Source
<1>2. /\ x \in BookCell /\ x.key = new /\ x.id = last + 1 /\ x.of = b[j - 1].id /\ x.from = Source
  BY <1>1 DEF BookCell
<1> HIDE DEF x
<1>3. z = InsertAt(b, j, x) /\ x.from \in {None, Source} /\ x.id \in 1 .. (last + 1)
  BY <1>1, <1>2 DEF x, Continued
<1>4. j \in 1 .. (Len(b) + 1) /\ Len(b) \in Nat
  BY CellTypes
<1>5. /\ BookFits(z, last + 1) /\ Len(z) = Len(b) + 1 /\ z[j] = x
      /\ \A k \in 1 .. Len(z) : k < j => k \in 1 .. Len(b) /\ z[k] = b[k]
      /\ \A k \in 1 .. Len(z) : k > j => k - 1 \in 1 .. Len(b) /\ z[k] = b[k - 1]
  <2>1. BookFits(z, last + 1) /\ Added(b, j, x, z)
    BY <1>1, <1>2, <1>3, <1>4, CellAdded, Zenon
  <2> QED
    BY <2>1 DEF Added
<1>6. z[j - 1] = b[j - 1] /\ j - 1 \in 1 .. Len(z)
  BY <1>4, <1>5
<1>7. \A c \in 1 .. Len(b) : b[c].id # last + 1
  BY <1>1, CellTypes
<1>8. ASSUME SourceIsFirst(b), NEW s \in 1 .. Len(z), NEW k \in 1 .. Len(z), z[s].key = Source, k < s
      PROVE  z[k].id # z[s].id
  <2>1. s # j
    BY <1>2, <1>5, <1>8
  <2>2. PICK t \in 1 .. Len(b) : z[s] = b[t] /\ t = IF s < j THEN s ELSE s - 1
    BY <1>5, <2>1
  <2>3. CASE k = j
    BY <1>2, <1>5, <1>7, <2>2, <2>3
  <2>4. CASE k # j
    <3>1. PICK c \in 1 .. Len(b) : z[k] = b[c] /\ c = IF k < j THEN k ELSE k - 1
      BY <1>5, <2>4
    <3>2. c < t
      BY <1>4, <1>8, <2>1, <2>2, <2>4, <3>1
    <3> QED
      BY <1>8, <2>2, <3>1, <3>2 DEF SourceIsFirst
  <2> QED
    BY <2>3, <2>4
<1>9. ASSUME SourceFits(b), NEW k \in 1 .. Len(z), NEW s \in 1 .. Len(z), z[k].from # None, z[s].key = Source
      PROVE  z[k].of = z[s].id
  <2>1. s = j - 1
    <3>1. z[s].key = z[j - 1].key /\ s \in 1 .. Len(z) /\ j - 1 \in 1 .. Len(z)
      BY <1>6, <1>9
    <3>2. \A k1, l1 \in 1 .. Len(z) : z[k1].key = z[l1].key => k1 = l1
      BY <1>5 DEF BookFits
    <3> QED
      BY <3>1, <3>2
  <2>2. CASE k = j
    BY <1>2, <1>5, <1>6, <2>1, <2>2
  <2>3. CASE k # j
    <3>1. PICK c \in 1 .. Len(b) : z[k] = b[c]
      BY <1>5, <2>3
    <3> QED
      BY <1>6, <1>9, <2>1, <3>1 DEF SourceFits
  <2> QED
    BY <2>2, <2>3
<1>10. SourceIsFirst(b) => SourceIsFirst(z)
  BY <1>8 DEF SourceIsFirst
<1>11. SourceFits(b) => SourceFits(z)
  BY <1>9 DEF SourceFits
<1>12. \A k \in 1 .. Len(z) : k # j => \E c \in 1 .. Len(b) : z[k] = b[c]
  BY <1>5
<1> QED
  BY <1>5, <1>6, <1>10, <1>11, <1>12

\* Identifiers are given to the cells that repeat one: new ones, all different.
WithIds(b, U, last) ==
    [i \in DOMAIN b |->
        IF i \in U THEN [b[i] EXCEPT !.id = last + Cardinality({j \in U : j <= i})] ELSE b[i]]

LEMMA CellsIdentified ==
  ASSUME NEW b, NEW last, BookFits(b, last), NEW U, U = Repeats(b),
         NEW z, z = WithIds(b, U, last)
  PROVE  /\ BookFits(z, last + Cardinality(U)) /\ Len(z) = Len(b) /\ Repeats(z) = {}
         /\ \A i \in 1 .. Len(b) : z[i].key = b[i].key /\ z[i].from = b[i].from
         /\ SourceIsFirst(b) /\ SourceFits(b) => SourceIsFirst(z) /\ SourceFits(z)
<1> DEFINE N == Len(b)
           Upto(i) == {j \in U : j <= i}
           Rank(i) == Cardinality(Upto(i))
<1>1. /\ b \in Seq(BookCell) /\ N \in Nat /\ DOMAIN b = 1 .. N /\ last \in Nat
      /\ U \subseteq 1 .. N
  BY LenProperties DEF BookFits, Repeats
<1>2. IsFiniteSet(U) /\ Cardinality(U) \in Nat
  <2>1. IsFiniteSet(1 .. N)
    <3>1. N \in Int /\ 1 \in Int
      BY <1>1
    <3> HIDE DEF N
    <3> QED
      BY <3>1, FS_Interval
  <2> QED
    BY <1>1, <2>1, FS_Subset, FS_CardinalityType
<1>3. \A i : Rank(i) \in Nat /\ Rank(i) <= Cardinality(U) /\ IsFiniteSet(Upto(i))
  <2> SUFFICES ASSUME NEW i
               PROVE  Rank(i) \in Nat /\ Rank(i) <= Cardinality(U) /\ IsFiniteSet(Upto(i))
    OBVIOUS
  <2>1. Upto(i) \in SUBSET U
    OBVIOUS
  <2> HIDE DEF Upto
  <2> QED
    BY <1>2, <2>1, FS_Subset, FS_CardinalityType
<1>4. ASSUME NEW i \in U, NEW k \in U, i < k
      PROVE  Rank(i) < Rank(k)
  <2>1. Upto(i) \in SUBSET Upto(k) /\ k \in Upto(k) /\ k \notin Upto(i)
    BY <1>1, <1>4
  <2> HIDE DEF Upto
  <2>2. Rank(i) <= Rank(k) /\ (Rank(k) = Rank(i) => Upto(k) = Upto(i))
    BY <1>3, <2>1, FS_Subset
  <2>3. Rank(i) # Rank(k) /\ Rank(i) \in Nat /\ Rank(k) \in Nat
    BY <1>3, <2>1, <2>2
  <2> QED
    BY <2>2, <2>3
<1>5. \A i \in U : Rank(i) >= 1
  <2> SUFFICES ASSUME NEW i \in U PROVE Rank(i) >= 1
    OBVIOUS
  <2>1. i \in Upto(i)
    BY <1>1
  <2> HIDE DEF Upto
  <2>2. Rank(i) # 0
    BY <1>3, <2>1, FS_EmptySet
  <2> QED
    BY <1>3, <2>2
<1>6. z = [i \in 1 .. N |-> IF i \in U THEN [b[i] EXCEPT !.id = last + Rank(i)] ELSE b[i]]
  BY <1>1 DEF WithIds
<1> HIDE DEF N, Upto, Rank
<1>7. ASSUME NEW i \in 1 .. N
      PROVE  /\ z[i] \in BookCell /\ z[i].key = b[i].key /\ z[i].of = b[i].of /\ z[i].from = b[i].from
             /\ i \in U => z[i].id = last + Rank(i)
             /\ i \notin U => z[i].id = b[i].id
  <2>1. b[i] \in BookCell
    BY <1>1, ElementOfSeq DEF N
  <2>2. CASE i \in U
    <3>1. last + Rank(i) \in Nat /\ z[i] = [b[i] EXCEPT !.id = last + Rank(i)]
      BY <1>1, <1>3, <1>6, <2>2
    <3> QED
      BY <2>1, <2>2, <3>1, CellIdentified
  <2>3. CASE i \notin U
    BY <1>6, <2>1, <2>3
  <2> QED
    BY <2>2, <2>3
<1>8. z \in Seq(BookCell) /\ Len(z) = N
  <2>1. z \in [1 .. N -> BookCell]
    BY <1>6, <1>7
  <2>2. z \in Seq(BookCell)
    BY <1>1, <2>1, FunctionIsSeq
  <2>3. DOMAIN z = 1 .. N /\ DOMAIN z = 1 .. Len(z) /\ Len(z) \in Nat
    BY <2>1, <2>2, LenProperties
  <2> HIDE DEF N
  <2> QED
    BY <1>1, <2>2, <2>3
<1>9. \A i \in 1 .. N : b[i].id \in 1 .. last /\ b[i].id \in Nat /\ b[i].from \in {None, Source}
  BY CellTypes DEF N
<1>10. /\ \A i \in 1 .. N : i \notin U => z[i].id <= last /\ z[i].id \in Nat
       /\ \A i \in 1 .. N : i \in U => z[i].id > last /\ z[i].id \in Nat
  <2>1. ASSUME NEW i \in 1 .. N, i \notin U PROVE z[i].id <= last /\ z[i].id \in Nat
    BY <1>1, <1>7, <1>9, <2>1
  <2>2. ASSUME NEW i \in 1 .. N, i \in U PROVE z[i].id > last /\ z[i].id \in Nat
    <3>1. z[i].id = last + Rank(i) /\ Rank(i) \in Nat /\ Rank(i) >= 1
      BY <1>3, <1>5, <1>7, <2>2
    <3> QED
      BY <1>1, <3>1
  <2> QED
    BY <2>1, <2>2
<1>11. last + Cardinality(U) \in Nat /\ \A i \in 1 .. N : z[i].id \in 1 .. (last + Cardinality(U))
  <2>1. last + Cardinality(U) \in Nat
    BY <1>1, <1>2
  <2>2. ASSUME NEW i \in 1 .. N PROVE z[i].id \in 1 .. (last + Cardinality(U))
    <3>1. CASE i \in U
      <4>1. Rank(i) \in Nat /\ Rank(i) >= 1 /\ Rank(i) <= Cardinality(U) /\ z[i].id = last + Rank(i)
        BY <1>3, <1>5, <1>7, <3>1
      <4> QED
        BY <1>1, <1>2, <4>1
    <3>2. CASE i \notin U
      <4>1. z[i].id \in 1 .. last
        BY <1>7, <1>9, <3>2
      <4> QED
        BY <1>1, <1>2, <4>1
    <3> QED
      BY <3>1, <3>2
  <2> QED
    BY <2>1, <2>2
<1>12. \A i, k \in 1 .. N : z[i].key = z[k].key => i = k
  BY <1>7 DEF BookFits, N
<1>13. \E m \in Nat : \A i \in 1 .. N : z[i].key <= m
  BY <1>7 DEF BookFits, N
<1>14. BookFits(z, last + Cardinality(U))
  BY <1>7, <1>8, <1>9, <1>11, <1>12, <1>13 DEF BookFits
<1>15. ASSUME NEW i \in 1 .. N, NEW k \in 1 .. N, k < i, z[k].id = z[i].id
       PROVE  FALSE
  <2>1. CASE i \in U /\ k \in U
    <3>1. Rank(k) < Rank(i) /\ Rank(k) \in Nat /\ Rank(i) \in Nat
      BY <1>3, <1>4, <1>15, <2>1
    <3>2. last + Rank(k) = last + Rank(i)
      BY <1>7, <1>15, <2>1
    <3> QED
      BY <1>1, <3>1, <3>2
  <2>2. CASE i \in U /\ k \notin U
    <3>1. z[i].id \in Nat /\ z[k].id \in Nat /\ z[k].id = z[i].id
      BY <1>10, <1>15
    <3>2. (z[i].id > last /\ z[k].id <= last) \/ (z[k].id > last /\ z[i].id <= last)
      BY <1>10, <2>2
    <3> QED
      BY <1>1, <3>1, <3>2
  <2>3. CASE i \notin U /\ k \in U
    <3>1. z[i].id \in Nat /\ z[k].id \in Nat /\ z[k].id = z[i].id
      BY <1>10, <1>15
    <3>2. (z[i].id > last /\ z[k].id <= last) \/ (z[k].id > last /\ z[i].id <= last)
      BY <1>10, <2>3
    <3> QED
      BY <1>1, <3>1, <3>2
  <2>4. CASE i \notin U /\ k \notin U
    <3>1. b[k].id = b[i].id /\ k \in 1 .. (i - 1)
      BY <1>1, <1>7, <1>15, <2>4
    <3>2. i \in U
      BY <3>1 DEF Repeats, N
    <3> QED
      BY <2>4, <3>2
  <2> QED
    BY <2>1, <2>2, <2>3, <2>4
<1>16. Repeats(z) = {}
  <2> SUFFICES ASSUME NEW i \in 1 .. N, NEW k \in 1 .. (i - 1), z[k].id = z[i].id PROVE FALSE
    BY <1>8 DEF Repeats
  <2>1. k \in 1 .. N /\ k < i
    BY <1>1
  <2> QED
    BY <1>15, <2>1
<1>17. SourceIsFirst(z)
  BY <1>1, <1>8, <1>15 DEF SourceIsFirst
<1>18. ASSUME SourceIsFirst(b), SourceFits(b) PROVE SourceFits(z)
  <2> SUFFICES ASSUME NEW i \in 1 .. N, NEW s \in 1 .. N, z[i].from # None, z[s].key = Source
               PROVE  z[i].of = z[s].id
    BY <1>8 DEF SourceFits
  <2>1. b[s].key = Source /\ b[i].from # None
    BY <1>7
  <2>2. s \notin U
    <3>1. ASSUME NEW k \in 1 .. (s - 1) PROVE b[k].id # b[s].id
      <4>1. k \in 1 .. N /\ k < s
        BY <1>1
      <4> QED
        BY <1>18, <2>1, <4>1 DEF SourceIsFirst, N
    <3> QED
      BY <3>1 DEF Repeats
  <2> QED
    BY <1>7, <1>18, <2>1, <2>2 DEF SourceFits, N
<1> QED
  BY <1>7, <1>8, <1>14, <1>16, <1>17, <1>18 DEF N
-----------------------------------------------------------------------------
(* The actions *)

LEMMA CommandsStart == CmInit => CmInd
<1> SUFFICES ASSUME CmInit PROVE CmInd
  OBVIOUS
<1>1. /\ CountsFit(readyView, posted, cellEdits)
      /\ {sessionHeld, idsRefused, copiedAbove} \subseteq BOOLEAN
  <2>1. CountsFit(readyView, posted, cellEdits)
    BY CommandsAssumption DEF CmInit, CountsFit, Revisions
  <2>2. {sessionHeld, idsRefused, copiedAbove} \subseteq BOOLEAN
    BY Zenon DEF CmInit
  <2> QED
    BY <2>1, <2>2
<1>7. PanelFits(panel)
  <2>1. 0 \in Revisions /\ 0 \in 0 .. MaxPosts
    BY CommandsAssumption DEF Revisions
  <2> QED
    BY <2>1 DEF CmInit, PanelFits, Panel
<1>2. RequestsFit(requested, posted) /\ replied \in Seq(Reply) /\ HandlesFit(handling, requested, posted)
  BY DEF CmInit, RequestsFit, HandlesFit
<1>3. CopyFits(copied) /\ JobsFit(jobs, job, handling) /\ EditInPlace(book, job)
  BY DEF CmInit, CopyFits, JobsFit, EditInPlace
<1>4. /\ book \in Seq(BookCell) /\ Len(book) = 2
      /\ \A i \in 1 .. 2 : book[i] = [key |-> i, id |-> i, of |-> None, from |-> None]
  <2>1. book \in [1 .. 2 -> BookCell]
    BY DEF CmInit, BookCell
  <2>2. book \in Seq(BookCell) /\ DOMAIN book = 1 .. 2
    BY <2>1, FunctionIsSeq
  <2> QED
    BY <2>2, LenProperties DEF CmInit
<1>5. BookFits(book, lastId)
  <2>1. \A i \in 1 .. Len(book) : book[i].id \in 1 .. lastId /\ book[i].from \in {None, Source}
    BY <1>4 DEF CmInit
  <2>2. \A i, j \in 1 .. Len(book) : book[i].key = book[j].key => i = j
    BY <1>4
  <2>3. \A i \in 1 .. Len(book) : book[i].key <= 2
    BY <1>4
  <2>4. lastId \in Nat
    BY DEF CmInit
  <2> QED
    BY <1>4, <2>1, <2>2, <2>3, <2>4 DEF BookFits
<1>6. SourceIsFirst(book) /\ SourceFits(book) /\ Repeats(book) = {}
  BY <1>4 DEF SourceIsFirst, SourceFits, Repeats
<1> QED
  BY <1>1, <1>2, <1>3, <1>5, <1>6, <1>7 DEF CmInd, IdsDue

\* The grid's view moves, and rows are selected in it.
LEMMA GridMoves ==
  ASSUME CmInd, AskView \/ ViewReady \/ ViewAnswered \/ Select
  PROVE  CmInd'
<1>1. PanelFits(panel) /\ readyView \in Revisions /\ readyView \in Nat /\ panel.revision \in Revisions
  BY PanelTypes, CommandsAssumption DEF CmInd, CountsFit, Revisions
<1>2. PanelFits(panel') /\ readyView' \in Revisions
  <2>1. CASE AskView
    BY <1>1, <2>1, PanelChanges DEF AskView
  <2>2. CASE ViewReady
    BY <1>1, <2>2, CommandsAssumption DEF ViewReady, Revisions
  <2>3. CASE ViewAnswered
    <3>1. PanelFits(Moved(readyView)) /\ PanelFits([panel EXCEPT !.changing = FALSE])
      BY <1>1, PanelMoves, PanelChanges DEF Moved
    <3> QED
      BY <1>1, <2>3, <3>1 DEF ViewAnswered
  <2>4. CASE Select
    BY <1>1, <2>4, PanelSelects DEF Select
  <2> QED
    BY <2>1, <2>2, <2>3, <2>4
<1>3. UNCHANGED <<posted, hostVars, bookVars, queueVars>>
  BY DEF AskView, ViewReady, ViewAnswered, Select
<1> QED
  BY <1>2, <1>3 DEF CmInd, CountsFit, hostVars, bookVars, queueVars

LEMMA Posts ==
  ASSUME CmInd, NEW type \in Types, NEW rows, rows = panel.revision, PostRequest(type, rows),
         PanelFits(panel')
  PROVE  CmInd'
<1> DEFINE x == [type |-> type, id |-> posted + 1, revision |-> panel.revision, rows |-> rows]
<1>1. posted \in 0 .. MaxPosts /\ posted < MaxPosts /\ panel.revision \in Revisions
  BY PanelTypes DEF CmInd, CountsFit, PostRequest
<1>2. posted + 1 \in 1 .. MaxPosts /\ posted + 1 \in 0 .. MaxPosts
  BY <1>1, CommandsAssumption
<1>3. x \in Request /\ x.id = posted + 1 /\ x.rows = x.revision
  BY <1>1, <1>2 DEF Request, PostIds
<1> HIDE DEF x
<1>4. /\ RequestsFit(Append(requested, x), posted + 1)
      /\ HandlesFit(handling, Append(requested, x), posted + 1)
  BY <1>1, <1>3, RequestPosted, CommandsAssumption DEF CmInd
<1>5. requested' = Append(requested, x) /\ posted' = posted + 1
  BY DEF PostRequest, x
<1>6. UNCHANGED <<readyView, replied, handling, copied, bookVars, queueVars>>
  BY DEF PostRequest
<1> QED
  BY <1>2, <1>4, <1>5, <1>6 DEF CmInd, CountsFit, bookVars, queueVars

LEMMA GridPosts ==
  ASSUME CmInd, CopySelection \/ ContinueResults \/ RequestEnrichment
  PROVE  CmInd'
<1>1. PanelFits(panel) /\ panel.selected \in {None, panel.revision}
  BY PanelTypes DEF CmInd
<1> DEFINE rows == IF panel.selected = None THEN panel.revision ELSE panel.selected
<1>2. rows = panel.revision
  BY <1>1
<1>3. ASSUME PostRequest("copy", rows) \/ PostRequest("continue", rows) \/ PostRequest("enrich", rows)
      PROVE  posted + 1 \in 0 .. MaxPosts
  BY <1>3, CommandsAssumption DEF PostRequest, CmInd, CountsFit
<1>4. CASE CopySelection
  <2>1. PostRequest("copy", rows) /\ PanelFits(panel')
    BY <1>1, <1>4 DEF CopySelection
  <2> QED
    BY <1>2, <2>1, Posts DEF Types
<1>5. CASE ContinueResults
  <2>1. PostRequest("continue", rows) /\ panel' = [panel EXCEPT !.continuing = posted + 1]
    BY <1>5 DEF ContinueResults
  <2>2. PanelFits(panel')
    BY <1>1, <1>3, <2>1, PanelWaits, PanelTypes
  <2> QED
    BY <1>2, <2>1, <2>2, Posts DEF Types
<1>6. CASE RequestEnrichment
  <2>1. PostRequest("enrich", rows) /\ panel' = [panel EXCEPT !.enriching = posted + 1]
    BY <1>6 DEF RequestEnrichment
  <2>2. PanelFits(panel')
    BY <1>1, <1>3, <2>1, PanelWaits, PanelTypes
  <2> QED
    BY <1>2, <2>1, <2>2, Posts DEF Types
<1> QED
  BY <1>4, <1>5, <1>6

LEMMA GridReceives ==
  ASSUME CmInd, ReceiveReply
  PROVE  CmInd'
<1> DEFINE m == Head(replied)
           p == IF m.moves \in {None, panel.revision} THEN panel
                ELSE [Moved(m.moves) EXCEPT !.changing = panel.changing]
           c == IF p.continuing = m.id THEN 0 ELSE p.continuing
           q == [p EXCEPT !.continuing = c]
           e == IF q.enriching = m.id THEN 0 ELSE q.enriching
           r == [q EXCEPT !.enriching = e]
<1>1. PanelFits(panel) /\ replied \in Seq(Reply) /\ replied # <<>>
  BY DEF CmInd, ReceiveReply
<1>2. Tail(replied) \in Seq(Reply) /\ m \in Reply
  BY <1>1, TailFacts
<1>3. m.moves \in Revisions \union {None} /\ panel.changing \in BOOLEAN /\ 0 \in 0 .. MaxPosts
  BY <1>1, <1>2, PanelTypes, CommandsAssumption DEF Reply
<1> HIDE DEF m
<1>4. PanelFits(p)
  <2>1. CASE m.moves \in {None, panel.revision}
    BY <1>1, <2>1
  <2>2. CASE m.moves \notin {None, panel.revision}
    <3>1. PanelFits(Moved(m.moves))
      BY <1>1, <1>3, <2>2, PanelMoves DEF Moved
    <3>2. PanelFits([Moved(m.moves) EXCEPT !.changing = panel.changing])
      BY <1>3, <3>1, PanelChanges
    <3> QED
      BY <2>2, <3>2
  <2> QED
    BY <2>1, <2>2
<1>5. panel' = r
  <2>1. p = [revision |-> p.revision, selected |-> p.selected, changing |-> p.changing,
             continuing |-> p.continuing, enriching |-> p.enriching]
    BY <1>4, PanelTypes
  <2>2. panel' = [p EXCEPT !.continuing = IF @ = m.id THEN 0 ELSE @,
                           !.enriching = IF @ = m.id THEN 0 ELSE @]
    BY DEF ReceiveReply, m
  <2> HIDE DEF p
  <2> QED
    BY <2>1, <2>2
<1> HIDE DEF p
<1>6. PanelFits(q)
  BY <1>3, <1>4, PanelTypes, PanelWaits
<1> HIDE DEF q
<1>7. PanelFits(r)
  BY <1>3, <1>6, PanelTypes, PanelWaits
<1>8. replied' = Tail(replied)
  BY DEF ReceiveReply
<1>9. UNCHANGED <<readyView, posted, requested, handling, copied, bookVars, queueVars>>
  BY DEF ReceiveReply
<1> QED
  BY <1>2, <1>5, <1>7, <1>8, <1>9 DEF CmInd, CountsFit, bookVars, queueVars

LEMMA HostTakes ==
  ASSUME CmInd, HandleRequest
  PROVE  CmInd'
<1> DEFINE q == Head(requested)
           d == [request |-> q, read |-> <<>>, at |-> First(q)]
<1>1. requested \in Seq(Request) /\ requested # <<>> /\ q \in Request
  BY TailFacts DEF CmInd, RequestsFit, HandleRequest
<1>2. First(q) \in {"reading", "picking", "creating", "failed"}
  BY <1>1 DEF First, Request, Types
<1>3. d \in Handling /\ d.request = q /\ d.read = <<>>
  BY <1>1, <1>2 DEF Handling
<1>4. handling' = handling \union {d} /\ requested' = Tail(requested)
  BY DEF HandleRequest
<1> HIDE DEF d
<1>5. RequestsFit(requested', posted) /\ HandlesFit(handling', requested', posted)
  BY <1>1, <1>3, <1>4, RequestTaken DEF CmInd
<1>6. JobsFit(jobs, job, handling')
  BY <1>4, JobsWithHandles DEF CmInd
<1>7. UNCHANGED <<readyView, panel, posted, replied, copied, bookVars, queueVars>>
  BY DEF HandleRequest
<1> QED
  BY <1>5, <1>6, <1>7 DEF CmInd, CountsFit, bookVars, queueVars

\* A request not in the notebook's queue goes on to another of its states.
LEMMA HandleGoesOn ==
  ASSUME CmInd, NEW c \in handling, c.at # "queued",
         NEW at \in {"reading", "picking", "creating", "asking", "queued", "inserted", "dismissed", "failed"},
         HandlingGoes(c, at)
  PROVE  HandlesFit(handling', requested, posted) /\ JobsFit(jobs, job, handling')
<1> DEFINE d == [c EXCEPT !.at = at]
<1>1. c \in Handling /\ \A k \in 1 .. Len(c.read) : c.read[k] = c.request.revision
  BY DEF CmInd, HandlesFit
<1>2. d \in Handling /\ d.request = c.request /\ d.read = c.read
  BY <1>1, HandleGoes
<1>3. handling' = (handling \ {c}) \union {d}
  BY DEF HandlingGoes
<1> HIDE DEF d
<1>4. \A k \in 1 .. Len(d.read) : d.read[k] = d.request.revision
  BY <1>1, <1>2
<1>5. HandlesFit(handling', requested, posted)
  BY <1>2, <1>3, <1>4, HandleReplaced DEF CmInd
<1>6. \A b \in handling : b.at = "queued" => b \in handling'
  BY <1>3
<1> QED
  BY <1>5, <1>6, JobsWithHandles DEF CmInd

\* Its cell is one the queue has yet to insert.
LEMMA HandleQueued ==
  ASSUME CmInd, NEW c \in handling, c.at # "queued", HandlingGoes(c, "queued"),
         Enqueued([kind |-> "insert", id |-> c.request.id])
  PROVE  JobsFit(jobs', job, handling')
<1> DEFINE op == [kind |-> "insert", id |-> c.request.id]
           n == c.request.id
           d == [c EXCEPT !.at = "queued"]
<1>1. /\ c \in Handling /\ n \in PostIds
      /\ \A b \in handling : b.request.id = n => b = c
  BY DEF CmInd, HandlesFit, Handling, Request
<1>2. op \in Job /\ op.kind = "insert" /\ op.id = n
  BY <1>1 DEF Job
<1>3. d.request = c.request /\ d.at = "queued" /\ d \in handling'
  BY <1>1, HandleGoes DEF HandlingGoes
<1>4. Queued(handling', op.id)
  BY <1>2, <1>3 DEF Queued
<1>5. ~Queued(handling, n)
  BY <1>1 DEF Queued
<1> HIDE DEF op, n, d
<1>6. \A k \in 1 .. Len(jobs) : ~Inserts(jobs[k], op.id)
  BY <1>2, <1>5 DEF CmInd, JobsFit, Inserts
<1>7. job # None => ~Inserts(job.op, op.id)
  BY <1>2, <1>5 DEF CmInd, JobsFit, Inserts
<1>8. JobsFit(jobs, job, handling')
  BY HandleGoesOn
<1> QED
  BY <1>2, <1>4, <1>6, <1>7, <1>8, JobEnqueued DEF Enqueued, op, n

LEMMA HostReads ==
  ASSUME CmInd, NEW c \in handling, ReadPage(c)
  PROVE  CmInd'
<1>1. c.at = "reading"
  BY DEF ReadPage
<1>2. UNCHANGED <<readyView, panel, posted, requested, replied, bookVars, queueVars>>
  BY DEF ReadPage
<1>3. HandlesFit(handling', requested, posted) /\ JobsFit(jobs, job, handling') /\ CopyFits(copied')
  <2>1. CASE ~Valid(c)
    <3>1. HandlingGoes(c, "failed") /\ copied' = copied
      BY <2>1 DEF ReadPage
    <3> QED
      BY <1>1, <3>1, HandleGoesOn DEF CmInd
  <2>2. CASE Valid(c)
    <3> DEFINE read == Append(c.read, readyView)
               at == IF Len(read) = Pages THEN "inserted" ELSE c.at
               d == [c EXCEPT !.read = read, !.at = at]
    <3>1. /\ handling' = (handling \ {c}) \union {d}
          /\ copied' = IF Len(read) = Pages THEN read ELSE copied
      BY <2>2 DEF ReadPage
    <3>2. /\ c \in Handling /\ c.read \in Seq(Revisions) /\ readyView \in Revisions
          /\ c.request.revision = readyView
          /\ \A k \in 1 .. Len(c.read) : c.read[k] = readyView
      BY <2>2 DEF CmInd, HandlesFit, Handling, CountsFit, Valid
    <3>3. /\ read \in Seq(Revisions) /\ Len(read) = Len(c.read) + 1 /\ Len(c.read) \in Nat
          /\ \A k \in 1 .. Len(c.read) : read[k] = c.read[k]
          /\ read[Len(c.read) + 1] = readyView
      BY <3>2, AppendFacts
    <3> HIDE DEF read
    <3>4. \A k \in 1 .. Len(read) : read[k] = readyView
      BY <3>2, <3>3
    <3>5. at \in {"reading", "inserted"}
      BY <1>1
    <3> HIDE DEF at
    <3>6. d \in Handling /\ d.request = c.request /\ d.read = read
      BY <3>2, <3>3, <3>5 DEF Handling
    <3> HIDE DEF d
    <3>7. HandlesFit(handling', requested, posted)
      BY <3>1, <3>2, <3>4, <3>6, HandleReplaced DEF CmInd
    <3>8. \A b \in handling : b.at = "queued" => b \in handling'
      BY <1>1, <3>1
    <3>9. JobsFit(jobs, job, handling')
      BY <3>8, JobsWithHandles DEF CmInd
    <3>10. ToSet(read) = {readyView}
      <4>1. ToSet(read) = {read[k] : k \in 1 .. Len(read)}
        BY <3>3, LenProperties DEF ToSet
      <4>2. Len(read) \in 1 .. Len(read)
        BY <3>3
      <4> QED
        BY <3>4, <4>1, <4>2
    <3>11. CopyFits(read)
      BY <3>3, <3>10, FS_Singleton DEF CopyFits
    <3> QED
      BY <3>1, <3>7, <3>9, <3>11 DEF CmInd
  <2> QED
    BY <2>1, <2>2
<1> QED
  BY <1>2, <1>3 DEF CmInd, CountsFit, bookVars, queueVars

LEMMA HostPicks ==
  ASSUME CmInd, NEW c \in handling, Pick(c)
  PROVE  CmInd'
<1>1. c.at # "queued" /\ \E at \in {"creating", "dismissed", "failed"} : HandlingGoes(c, at)
  BY DEF Pick
<1>2. HandlesFit(handling', requested, posted) /\ JobsFit(jobs, job, handling')
  BY <1>1, HandleGoesOn
<1>3. UNCHANGED <<readyView, panel, posted, requested, replied, copied, bookVars, queueVars>>
  BY DEF Pick
<1> QED
  BY <1>2, <1>3 DEF CmInd, CountsFit, bookVars, queueVars

\* An operation at the end of the queue leaves the others due.
LEMMA IdsStayDue ==
  ASSUME NEW b, NEW J, NEW j, NEW refused, IdsDue(b, J, j, refused), NEW S, J \in Seq(S), NEW op \in S
  PROVE  IdsDue(b, Append(J, op), j, refused)
<1>1. /\ Len(Append(J, op)) = Len(J) + 1 /\ Len(J) \in Nat
      /\ \A k \in 1 .. Len(J) : Append(J, op)[k] = J[k] /\ k \in 1 .. (Len(J) + 1)
  BY AppendFacts
<1> QED
  BY <1>1 DEF IdsDue

LEMMA HostQueues ==
  ASSUME CmInd, NEW c \in handling, Create(c) \/ Confirm(c)
  PROVE  CmInd'
<1> DEFINE op == [kind |-> "insert", id |-> c.request.id]
<1>1. /\ c.at # "queued"
      /\ UNCHANGED <<readyView, panel, posted, requested, replied, copied, bookVars, job, lastId, idsRefused>>
  BY DEF Create, Confirm
<1>2. \/ HandlingGoes(c, "queued") /\ Enqueued(op)
      \/ jobs' = jobs /\ \E at \in {"asking", "dismissed", "failed"} : HandlingGoes(c, at)
  BY DEF Create, Confirm
<1>3. /\ HandlesFit(handling', requested, posted) /\ JobsFit(jobs', job, handling')
      /\ IdsDue(book, jobs', job, idsRefused)
  <2>1. CASE HandlingGoes(c, "queued") /\ Enqueued(op)
    <3>1. op \in Job
      BY DEF CmInd, HandlesFit, Handling, Request, Job
    <3>2. jobs \in Seq(Job) /\ jobs' = Append(jobs, op)
      BY <2>1 DEF CmInd, JobsFit, Enqueued
    <3>3. IdsDue(book, jobs', job, idsRefused)
      BY <3>1, <3>2, IdsStayDue DEF CmInd
    <3> QED
      BY <1>1, <2>1, <3>3, HandleGoesOn, HandleQueued
  <2>2. CASE jobs' = jobs /\ \E at \in {"asking", "dismissed", "failed"} : HandlingGoes(c, at)
    BY <1>1, <2>2, HandleGoesOn DEF CmInd
  <2> QED
    BY <1>2, <2>1, <2>2
<1> QED
  BY <1>1, <1>3 DEF CmInd, CountsFit, bookVars

LEMMA HostReplies ==
  ASSUME CmInd, NEW c \in handling, ReplyCommand(c)
  PROVE  CmInd'
<1> DEFINE r == [type |-> c.request.type, id |-> c.request.id, ok |-> c.at = "inserted",
                 moves |-> IF c.at = "failed" /\ sessionHeld THEN readyView ELSE None]
<1>1. c \in Handling /\ c.request \in Request /\ readyView \in Revisions /\ replied \in Seq(Reply)
  BY DEF CmInd, HandlesFit, CountsFit, Handling
<1>2. r \in Reply
  BY <1>1 DEF Reply, Request
<1>3. replied' \in Seq(Reply)
  BY <1>1, <1>2, AppendFacts DEF ReplyCommand
<1>4. handling' = handling \ {c} /\ c.at # "queued"
  BY DEF ReplyCommand
<1>5. HandlesFit(handling', requested, posted) /\ JobsFit(jobs, job, handling')
  BY <1>4, HandleRemoved, JobsWithHandles DEF CmInd
<1>6. UNCHANGED <<readyView, panel, posted, requested, copied, bookVars, queueVars>>
  BY DEF ReplyCommand
<1> QED
  BY <1>3, <1>5, <1>6 DEF CmInd, CountsFit, bookVars, queueVars

LEMMA IdsAreDue ==
  ASSUME NEW J, J \in Seq(Job), NEW b, NEW j, NEW refused
  PROVE  IdsJob \in Job /\ IdsDue(b, Append(J, IdsJob), j, refused)
<1>1. IdsJob \in Job /\ IdsJob.kind = "ids"
  BY DEF IdsJob, Job
<1>2. /\ Append(J, IdsJob)[Len(J) + 1] = IdsJob
      /\ Len(Append(J, IdsJob)) = Len(J) + 1 /\ Len(J) \in Nat
  BY <1>1, AppendFacts
<1>3. Len(J) + 1 \in 1 .. Len(Append(J, IdsJob))
  BY <1>2
<1> QED
  BY <1>1, <1>2, <1>3 DEF IdsDue

\* A change of the notebook: identifiers are asked for, the edit under way is stale.
LEMMA IdsQueued ==
  ASSUME NEW J, NEW j, NEW H, JobsFit(J, j, H)
  PROVE  JobsFit(Append(J, IdsJob), j, H)
<1>1. J \in Seq(Job)
  BY DEF JobsFit
<1>2. IdsJob \in Job /\ IdsJob.kind = "ids"
  BY <1>1 DEF IdsJob, Job
<1> QED
  BY <1>2, JobEnqueued

LEMMA EditStale ==
  ASSUME CmInd, Stale, NEW b
  PROVE  /\ JobsFit(jobs, job', handling) /\ EditInPlace(b, job')
         /\ IdsDue(book, jobs, job', idsRefused)
<1>1. /\ JobsFit(jobs, job', handling) /\ (job' = None <=> job = None)
      /\ job # None => job'.op = job.op /\ job'.stale
  <2>1. JobsFit(jobs, job, handling)
    BY DEF CmInd
  <2>2. job' = Staled(job)
    BY DEF Stale, Staled
  <2> QED
    BY <2>1, <2>2, JobsStale
<1>2. EditInPlace(b, job')
  BY <1>1 DEF EditInPlace
<1>3. IdsDue(book, jobs, job', idsRefused)
  BY <1>1 DEF CmInd, IdsDue
<1> QED
  BY <1>1, <1>2, <1>3

LEMMA UserEditsOnce ==
  ASSUME CmInd, UserEdits
  PROVE  cellEdits' \in 0 .. MaxCellEdits
BY CommandsAssumption DEF CmInd, CountsFit, UserEdits

LEMMA CellsChange ==
  ASSUME CmInd, NEW b, BookFits(b, lastId), NEW h \in BOOLEAN, EditBook(b, h), copiedAbove' \in BOOLEAN,
         ~copiedAbove' => SourceIsFirst(b) /\ SourceFits(b)
  PROVE  CmInd'
<1>1. /\ UserEdits /\ book' = b /\ sessionHeld' = h /\ jobs' = Append(jobs, IdsJob) /\ Stale
      /\ UNCHANGED <<readyView, panel, posted, hostVars, lastId, idsRefused>>
  BY DEF EditBook, Enqueued
<1>2. JobsFit(jobs, job', handling) /\ EditInPlace(b, job') /\ jobs \in Seq(Job)
  BY <1>1, EditStale DEF CmInd, JobsFit
<1>3. JobsFit(jobs', job', handling) /\ IdsDue(book', jobs', job', idsRefused')
  BY <1>1, <1>2, IdsQueued, IdsAreDue
<1>4. cellEdits' \in 0 .. MaxCellEdits
  BY <1>1, UserEditsOnce
<1>5. {sessionHeld', idsRefused', copiedAbove'} \subseteq BOOLEAN
  BY <1>1 DEF CmInd
<1> QED
  BY <1>1, <1>2, <1>3, <1>4, <1>5 DEF CmInd, CountsFit, hostVars

LEMMA UserDeletes ==
  ASSUME CmInd, NEW i \in DOMAIN book, DeleteCell(i)
  PROVE  CmInd'
<1>1. BookFits(book, lastId) /\ i \in 1 .. Len(book) /\ copiedAbove \in BOOLEAN /\ copiedAbove' = copiedAbove
  BY LenProperties DEF CmInd, BookFits, DeleteCell
<1> DEFINE b == RemoveAt(book, i)
           h == sessionHeld /\ book[i].key # Source
<1>2. EditBook(b, h)
  BY DEF DeleteCell
<1>3. /\ BookFits(b, lastId)
      /\ SourceIsFirst(book) /\ SourceFits(book) => SourceIsFirst(b) /\ SourceFits(b)
  BY <1>1, CellDeleted
<1>4. h \in BOOLEAN
  OBVIOUS
<1> HIDE DEF b, h
<1>5. ~copiedAbove' => SourceIsFirst(b) /\ SourceFits(b)
  BY <1>1, <1>3 DEF CmInd
<1> QED
  BY <1>1, <1>2, <1>3, <1>4, <1>5, CellsChange

LEMMA UserPastes ==
  ASSUME CmInd, NEW i \in DOMAIN book, NEW j \in 1 .. (Len(book) + 1), PasteCell(i, j)
  PROVE  CmInd'
<1>1. BookFits(book, lastId) /\ i \in 1 .. Len(book) /\ Len(book) \in Nat
  BY LenProperties DEF CmInd, BookFits
<1> DEFINE b == InsertAt(book, j, [book[i] EXCEPT !.key = NewKey])
<1>2. EditBook(b, sessionHeld) /\ copiedAbove' = (copiedAbove \/ j <= i)
  BY DEF PasteCell
<1>3. NewKey \in Nat /\ NewKey # Source /\ KeysBelow(book, NewKey)
  BY <1>1, NewKeyIsNew DEF KeysBelow
<1>4. /\ BookFits(b, lastId)
      /\ i < j /\ SourceIsFirst(book) /\ SourceFits(book) => SourceIsFirst(b) /\ SourceFits(b)
  BY <1>1, <1>3, CellPasted
<1> HIDE DEF b
<1>5. sessionHeld \in BOOLEAN /\ copiedAbove' \in BOOLEAN
  BY <1>2 DEF CmInd
<1>6. ~copiedAbove' => SourceIsFirst(b) /\ SourceFits(b)
  <2> SUFFICES ASSUME ~copiedAbove' PROVE SourceIsFirst(b) /\ SourceFits(b)
    OBVIOUS
  <2>1. ~copiedAbove /\ ~(j <= i)
    BY <1>2
  <2>2. SourceIsFirst(book) /\ SourceFits(book)
    BY <2>1 DEF CmInd
  <2>3. i < j
    BY <1>1, <2>1
  <2> QED
    BY <1>4, <2>2, <2>3
<1> QED
  BY <1>2, <1>4, <1>5, <1>6, CellsChange

LEMMA UserTypesOrSaves ==
  ASSUME CmInd, SaveBook \/ \E held \in BOOLEAN : EditCell(held)
  PROVE  CmInd'
<1>1. cellEdits' \in 0 .. MaxCellEdits
  BY UserEditsOnce DEF SaveBook, EditCell
<1>2. jobs \in Seq(Job)
  BY DEF CmInd, JobsFit
<1>3. CASE SaveBook
  <2>1. jobs' = Append(jobs, IdsJob)
    BY <1>3 DEF SaveBook, Enqueued
  <2>2. UNCHANGED <<readyView, panel, posted, hostVars, book, sessionHeld, job, lastId, idsRefused, copiedAbove>>
    BY <1>3 DEF SaveBook
  <2>3. JobsFit(jobs', job, handling) /\ IdsDue(book, jobs', job, idsRefused)
    BY <1>2, <2>1, IdsQueued, IdsAreDue DEF CmInd
  <2> QED
    BY <1>1, <2>2, <2>3 DEF CmInd, CountsFit, hostVars
<1>4. ASSUME NEW held \in BOOLEAN, EditCell(held) PROVE CmInd'
  <2>1. Stale /\ sessionHeld' = (held /\ sessionHeld)
    BY <1>4 DEF EditCell
  <2>2. UNCHANGED <<readyView, panel, posted, hostVars, book, jobs, lastId, idsRefused, copiedAbove>>
    BY <1>4 DEF EditCell
  <2>3. /\ JobsFit(jobs, job', handling) /\ EditInPlace(book, job')
        /\ IdsDue(book, jobs, job', idsRefused)
    BY <2>1, EditStale
  <2>4. sessionHeld' \in BOOLEAN
    BY <2>1
  <2> QED
    BY <1>1, <2>2, <2>3, <2>4 DEF CmInd, CountsFit, hostVars
<1> QED
  BY <1>3, <1>4

-----------------------------------------------------------------------------
(* The notebook's queue *)

LEMMA UnidentifiedRepeat ==
  ASSUME BookFits(book, lastId)
  PROVE  Unidentified = Repeats(book)
<1>1. DOMAIN book = 1 .. Len(book)
  BY LenProperties DEF BookFits
<1>2. \A i \in 1 .. Len(book) : book[i].id # None
  BY CellTypes, CommandsAssumption
<1> QED
  BY <1>1, <1>2 DEF Unidentified, Repeats

\* An operation that could not insert its cell.
LEMMA InsertionFails ==
  ASSUME CmInd, NEW J, JobsFit(J, None, handling), NEW n, Queued(handling, n),
         \A k \in 1 .. Len(J) : ~Inserts(J[k], n),
         NEW at \in {"inserted", "failed"}, HandlingGoes(Inserting(n), at)
  PROVE  HandlesFit(handling', requested, posted) /\ JobsFit(J, None, handling')
<1> DEFINE c == Inserting(n)
           d == [c EXCEPT !.at = at]
<1>1. c \in handling /\ c.request.id = n
  <2>1. c = CHOOSE b \in handling : b.request.id = n /\ b.at = "queued"
    BY DEF Inserting
  <2> HIDE DEF c
  <2> QED
    BY <2>1, InsertionIsOne DEF CmInd
<1>2. handling' = (handling \ {c}) \union {d}
  BY DEF HandlingGoes
<1> HIDE DEF c
<1>3. c \in Handling /\ \A k \in 1 .. Len(c.read) : c.read[k] = c.request.revision
  BY <1>1 DEF CmInd, HandlesFit
<1>4. d \in Handling /\ d.request = c.request /\ d.read = c.read
  BY <1>3, HandleGoes
<1> HIDE DEF d
<1>5. HandlesFit(handling', requested, posted)
  BY <1>1, <1>2, <1>3, <1>4, HandleReplaced DEF CmInd
<1>6. JobsFit(J, None, handling')
  BY <1>1, <1>2, InsertionOver
<1> QED
  BY <1>5, <1>6

LEMMA QueueStarts ==
  ASSUME CmInd, StartJob
  PROVE  CmInd'
<1> DEFINE op == Head(jobs)
<1>1. /\ job = None /\ jobs # <<>> /\ JobsFit(jobs, None, handling)
      /\ UNCHANGED <<readyView, panel, posted, requested, replied, copied, bookVars, lastId>>
      /\ idsRefused' = (idsRefused /\ op.kind # "ids")
  BY DEF CmInd, StartJob
<1>2. /\ JobsFit(Tail(jobs), None, handling) /\ op \in Job
      /\ op.kind = "insert" =>
             Queued(handling, op.id) /\ \A k \in 1 .. Len(Tail(jobs)) : ~Inserts(Tail(jobs)[k], op.id)
      /\ (\E k \in 1 .. Len(jobs) : jobs[k].kind = "ids") /\ op.kind # "ids" =>
             \E k \in 1 .. Len(Tail(jobs)) : Tail(jobs)[k].kind = "ids"
  BY <1>1, JobTaken
<1>3. op.kind \in {"ids", "insert"}
  BY <1>2 DEF Job
<1>4. BookFits(book, lastId) /\ Unidentified = Repeats(book)
  BY UnidentifiedRepeat DEF CmInd
<1>5. op.kind # "ids" => \A j : IdsDue(book, jobs', j, idsRefused') \/ jobs' # Tail(jobs)
  BY <1>1, <1>2 DEF CmInd, IdsDue
<1>6. ASSUME EditInPlace(book, job'), IdsDue(book, jobs', job', idsRefused'),
             JobsFit(jobs', job', handling'), HandlesFit(handling', requested, posted)
      PROVE  CmInd'
  <2>1. idsRefused' \in BOOLEAN
    BY <1>1 DEF CmInd
  <2> QED
    BY <1>1, <1>6, <2>1 DEF CmInd, CountsFit, bookVars
<1>7. CASE op.kind = "ids" /\ Unidentified = {}
  <2>1. jobs' = Tail(jobs) /\ job' = job /\ handling' = handling
    BY <1>7 DEF StartJob
  <2> QED
    BY <1>1, <1>2, <1>4, <1>6, <1>7, <2>1 DEF CmInd, EditInPlace, IdsDue
<1>8. ASSUME NEW at \in Nat, NEW of \in Nat \union {None}, RunJob(op, at, of)
      PROVE  /\ job' = [op |-> op, at |-> at, of |-> of, stale |-> FALSE]
             /\ job' # None /\ jobs' = Tail(jobs) /\ handling' = handling
             /\ JobsFit(jobs', job', handling') /\ HandlesFit(handling', requested, posted)
  <2>1. /\ job' = [op |-> op, at |-> at, of |-> of, stale |-> FALSE]
        /\ jobs' = Tail(jobs) /\ handling' = handling
    BY <1>8 DEF RunJob
  <2>2. job' \in BookEdit /\ job'.op = op
    BY <1>2, <2>1 DEF BookEdit
  <2>3. JobsFit(jobs', job', handling')
    BY BookEditAssumption, <1>1, <2>1, <2>2, JobRuns
  <2> QED
    BY BookEditAssumption, <2>1, <2>2, <2>3 DEF CmInd
<1>9. CASE op.kind = "ids" /\ Unidentified # {}
  <2>1. RunJob(op, 0, None)
    BY <1>9 DEF StartJob
  <2>2. 0 \in Nat /\ None \in Nat \union {None}
    OBVIOUS
  <2>3. /\ job' = [op |-> op, at |-> 0, of |-> None, stale |-> FALSE]
        /\ job' # None /\ jobs' = Tail(jobs) /\ handling' = handling
        /\ JobsFit(jobs', job', handling') /\ HandlesFit(handling', requested, posted)
    BY <1>8, <2>1, <2>2
  <2>4. job'.op = op
    BY <2>3
  <2> QED
    BY <1>6, <1>9, <2>3, <2>4 DEF EditInPlace, IdsDue
<1>10. CASE op.kind = "insert" /\ HandlingGoes(Inserting(op.id), "failed")
            /\ jobs' = Tail(jobs) /\ job' = job
  <2>1. HandlesFit(handling', requested, posted) /\ JobsFit(Tail(jobs), None, handling')
    BY <1>2, <1>10, InsertionFails
  <2>2. EditInPlace(book, job')
    BY <1>1, <1>10 DEF EditInPlace
  <2> QED
    BY <1>1, <1>5, <1>6, <1>10, <2>1, <2>2
<1>11. ASSUME op.kind = "insert", Position(Source) # {},
              RunJob(op, InsertionIndex, book[CHOOSE i \in Position(Source) : TRUE].id)
       PROVE  CmInd'
  <2> DEFINE s == CHOOSE i \in Position(Source) : TRUE
  <2>1. s \in 1 .. Len(book) /\ book[s].key = Source
    <3>1. s \in Position(Source)
      BY <1>11
    <3> HIDE DEF s
    <3> QED
      BY <1>4, <3>1, LenProperties DEF Position, BookFits
  <2>2. RunJob(op, s + 1, book[s].id)
    BY <1>11 DEF InsertionIndex
  <2> HIDE DEF s
  <2>3. book[s].id \in Nat /\ s + 1 \in Nat /\ (s + 1) - 1 = s
    BY <1>4, <2>1, CellTypes
  <2>4. job' = [op |-> op, at |-> s + 1, of |-> book[s].id, stale |-> FALSE] /\ jobs' = Tail(jobs)
    BY <1>8, <2>2, <2>3
  <2>5. job'.at - 1 = s /\ job'.of = book[s].id
    BY <2>3, <2>4
  <2>6. EditInPlace(book, job')
    BY <2>1, <2>5 DEF EditInPlace
  <2>7. IdsDue(book, jobs', job', idsRefused')
    BY <1>5, <1>11, <2>4
  <2> QED
    BY <1>6, <1>8, <2>2, <2>3, <2>6, <2>7
<1>12. CASE op.kind = "insert"
  <2>1. \/ HandlingGoes(Inserting(op.id), "failed") /\ jobs' = Tail(jobs) /\ job' = job
        \/ /\ Position(Source) # {}
           /\ RunJob(op, InsertionIndex, book[CHOOSE i \in Position(Source) : TRUE].id)
    BY <1>12 DEF StartJob
  <2> QED
    BY <1>10, <1>11, <1>12, <2>1
<1> QED
  BY <1>3, <1>7, <1>9, <1>12

\* An edit that is over leaves the queue as it was.
LEMMA EditOver ==
  ASSUME NEW J, NEW j, NEW H, JobsFit(J, j, H)
  PROVE  JobsFit(J, None, H)
BY DEF JobsFit

LEMMA IdsApplied ==
  ASSUME CmInd, ApplyIds
  PROVE  CmInd'
<1>1. /\ job' = None
      /\ UNCHANGED <<readyView, panel, posted, hostVars, sessionHeld, jobs, cellEdits, copiedAbove>>
  BY DEF ApplyIds
<1>2. JobsFit(jobs, None, handling) /\ BookFits(book, lastId) /\ Unidentified = Repeats(book)
  BY EditOver, UnidentifiedRepeat DEF CmInd
<1>3. /\ BookFits(book', lastId') /\ (Repeats(book') = {} \/ idsRefused')
      /\ idsRefused' \in BOOLEAN
      /\ ~copiedAbove => SourceIsFirst(book') /\ SourceFits(book')
  <2>1. CASE job.stale
    BY <1>2, <2>1 DEF CmInd, ApplyIds
  <2>2. CASE ~job.stale
    <3> DEFINE b == Identified(book)
    <3>1. book' = b /\ lastId' = lastId + Cardinality(Unidentified) /\ idsRefused' = idsRefused
      BY <2>2 DEF ApplyIds
    <3>2. b = WithIds(book, Unidentified, lastId)
      BY DEF Identified, WithIds
    <3> HIDE DEF b
    <3>3. /\ BookFits(b, lastId + Cardinality(Unidentified)) /\ Repeats(b) = {}
          /\ SourceIsFirst(book) /\ SourceFits(book) => SourceIsFirst(b) /\ SourceFits(b)
      BY <1>2, <3>2, CellsIdentified
    <3> QED
      BY <3>1, <3>3 DEF CmInd
  <2> QED
    BY <2>1, <2>2
<1> QED
  BY <1>1, <1>2, <1>3 DEF CmInd, CountsFit, hostVars, EditInPlace, IdsDue

LEMMA CellApplied ==
  ASSUME CmInd, ApplyInsert
  PROVE  CmInd'
<1> DEFINE n == job.op.id
           made == [key |-> NewKey, id |-> lastId + 1, of |-> job.of, from |-> Source]
<1>1. /\ job # None /\ job.op.kind = "insert" /\ job' = None
      /\ UNCHANGED <<readyView, panel, posted, requested, replied, copied, sessionHeld, cellEdits,
                     idsRefused, copiedAbove>>
  BY DEF ApplyInsert
<1>2. JobsFit(jobs, None, handling) /\ BookFits(book, lastId) /\ jobs \in Seq(Job)
  BY EditOver DEF CmInd, JobsFit
<1>3. Queued(handling, n) /\ \A k \in 1 .. Len(jobs) : ~Inserts(jobs[k], n)
  BY <1>1 DEF CmInd, JobsFit
<1>4. CASE job.stale
  <2>1. HandlingGoes(Inserting(n), "failed") /\ UNCHANGED <<book, jobs, lastId>>
    BY <1>4 DEF ApplyInsert
  <2> HIDE DEF n
  <2>2. HandlesFit(handling', requested, posted) /\ JobsFit(jobs, None, handling')
    BY <1>2, <1>3, <2>1, InsertionFails
  <2>3. IdsDue(book, jobs, None, idsRefused)
    BY <1>1 DEF CmInd, IdsDue
  <2> QED
    BY <1>1, <2>1, <2>2, <2>3 DEF CmInd, CountsFit, EditInPlace
<1>5. CASE ~job.stale
  <2>1. /\ book' = InsertAt(book, job.at, made) /\ lastId' = lastId + 1
        /\ jobs' = Append(jobs, IdsJob) /\ HandlingGoes(Inserting(n), "inserted")
    BY <1>5 DEF ApplyInsert, Enqueued
  <2>2. /\ job.at - 1 \in 1 .. Len(book) /\ book[job.at - 1].key = Source
        /\ job.of = book[job.at - 1].id /\ job.at \in Nat
    BY <1>1, <1>5 DEF CmInd, EditInPlace, JobsFit, BookEdit
  <2>3. NewKey \in Nat /\ NewKey # Source /\ KeysBelow(book, NewKey)
    BY <1>2, NewKeyIsNew DEF KeysBelow
  <2>4. /\ BookFits(book', lastId')
        /\ SourceIsFirst(book) /\ SourceFits(book) => SourceIsFirst(book') /\ SourceFits(book')
    <3>1. book' = Continued(book, job.at, NewKey, lastId) /\ lastId' = lastId + 1
      BY <2>1, <2>2 DEF Continued
    <3> QED
      BY <1>2, <2>2, <2>3, <3>1, CellInserted
  <2> HIDE DEF n, made
  <2>5. HandlesFit(handling', requested, posted) /\ JobsFit(jobs, None, handling')
    BY <1>2, <1>3, <2>1, InsertionFails
  <2>6. JobsFit(jobs', None, handling') /\ IdsDue(book', jobs', None, idsRefused)
    BY <1>2, <2>1, <2>5, IdsQueued, IdsAreDue
  <2>7. EditInPlace(book', None)
    BY DEF EditInPlace
  <2>8. ~copiedAbove => SourceIsFirst(book') /\ SourceFits(book')
    BY <2>4 DEF CmInd
  <2> QED
    BY <1>1, <2>4, <2>5, <2>6, <2>7, <2>8 DEF CmInd, CountsFit
<1> QED
  BY <1>4, <1>5

LEMMA CommandsKeep ==
  ASSUME CmInd, [CmNext]_cmVars
  PROVE  CmInd'
<1>1. CASE HostSteps
  BY <1>1, HostTakes, GridReceives, QueueStarts, IdsApplied, CellApplied,
     HostReads, HostPicks, HostQueues, HostReplies DEF HostSteps
<1>2. CASE AskView \/ ViewReady \/ ViewAnswered \/ Select
  BY <1>2, GridMoves
<1>3. CASE CopySelection \/ ContinueResults \/ RequestEnrichment
  BY <1>3, GridPosts
<1>4. CASE \E i \in DOMAIN book : DeleteCell(i) \/ \E j \in 1 .. (Len(book) + 1) : PasteCell(i, j)
  BY <1>4, UserDeletes, UserPastes
<1>5. CASE SaveBook \/ \E held \in BOOLEAN : EditCell(held)
  BY <1>5, UserTypesOrSaves
<1>6. CASE UNCHANGED cmVars
  BY <1>6 DEF cmVars, CmInd, CountsFit
<1> QED
  BY <1>1, <1>2, <1>3, <1>4, <1>5, <1>6 DEF CmNext

\* What the invariant says of the commands.
LEMMA CommandsImplied == CmInd => CommandsAreFaithful
<1> SUFFICES ASSUME CmInd PROVE CommandsAreFaithful
  OBVIOUS
<1>1. CmTypeOK
  <2>1. readyView \in Revisions /\ posted \in 0 .. MaxPosts /\ cellEdits \in 0 .. MaxCellEdits
    BY DEF CmInd, CountsFit
  <2>2. /\ panel \in Panel /\ requested \in Seq(Request) /\ replied \in Seq(Reply)
        /\ handling \subseteq Handling
    BY DEF CmInd, PanelFits, RequestsFit, HandlesFit
  <2>3. /\ book \in Seq(BookCell) /\ lastId \in Nat /\ jobs \in Seq(Job)
        /\ (job = None \/ job \in BookEdit) /\ (copied = None \/ copied \in Seq(Revisions))
    BY DEF CmInd, BookFits, JobsFit, CopyFits
  <2>4. sessionHeld \in BOOLEAN /\ idsRefused \in BOOLEAN /\ copiedAbove \in BOOLEAN
    BY DEF CmInd
  <2> QED
    BY <2>1, <2>2, <2>3, <2>4 DEF CmTypeOK
<1>2. RequestsNameTheirRows
  <2>1. ASSUME NEW q \in ToSet(requested) PROVE q.rows = q.revision
    <3>1. DOMAIN requested = 1 .. Len(requested)
      BY LenProperties DEF CmInd, RequestsFit
    <3> QED
      BY <2>1, <3>1 DEF CmInd, RequestsFit, ToSet
  <2>2. ASSUME NEW c \in handling PROVE c.request.rows = c.request.revision
    BY DEF CmInd, HandlesFit
  <2> QED
    BY <2>1, <2>2 DEF RequestsNameTheirRows
<1>3. CopiesAreWhole
  BY DEF CmInd, CopyFits, CopiesAreWhole
<1>4. DOMAIN book = 1 .. Len(book) /\ Len(book) \in Nat /\ BookFits(book, lastId)
  BY LenProperties DEF CmInd, BookFits
<1>5. QuietIdsAreUnique
  <2> SUFFICES ASSUME jobs = <<>>, job = None, ~idsRefused
               PROVE  IsInjective([i \in DOMAIN book |-> book[i].id])
    BY DEF QuietIdsAreUnique
  <2>1. Repeats(book) = {}
    BY DEF CmInd, IdsDue
  <2>2. ASSUME NEW i \in 1 .. Len(book), NEW j \in 1 .. Len(book), book[i].id = book[j].id PROVE i = j
    <3>1. \A k, l \in 1 .. Len(book) : l < k => book[k].id # book[l].id
      <4> SUFFICES ASSUME NEW k \in 1 .. Len(book), NEW l \in 1 .. Len(book), l < k
                   PROVE  book[k].id # book[l].id
        OBVIOUS
      <4>1. l \in 1 .. (k - 1)
        BY <1>4
      <4> QED
        BY <2>1, <4>1 DEF Repeats
    <3> QED
      BY <1>4, <2>2, <3>1
  <2> QED
    BY <1>4, <2>2 DEF IsInjective
<1>6. SourceIsNamed
  <2> SUFFICES ASSUME ~copiedAbove, NEW i \in 1 .. Len(book), NEW j \in 1 .. Len(book),
                      book[i].from # None, book[j].key = book[i].from
               PROVE  book[i].of = book[j].id
    BY <1>4 DEF SourceIsNamed
  <2>1. book[i].from = Source
    BY <1>4 DEF BookFits
  <2> QED
    BY <2>1 DEF CmInd, SourceFits
<1> QED
  BY <1>1, <1>2, <1>3, <1>5, <1>6 DEF CommandsAreFaithful

\* A cell made from a result, and only that, is added without the user.
LEMMA InsertionFollows ==
  ASSUME CmInd, [CmNext]_cmVars, Len(book') > Len(book), cellEdits' = cellEdits,
         NEW i \in DOMAIN book', book'[i].key \notin {c.key : c \in ToSet(book)}
  PROVE  i > 1 /\ book'[i - 1].key = Source
<1>1. book \in Seq(BookCell) /\ Len(book) \in Nat /\ cellEdits \in Nat /\ BookFits(book, lastId)
  <2>1. BookFits(book, lastId) /\ cellEdits \in Nat
    BY CommandsAssumption DEF CmInd, CountsFit
  <2> QED
    BY <2>1, LenProperties DEF BookFits
<1>2. book' # book /\ cellEdits' # cellEdits + 1
  BY <1>1
<1>3. ApplyIds \/ ApplyInsert
  <2>1. CASE HostSteps
    BY <1>2, <2>1 DEF HostSteps, HandleRequest, ReceiveReply, StartJob, ReadPage, Pick, Create, Confirm,
                      ReplyCommand, bookVars
  <2>2. CASE AskView \/ ViewReady \/ ViewAnswered \/ Select
    BY <1>2, <2>2 DEF AskView, ViewReady, ViewAnswered, Select, bookVars
  <2>3. CASE CopySelection \/ ContinueResults \/ RequestEnrichment
    BY <1>2, <2>3 DEF CopySelection, ContinueResults, RequestEnrichment, PostRequest, bookVars
  <2>4. CASE \/ \E k \in DOMAIN book : DeleteCell(k) \/ \E j \in 1 .. (Len(book) + 1) : PasteCell(k, j)
             \/ SaveBook \/ \E held \in BOOLEAN : EditCell(held)
    BY <1>2, <2>4 DEF DeleteCell, PasteCell, EditBook, EditCell, SaveBook, UserEdits
  <2>5. CASE UNCHANGED cmVars
    BY <1>2, <2>5 DEF cmVars
  <2> QED
    BY <2>1, <2>2, <2>3, <2>4, <2>5 DEF CmNext
<1>4. ~ApplyIds
  <2> SUFFICES ASSUME ApplyIds PROVE FALSE
    OBVIOUS
  <2>1. book' = Identified(book)
    BY <1>2 DEF ApplyIds
  <2>2. Len(book') = Len(book)
    <3> DEFINE b == Identified(book)
    <3>1. b = WithIds(book, Unidentified, lastId)
      BY DEF Identified, WithIds
    <3> HIDE DEF b
    <3>2. Unidentified = Repeats(book)
      BY <1>1, UnidentifiedRepeat
    <3>3. Len(b) = Len(book)
      BY <1>1, <3>1, <3>2, CellsIdentified
    <3> QED
      BY <2>1, <3>3 DEF b
  <2> QED
    BY <1>1, <2>2
<1>5. /\ job # None /\ job.op.kind = "insert" /\ ~job.stale
      /\ book' = InsertAt(book, job.at, [key |-> NewKey, id |-> lastId + 1, of |-> job.of, from |-> Source])
  BY <1>2, <1>3, <1>4 DEF ApplyInsert
<1>6. /\ job.at - 1 \in 1 .. Len(book) /\ book[job.at - 1].key = Source
      /\ job.of = book[job.at - 1].id /\ job.at \in Nat
  BY <1>5 DEF CmInd, EditInPlace, JobsFit, BookEdit
<1>7. NewKey \in Nat /\ NewKey # Source /\ KeysBelow(book, NewKey)
  BY <1>1, NewKeyIsNew DEF KeysBelow
<1>8. /\ BookFits(book', lastId + 1) /\ book'[job.at - 1].key = Source
      /\ \A k \in 1 .. Len(book') : k # job.at => \E c \in 1 .. Len(book) : book'[k] = book[c]
  <2>1. book' = Continued(book, job.at, NewKey, lastId)
    BY <1>5, <1>6 DEF Continued
  <2> QED
    BY <1>1, <1>6, <1>7, <2>1, CellInserted
<1>9. DOMAIN book' = 1 .. Len(book') /\ DOMAIN book = 1 .. Len(book)
  BY <1>1, <1>8, LenProperties DEF BookFits
<1>10. i = job.at
  <2> SUFFICES ASSUME i # job.at PROVE FALSE
    OBVIOUS
  <2>1. PICK c \in 1 .. Len(book) : book'[i] = book[c]
    BY <1>8, <1>9
  <2>2. book[c] \in ToSet(book)
    BY <1>9 DEF ToSet
  <2> QED
    BY <2>1, <2>2
<1>11. job.at > 1
  BY <1>1, <1>6
<1> QED
  BY <1>8, <1>10, <1>11

\* Rows copied or continued with are those the user selected, a copy is of one
\* view, the quiet notebook tells its cells apart, and a continuation names its source:
\* handleRendererMessage and the notebook's queue, whatever the user does meanwhile.
THEOREM CommandsHold == CmSpec => []CommandsAreFaithful
<1>1. CmInd /\ [CmNext]_cmVars => CmInd'
  BY CommandsKeep
<1> QED
  BY <1>1, CommandsStart, CommandsImplied, PTL DEF CmSpec

\* A cell made from a result goes right after the cell that made the result:
\* insertContinuationCellCore finds that cell when it runs, and VS Code refuses its
\* edit if the notebook has changed since.
THEOREM ContinuationsFollow == CmSpec => ContinuationFollowsItsSource
<1> DEFINE ComesAfter ==
        \A i \in DOMAIN book' : book'[i].from # None /\ book'[i].key \notin {c.key : c \in ToSet(book)}
                                /\ Len(book') > Len(book) /\ cellEdits' = cellEdits
            => i > 1 /\ book'[i - 1].key = Source
<1>1. CmInd /\ [CmNext]_cmVars => CmInd'
  BY CommandsKeep
<1>2. CmInd /\ [CmNext]_cmVars => ComesAfter
  BY InsertionFollows
<1>3. ContinuationFollowsItsSource <=> [][ComesAfter]_cmVars
  BY DEF ContinuationFollowsItsSource
<1> HIDE DEF ComesAfter
<1> QED
  BY <1>1, <1>2, <1>3, CommandsStart, PTL DEF CmSpec
=============================================================================
