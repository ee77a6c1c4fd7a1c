------------------------------- MODULE QueryRuns -------------------------------
(***************************************************************************)
(* Queries run from the editor (queryEditor.ts): the item in the status    *)
(* bar and the CodeLens of each range that say a query is running, the     *)
(* decoration of an error, and the lenses drawn by the editor.             *)
(*                                                                         *)
(* Every awaited call of runQuery is a point where other runs, timers and  *)
(* edits may come.  The server answers or fails; how long it takes is left *)
(* open, and a run older than the minimum an indicator shows is told apart *)
(* from a younger one only.                                                *)
(*                                                                         *)
(* Abstractions.  The item and the lenses work alike: each is a mark with  *)
(* a count of runs and a generation.  A range is a name; that a range      *)
(* names another text once the document was edited is left out.  What      *)
(* follows a run, history and display, is SingletonView and HistoryStore;  *)
(* its connections are DocumentConnections and ServerList.                 *)
(***************************************************************************)
EXTENDS Client, Integers, SequencesExt

CONSTANTS
    Runs,           \* runs, each made once
    Ranges,         \* query ranges of a document
    Item            \* the status bar's item, beside the ranges

ASSUME QueryRunsAssumption == Item \notin Ranges /\ None \notin Ranges \union Runs

VARIABLES
    runs,           \* where each run is, its range and what marked it
    count,          \* runningQueryCount, and the count of each range's state
    generation,     \* queryRunningGeneration, and that of each range's state
    lit,            \* marks shown
    young,          \* generations younger than the minimum, the oldest first
    due,            \* generations with a timer set to put the mark out
    errorPanel,     \* the run whose error or result was shown last
    errorRange,     \* the run whose error is decorated
    muddled,        \* history: a run went on to show its outcome while another
                    \* was doing so, or the user edited meanwhile
    lenses,         \* ranges whose lens, as drawn, says "Running"
    lensRead,       \* those an answer to the editor under way will say so of
    stale           \* lenses have changed since the editor last asked for them

queryVars == <<runs, count, generation, lit, young, due, errorPanel, errorRange, muddled,
               lenses, lensRead, stale>>

Marks == Ranges \union {Item}
Stages == {"idle", "resolving", "begun", "sent", "failing", "adding", "ending", "over"}
Generation == [of: Marks, no: Nat]

QueryTypeOK ==
    /\ runs \in [Runs -> [at: Stages, range: Ranges \union {None}, no: Nat]]
    /\ count \in [Marks -> Nat] /\ generation \in [Marks -> Nat] /\ lit \subseteq Marks
    /\ ToSet(young) \subseteq Generation /\ due \subseteq Generation
    /\ errorPanel \in Runs \union {None} /\ errorRange \in Runs \union {None}
    /\ muddled \in BOOLEAN /\ stale \in BOOLEAN
    /\ lenses \subseteq Ranges /\ lensRead \in (SUBSET Ranges) \union {None}

QueryInit ==
    /\ runs = [r \in Runs |-> [at |-> "idle", range |-> None, no |-> 0]]
    /\ count = [m \in Marks |-> 0] /\ generation = count
    /\ lit = {} /\ young = <<>> /\ due = {}
    /\ errorPanel = None /\ errorRange = None /\ muddled = FALSE
    /\ lenses = {} /\ lensRead = None /\ stale = FALSE

marking == <<count, generation, lit, young, due>>
outcome == <<errorPanel, errorRange, muddled>>
drawing == <<lenses, lensRead>>

Running == {"begun", "sent", "failing", "adding", "ending"}

\* Fault: the provider fires its event for a range that begins only.
LightSilently(marks) == lit' = marks /\ stale' = (stale \/ ~(marks \subseteq lit))

\* Shown marks change: a lens that does makes the provider fire its event.
Light(marks) == lit' = marks /\ stale' = (stale \/ marks \ {Item} # lit \ {Item})
-----------------------------------------------------------------------------
\* runQuery: a cursor's range is asked of the server first.
AskRange(r) ==
    /\ runs[r].at = "idle" /\ runs' = [runs EXCEPT ![r].at = "resolving"]
    /\ UNCHANGED <<marking, outcome, drawing, stale>>

\* There is no query there, or the request fails: no mark was set.
NoRange(r) ==
    /\ runs[r].at = "resolving" /\ runs' = [runs EXCEPT ![r].at = "over"]
    /\ UNCHANGED <<marking, outcome, drawing, stale>>

\* beginQueryRun: a mark nobody holds begins a new generation.
BeginRun(r, k) ==
    /\ runs[r].at \in {"idle", "resolving"}
    /\ LET new == {m \in {k, Item} : count[m] = 0}
           no(m) == IF m \in new THEN generation[m] + 1 ELSE generation[m] IN
       /\ generation' = [m \in Marks |-> no(m)]
       /\ young' = young \o SetToSeq({[of |-> m, no |-> no(m)] : m \in new})
       /\ count' = [m \in Marks |-> IF m \in {k, Item} THEN count[m] + 1 ELSE count[m]]
       /\ runs' = [runs EXCEPT ![r] = [at |-> "begun", range |-> k, no |-> no(k)]]
    /\ Light(lit \union {k, Item})
    /\ UNCHANGED <<due, outcome, drawing>>

\* The text is taken and, with the document's connection, sent.
Send(r) ==
    /\ runs[r].at = "begun" /\ runs' = [runs EXCEPT ![r].at = "sent"]
    /\ UNCHANGED <<marking, outcome, drawing, stale>>

Concluding == {r \in Runs : runs[r].at \in {"failing", "adding"}}

\* The server has answered, and connections have been set: the decoration goes
\* and the outcome is shown.
Answer(r) ==
    /\ runs[r].at = "sent"
    /\ errorRange' = None
    /\ \/ /\ runs' = [runs EXCEPT ![r].at = "failing"] /\ errorPanel' = r
       \/ runs' = [runs EXCEPT ![r].at = "adding"] /\ UNCHANGED errorPanel
       \/ /\ runs' = [runs EXCEPT ![r].at = "ending"] /\ UNCHANGED errorPanel
    /\ muddled' = (muddled \/ Concluding # {})
    /\ UNCHANGED <<marking, drawing, stale>>

\* The error is on display: its range is decorated, if it has one.
ShowError(r) ==
    /\ runs[r].at = "failing" /\ runs' = [runs EXCEPT ![r].at = "ending"]
    /\ \E range \in {r, None} : errorRange' = IF range = None THEN errorRange ELSE range
    /\ UNCHANGED <<marking, errorPanel, muddled, drawing, stale>>

\* The result is in the history: it is displayed, and lenses are refreshed.
ShowResult(r) ==
    /\ runs[r].at = "adding" /\ runs' = [runs EXCEPT ![r].at = "ending"]
    /\ errorPanel' = None /\ stale' = TRUE
    /\ UNCHANGED <<marking, errorRange, muddled, drawing>>

\* Any awaited call throws: a message, and the run ends.
Throw(r) ==
    /\ runs[r].at \in {"begun", "sent", "failing", "adding"}
    /\ runs' = [runs EXCEPT ![r].at = "ending"]
    /\ UNCHANGED <<marking, outcome, drawing, stale>>

\* Fault: the marks go out with the first run that ends.
PutsOutFirst(r) == {runs[r].range, Item}

\* The marks no other run holds.
PutsOut(r) == {m \in {runs[r].range, Item} : count[m] = 1}

Current(m) == [of |-> m, no |-> generation[m]]

TimersFor(r) == {Current(m) : m \in PutsOut(r)} \cap ToSet(young)

\* endQueryRun: marks older than the minimum go out at once, the others when the
\* timer set for the rest of it fires.
EndRun(r) ==
    /\ runs[r].at = "ending" /\ runs' = [runs EXCEPT ![r].at = "over"]
    /\ count' = [m \in Marks |-> IF m \in {runs[r].range, Item} THEN count[m] - 1 ELSE count[m]]
    /\ due' = due \union TimersFor(r)
    /\ Light(lit \ {m \in PutsOut(r) : Current(m) \notin ToSet(young)})
    /\ UNCHANGED <<generation, young, outcome, drawing>>

\* Fault: a timer puts the mark out whatever has begun since.
ExpiredAny(g) == count[g.of] = 0

\* The mark of a timer goes out only if its generation is still the last.
Expired(g) == count[g.of] = 0 /\ generation[g.of] = g.no

TimerFires(g) ==
    /\ g \in due /\ g \notin ToSet(young)
    /\ due' = due \ {g}
    /\ Light(IF Expired(g) THEN lit \ {g.of} ELSE lit)
    /\ UNCHANGED <<runs, count, generation, young, outcome, drawing>>

\* The oldest generation has lasted the minimum.
Ages ==
    /\ young # <<>> /\ young' = Tail(young)
    /\ UNCHANGED <<runs, count, generation, lit, due, outcome, drawing, stale>>

\* An edit of the document takes the decoration away.
EditText ==
    /\ errorRange # None \/ (Concluding # {} /\ ~muddled)
    /\ errorRange' = None /\ muddled' = (muddled \/ Concluding # {})
    /\ UNCHANGED <<runs, marking, errorPanel, drawing, stale>>
-----------------------------------------------------------------------------
\* The editor asks for lenses after the event, giving up an answer under way.
\* provideCodeLenses: the ranges running are read when the server has answered,
\* and the lenses come after the history was searched for each.
ReadLenses ==
    /\ stale /\ stale' = FALSE /\ lensRead' = lit \ {Item}
    /\ UNCHANGED <<runs, marking, outcome, lenses>>

DrawLenses ==
    /\ lensRead # None /\ ~stale
    /\ lenses' = lensRead /\ lensRead' = None
    /\ UNCHANGED <<runs, marking, outcome, stale>>

RunProgress(r) == Send(r) \/ Answer(r) \/ ShowError(r) \/ ShowResult(r) \/ EndRun(r)

QueryNext ==
    \/ \E r \in Runs :
        AskRange(r) \/ NoRange(r) \/ (\E k \in Ranges : BeginRun(r, k)) \/ RunProgress(r) \/ Throw(r)
    \/ \E g \in due : TimerFires(g)
    \/ Ages \/ EditText \/ ReadLenses \/ DrawLenses

QuerySpec == QueryInit /\ [][QueryNext]_queryVars

\* The server answers every query, time passes, timers fire, the editor asks for
\* lenses after the event and draws them.
QueryFairness ==
    /\ \A r \in Runs : WF_queryVars(RunProgress(r))
    /\ WF_queryVars(Ages) /\ WF_queryVars(\E g \in due : TimerFires(g))
    /\ WF_queryVars(ReadLenses) /\ WF_queryVars(DrawLenses)

-----------------------------------------------------------------------------
RangeHeldBy(m) == {r \in Runs : runs[r].at \in Running /\ m \in {runs[r].range, Item}}

\* A mark is shown as long as a run holds it: neither the end of another run nor
\* a timer left by an earlier generation puts it out.
RunningIsShown == \A m \in Marks : RangeHeldBy(m) # {} => m \in lit

\* A mark without a run is on its way out: the timer of its generation is set.
NoMarkIsForgotten ==
    \A m \in lit : RangeHeldBy(m) = {} => Current(m) \in due

\* MIN_QUERY_RUNNING_INDICATOR_MS: what goes out has been shown that long, also
\* when a run began just before the timer of the last one.
ShownLongEnough ==
    [][\A m \in lit \ lit' : Current(m) \notin ToSet(young)]_queryVars

\* A decorated error is the one on display, while outcomes are shown one by one.
DecorationMatchesPanel == ~muddled /\ errorRange # None => errorPanel = errorRange

\* Lenses end up saying what runs: a change during an answer is not lost.
LensesCatchUp == []<>(lenses = lit \ {Item}) /\ <>[](lit = {})

\* Marks tell what runs, and decorations what failed (see the parts above).
MarksAreSound == QueryTypeOK /\ RunningIsShown /\ NoMarkIsForgotten /\ DecorationMatchesPanel
===============================================================================
