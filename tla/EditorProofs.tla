---------------------------- MODULE EditorProofs ----------------------------
(***************************************************************************)
(* Proofs about the query editor and what is beside it, for any sets of    *)
(* runs, ranges, copies, pastes, texts and refreshes.                      *)
(***************************************************************************)
EXTENDS QueryRuns, Clipboard, EditorDecorations, SequenceLemmas

-----------------------------------------------------------------------------
(* QueryRuns *)

\* A run has a range from its start to its end.
RunsHaveRanges == \A r \in Runs : runs[r].at \in Running => runs[r].range \in Ranges

\* runningQueryCount, and the count of each range, count the runs that hold the mark.
CountsAreHolders ==
    \A m \in Marks : IsFiniteSet(RangeHeldBy(m)) /\ count[m] = Cardinality(RangeHeldBy(m))

\* While outcomes are shown one by one, at most one is being shown: no error is
\* decorated meanwhile, and the panel is that of the run about to decorate its own.
OutcomesComeSingly ==
    ~muddled =>
        /\ \A r, s \in Concluding : r = s
        /\ Concluding # {} => errorRange = None
        /\ \A r \in Runs : runs[r].at = "failing" => errorPanel = r

QueryInd ==
    /\ QueryTypeOK /\ young \in Seq(Generation)
    /\ RunsHaveRanges /\ CountsAreHolders
    /\ RunningIsShown /\ NoMarkIsForgotten
    /\ OutcomesComeSingly /\ DecorationMatchesPanel
-----------------------------------------------------------------------------
-----------------------------------------------------------------------------
LEMMA QueryIndInit == QueryInit => QueryInd
<1> SUFFICES ASSUME QueryInit PROVE QueryInd
  OBVIOUS
<1>1. \A m \in Marks : RangeHeldBy(m) = {}
  BY DEF QueryInit, RangeHeldBy, Running
<1>2. CountsAreHolders
  BY <1>1, FS_EmptySet DEF CountsAreHolders, QueryInit
<1>3. QueryTypeOK /\ young \in Seq(Generation)
  <2>1. young = <<>> /\ young \in Seq(Generation) /\ ToSet(young) \subseteq Generation
    BY DEF QueryInit, ToSet
  <2>2. runs \in [Runs -> [at: Stages, range: Ranges \union {None}, no: Nat]]
    BY DEF QueryInit, Stages
  <2>3. count \in [Marks -> Nat] /\ generation \in [Marks -> Nat]
    BY DEF QueryInit
  <2>4. /\ lit \subseteq Marks /\ due \subseteq Generation
        /\ errorPanel \in Runs \union {None} /\ errorRange \in Runs \union {None}
    BY DEF QueryInit
  <2>5. muddled \in BOOLEAN /\ stale \in BOOLEAN
    BY Zenon DEF QueryInit
  <2>6. lenses \subseteq Ranges /\ lensRead \in (SUBSET Ranges) \union {None}
    BY DEF QueryInit
  <2> QED
    BY <2>1, <2>2, <2>3, <2>4, <2>5, <2>6 DEF QueryTypeOK
<1>4. RunsHaveRanges /\ RunningIsShown /\ NoMarkIsForgotten
  BY <1>1 DEF QueryInit, RunsHaveRanges, RunningIsShown, NoMarkIsForgotten, Running
<1>5. OutcomesComeSingly /\ DecorationMatchesPanel
  BY DEF QueryInit, OutcomesComeSingly, DecorationMatchesPanel, Concluding
<1> QED
  BY <1>2, <1>3, <1>4, <1>5 DEF QueryInd

\* What a step of a run may do to the marks when it neither takes nor gives up any.
LEMMA RunKeepsMarks ==
  ASSUME QueryInd, NEW r \in Runs, NEW at \in Stages,
         runs' = [runs EXCEPT ![r].at = at],
         at \in Running <=> runs[r].at \in Running,
         UNCHANGED marking
  PROVE  RunsHaveRanges' /\ CountsAreHolders' /\ RunningIsShown' /\ NoMarkIsForgotten'
<1>1. \A q \in Runs : /\ runs'[q].range = runs[q].range
                      /\ runs'[q].at \in Running <=> runs[q].at \in Running
  BY DEF QueryInd, QueryTypeOK
<1>2. \A m : RangeHeldBy(m)' = RangeHeldBy(m)
  BY <1>1 DEF RangeHeldBy
<1>3. RunsHaveRanges'
  BY <1>1 DEF QueryInd, RunsHaveRanges
<1> QED
  BY <1>2, <1>3 DEF QueryInd, CountsAreHolders, RunningIsShown, NoMarkIsForgotten, marking, Current

\* A run takes the marks of its range and of the item.
LEMMA RunTakesMarks ==
  ASSUME QueryInd, NEW r \in Runs, NEW k \in Ranges, BeginRun(r, k)
  PROVE  QueryInd'
<1> USE QueryRunsAssumption DEF QueryInd
<1> DEFINE new == {m \in {k, Item} : count[m] = 0}
           no(m) == IF m \in new THEN generation[m] + 1 ELSE generation[m]
           started == {[of |-> m, no |-> no(m)] : m \in new}
<1>0. k \in Marks /\ Item \in Marks /\ k # Item /\ runs[r].at \notin Running
  BY DEF Marks, BeginRun, Running
<1>1. /\ runs' = [runs EXCEPT ![r] = [at |-> "begun", range |-> k, no |-> no(k)]]
      /\ count' = [m \in Marks |-> IF m \in {k, Item} THEN count[m] + 1 ELSE count[m]]
      /\ generation' = [m \in Marks |-> no(m)]
      /\ young' = young \o SetToSeq(started)
      /\ lit' = lit \union {k, Item} /\ due' = due /\ stale' \in BOOLEAN
      /\ UNCHANGED outcome /\ UNCHANGED drawing
  BY DEF BeginRun, Light, QueryTypeOK
<1>2. \A m \in Marks : no(m) \in Nat
  BY DEF QueryTypeOK
<1>3. started \subseteq Generation
  BY <1>0, <1>2 DEF Generation
<1>4. IsFiniteSet(started)
  <2>1. IsFiniteSet({[of |-> k, no |-> no(k)], [of |-> Item, no |-> no(Item)]})
    <3>1. IsFiniteSet({[of |-> k, no |-> no(k)]})
      BY FS_Singleton
    <3>2. IsFiniteSet({[of |-> k, no |-> no(k)]} \union {[of |-> Item, no |-> no(Item)]})
      BY <3>1, FS_AddElement
    <3> QED
      BY <3>2
  <2>2. started \subseteq {[of |-> k, no |-> no(k)], [of |-> Item, no |-> no(Item)]}
    OBVIOUS
  <2> QED
    BY <2>1, <2>2, FS_Subset
<1>5. young' \in Seq(Generation)
  BY <1>1, <1>3, <1>4, SetInSequence
<1>6. QueryTypeOK'
  <2>1. runs' \in [Runs -> [at: Stages, range: Ranges \union {None}, no: Nat]]
    BY <1>0, <1>1, <1>2 DEF QueryTypeOK, Stages
  <2>2. count' \in [Marks -> Nat] /\ generation' \in [Marks -> Nat] /\ lit' \subseteq Marks
    <3>1. generation' \in [Marks -> Nat]
      <4> HIDE DEF no
      <4> QED BY <1>1, <1>2
    <3>2. count' \in [Marks -> Nat]
      BY <1>1 DEF QueryTypeOK
    <3>3. lit' \subseteq Marks
      BY <1>0, <1>1 DEF QueryTypeOK
    <3> QED
      BY <3>1, <3>2, <3>3
  <2>3. ToSet(young)' \subseteq Generation
    BY <1>5 DEF ToSet
  <2> QED
    BY <1>1, <2>1, <2>2, <2>3 DEF QueryTypeOK, outcome, drawing
<1>7. \A m \in {k, Item} : RangeHeldBy(m)' = RangeHeldBy(m) \union {r} /\ r \notin RangeHeldBy(m)
  BY <1>0, <1>1 DEF RangeHeldBy, Running, QueryTypeOK
<1>8. \A m \in Marks \ {k, Item} : RangeHeldBy(m)' = RangeHeldBy(m)
  BY <1>0, <1>1 DEF RangeHeldBy, Running, QueryTypeOK
<1>9. CountsAreHolders'
  <2> SUFFICES ASSUME NEW m \in Marks
               PROVE  IsFiniteSet(RangeHeldBy(m)') /\ count'[m] = Cardinality(RangeHeldBy(m)')
    BY DEF CountsAreHolders
  <2>1. CASE m \in {k, Item}
    <3>1. /\ IsFiniteSet(RangeHeldBy(m) \union {r})
          /\ Cardinality(RangeHeldBy(m) \union {r}) = Cardinality(RangeHeldBy(m)) + 1
      BY <1>7, <2>1, FS_AddElement DEF CountsAreHolders
    <3> QED
      BY <1>1, <1>7, <2>1, <3>1 DEF CountsAreHolders
  <2>2. CASE m \notin {k, Item}
    BY <1>1, <1>8, <2>2 DEF CountsAreHolders
  <2> QED
    BY <2>1, <2>2
<1>10. RunsHaveRanges'
  BY <1>1 DEF RunsHaveRanges, QueryTypeOK
<1>11. RunningIsShown'
  BY <1>1, <1>8 DEF RunningIsShown
<1>12. NoMarkIsForgotten'
  <2> SUFFICES ASSUME NEW m \in lit', RangeHeldBy(m)' = {} PROVE Current(m)' \in due'
    BY DEF NoMarkIsForgotten
  <2>1. m \in lit /\ m \in Marks \ {k, Item}
    BY <1>1, <1>6, <1>7 DEF QueryTypeOK
  <2>2. RangeHeldBy(m) = {} /\ generation'[m] = generation[m]
    BY <1>1, <1>8, <2>1
  <2> QED
    BY <1>1, <2>1, <2>2 DEF NoMarkIsForgotten, Current
<1>13. OutcomesComeSingly' /\ DecorationMatchesPanel'
  <2>1. Concluding' = Concluding
    BY <1>0, <1>1 DEF Concluding, Running, QueryTypeOK
  <2>2. \A q \in Runs : runs'[q].at = "failing" <=> runs[q].at = "failing"
    BY <1>0, <1>1 DEF Running, QueryTypeOK
  <2> QED
    BY <1>1, <2>1, <2>2 DEF OutcomesComeSingly, DecorationMatchesPanel, outcome
<1> QED
  BY <1>5, <1>6, <1>9, <1>10, <1>11, <1>12, <1>13
-----------------------------------------------------------------------------
\* A run gives its marks up: those nobody else holds go out, now or by their timer.
LEMMA RunGivesUpMarks ==
  ASSUME QueryInd, NEW r \in Runs, EndRun(r)
  PROVE  QueryInd'
<1> USE QueryRunsAssumption DEF QueryInd
<1> DEFINE k == runs[r].range
<1>0. k \in Marks /\ Item \in Marks /\ k # Item /\ k \in Ranges /\ runs[r].at = "ending"
  BY DEF Marks, EndRun, Running, RunsHaveRanges
<1>1. /\ runs' = [runs EXCEPT ![r].at = "over"]
      /\ count' = [m \in Marks |-> IF m \in {k, Item} THEN count[m] - 1 ELSE count[m]]
      /\ due' = due \union TimersFor(r)
      /\ lit' = lit \ {m \in PutsOut(r) : Current(m) \notin ToSet(young)} /\ stale' \in BOOLEAN
      /\ generation' = generation /\ young' = young /\ UNCHANGED outcome /\ UNCHANGED drawing
  BY DEF EndRun, Light, QueryTypeOK
<1>2. \A q \in Runs : /\ runs'[q].range = runs[q].range
                      /\ q # r => runs'[q] = runs[q]
                      /\ runs'[r].at = "over"
  BY <1>1 DEF QueryTypeOK
<1>3. \A m \in {k, Item} : r \in RangeHeldBy(m) /\ RangeHeldBy(m)' = RangeHeldBy(m) \ {r}
  BY <1>0, <1>2 DEF RangeHeldBy, Running
<1>4. \A m \in Marks \ {k, Item} : RangeHeldBy(m)' = RangeHeldBy(m)
  BY <1>0, <1>2 DEF RangeHeldBy, Running
<1>5. CountsAreHolders' /\ \A m \in {k, Item} : count[m] \in Nat \ {0}
  <2>1. ASSUME NEW m \in {k, Item}
        PROVE  /\ count[m] \in Nat \ {0}
               /\ IsFiniteSet(RangeHeldBy(m)') /\ count'[m] = Cardinality(RangeHeldBy(m)')
    <3>1. IsFiniteSet(RangeHeldBy(m)) /\ count[m] = Cardinality(RangeHeldBy(m)) /\ count[m] \in Nat
      BY <1>0 DEF CountsAreHolders, QueryTypeOK
    <3>2. count[m] # 0
      BY <1>3, <3>1, FS_EmptySet
    <3>3. /\ IsFiniteSet(RangeHeldBy(m) \ {r})
          /\ Cardinality(RangeHeldBy(m) \ {r}) = Cardinality(RangeHeldBy(m)) - 1
      BY <1>3, <3>1, FS_RemoveElement
    <3> QED
      BY <1>0, <1>1, <1>3, <3>1, <3>2, <3>3
  <2>2. ASSUME NEW m \in Marks \ {k, Item}
        PROVE  IsFiniteSet(RangeHeldBy(m)') /\ count'[m] = Cardinality(RangeHeldBy(m)')
    BY <1>1, <1>4 DEF CountsAreHolders
  <2> QED
    BY <2>1, <2>2 DEF CountsAreHolders
<1>6. QueryTypeOK'
  <2>1. runs' \in [Runs -> [at: Stages, range: Ranges \union {None}, no: Nat]]
    BY <1>1 DEF QueryTypeOK, Stages
  <2>2. count' \in [Marks -> Nat]
    BY <1>1, <1>5 DEF QueryTypeOK
  <2>3. due' \subseteq Generation
    BY <1>1 DEF QueryTypeOK, TimersFor
  <2> QED
    BY <1>1, <2>1, <2>2, <2>3 DEF QueryTypeOK, outcome, drawing
<1>7. RunsHaveRanges'
  BY <1>2 DEF RunsHaveRanges, Running
<1>8. RunningIsShown'
  <2> SUFFICES ASSUME NEW m \in Marks, RangeHeldBy(m)' # {} PROVE m \in lit'
    BY DEF RunningIsShown
  <2>1. m \in lit
    BY <1>3, <1>4 DEF RunningIsShown
  <2>2. m \notin PutsOut(r)
    <3> SUFFICES ASSUME m \in {k, Item}, count[m] = 1 PROVE FALSE
      BY DEF PutsOut
    <3>1. count'[m] = 0
      BY <1>0, <1>1
    <3> QED
      BY <1>5, <3>1, FS_EmptySet DEF CountsAreHolders
  <2> QED
    BY <1>1, <2>1, <2>2
<1>9. NoMarkIsForgotten'
  <2> SUFFICES ASSUME NEW m \in lit', RangeHeldBy(m)' = {} PROVE Current(m) \in due'
    BY <1>1 DEF NoMarkIsForgotten, Current
  <2>1. m \in lit /\ m \in Marks
    BY <1>1 DEF QueryTypeOK
  <2>2. CASE m \in {k, Item}
    <3>1. count'[m] = 0
      BY <1>5, <2>1, FS_EmptySet DEF CountsAreHolders
    <3>2. count[m] = 1
      BY <1>1, <1>5, <2>1, <2>2, <3>1
    <3>3. m \in PutsOut(r)
      BY <2>2, <3>2 DEF PutsOut
    <3>4. Current(m) \in ToSet(young)
      BY <1>1, <3>3
    <3> QED
      BY <1>1, <3>3, <3>4 DEF TimersFor
  <2>3. CASE m \notin {k, Item}
    BY <1>1, <1>4, <2>1, <2>3 DEF NoMarkIsForgotten
  <2> QED
    BY <2>2, <2>3
<1>10. OutcomesComeSingly' /\ DecorationMatchesPanel'
  <2>1. Concluding' = Concluding
    BY <1>0, <1>2 DEF Concluding
  <2>2. \A q \in Runs : runs'[q].at = "failing" <=> runs[q].at = "failing"
    BY <1>0, <1>2
  <2> QED
    BY <1>1, <2>1, <2>2 DEF OutcomesComeSingly, DecorationMatchesPanel, outcome
<1> QED
  BY <1>1, <1>5, <1>6, <1>7, <1>8, <1>9, <1>10

\* A timer puts out the mark of its generation, unless another has begun or a run holds it.
LEMMA TimersPutOut ==
  ASSUME QueryInd, NEW g \in due, TimerFires(g)
  PROVE  QueryInd'
<1> USE QueryRunsAssumption DEF QueryInd
<1>1. /\ due' = due \ {g} /\ stale' \in BOOLEAN
      /\ lit' = IF Expired(g) THEN lit \ {g.of} ELSE lit
      /\ UNCHANGED <<runs, count, generation, young>> /\ UNCHANGED outcome /\ UNCHANGED drawing
  BY DEF TimerFires, Light, QueryTypeOK
<1>2. g.of \in Marks /\ g = [of |-> g.of, no |-> g.no]
  BY DEF QueryTypeOK, Generation
<1>3. \A m : RangeHeldBy(m)' = RangeHeldBy(m) /\ Current(m)' = Current(m)
  BY <1>1 DEF RangeHeldBy, Current
<1>4. QueryTypeOK' /\ RunsHaveRanges' /\ CountsAreHolders'
  BY <1>1, <1>3 DEF QueryTypeOK, RunsHaveRanges, CountsAreHolders, outcome, drawing
<1>5. RunningIsShown'
  <2> SUFFICES ASSUME NEW m \in Marks, RangeHeldBy(m) # {} PROVE m \in lit'
    BY <1>3 DEF RunningIsShown
  <2>1. m \in lit /\ count[m] # 0
    BY FS_EmptySet DEF RunningIsShown, CountsAreHolders
  <2> QED
    BY <1>1, <2>1 DEF Expired
<1>6. NoMarkIsForgotten'
  <2> SUFFICES ASSUME NEW m \in lit', RangeHeldBy(m) = {} PROVE Current(m) \in due'
    BY <1>3 DEF NoMarkIsForgotten
  <2>1. m \in lit /\ m \in Marks /\ Current(m) \in due
    BY <1>1 DEF QueryTypeOK, NoMarkIsForgotten
  <2>2. count[m] = 0
    BY <2>1, FS_EmptySet DEF CountsAreHolders
  <2>3. Current(m) # g
    BY <1>1, <2>1, <2>2 DEF Current, Expired
  <2> QED
    BY <1>1, <2>1, <2>3
<1>7. OutcomesComeSingly' /\ DecorationMatchesPanel'
  BY <1>1 DEF OutcomesComeSingly, DecorationMatchesPanel, Concluding, outcome
<1> QED
  BY <1>1, <1>4, <1>5, <1>6, <1>7
-----------------------------------------------------------------------------
\* The steps of a run between taking its marks and giving them up.
LEMMA RunShowsOutcome ==
  ASSUME QueryInd, NEW r \in Runs,
         \/ AskRange(r) \/ NoRange(r) \/ Send(r) \/ Answer(r)
         \/ ShowError(r) \/ ShowResult(r) \/ Throw(r)
  PROVE  QueryInd'
<1> USE QueryRunsAssumption DEF QueryInd
<1> DEFINE Moves(at) == runs' = [runs EXCEPT ![r].at = at] /\ UNCHANGED marking
<1> SUFFICES ASSUME NEW at \in Stages, Moves(at), at \in Running <=> runs[r].at \in Running,
                    errorPanel' \in Runs \union {None}, errorRange' \in Runs \union {None},
                    muddled' \in BOOLEAN, stale' \in BOOLEAN, UNCHANGED drawing,
                    OutcomesComeSingly' /\ DecorationMatchesPanel'
             PROVE  QueryInd'
  <2> USE DEF marking, outcome, drawing, Running, Stages
  <2>1. \A q \in Runs : runs[q] = [at |-> runs[q].at, range |-> runs[q].range, no |-> runs[q].no]
    BY DEF QueryTypeOK
  <2>2. ASSUME NEW at, at \notin {"failing", "adding"}, Moves(at), UNCHANGED outcome
        PROVE  OutcomesComeSingly' /\ DecorationMatchesPanel'
    <3>1. Concluding' \subseteq Concluding
      BY <2>2 DEF Concluding, QueryTypeOK
    <3>2. \A q \in Runs : runs'[q].at = "failing" => runs[q].at = "failing"
      BY <2>2 DEF QueryTypeOK
    <3> QED
      BY <2>2, <3>1, <3>2 DEF OutcomesComeSingly, DecorationMatchesPanel
  <2>3. CASE AskRange(r)
    <3>1. Moves("resolving") /\ UNCHANGED outcome /\ UNCHANGED drawing /\ stale' = stale
      BY <2>3 DEF AskRange
    <3>2. "resolving" \in Running <=> runs[r].at \in Running
      BY <2>3 DEF AskRange
    <3>3. OutcomesComeSingly' /\ DecorationMatchesPanel'
      <4> HIDE DEF Moves
      <4> QED BY <2>2, <3>1
    <3> QED
      BY <3>1, <3>2, <3>3 DEF QueryTypeOK
  <2>4. CASE NoRange(r)
    <3>1. Moves("over") /\ UNCHANGED outcome /\ UNCHANGED drawing /\ stale' = stale
      BY <2>4 DEF NoRange
    <3>2. "over" \in Running <=> runs[r].at \in Running
      BY <2>4 DEF NoRange
    <3>3. OutcomesComeSingly' /\ DecorationMatchesPanel'
      <4> HIDE DEF Moves
      <4> QED BY <2>2, <3>1
    <3> QED
      BY <3>1, <3>2, <3>3 DEF QueryTypeOK
  <2>5. CASE Send(r)
    <3>1. Moves("sent") /\ UNCHANGED outcome /\ UNCHANGED drawing /\ stale' = stale
      BY <2>5 DEF Send
    <3>2. "sent" \in Running <=> runs[r].at \in Running
      BY <2>5 DEF Send
    <3>3. OutcomesComeSingly' /\ DecorationMatchesPanel'
      <4> HIDE DEF Moves
      <4> QED BY <2>2, <3>1
    <3> QED
      BY <3>1, <3>2, <3>3 DEF QueryTypeOK
  <2>6. CASE Throw(r)
    <3>1. Moves("ending") /\ UNCHANGED outcome /\ UNCHANGED drawing /\ stale' = stale
      BY <2>6 DEF Throw
    <3>2. "ending" \in Running <=> runs[r].at \in Running
      BY <2>6 DEF Throw
    <3>3. OutcomesComeSingly' /\ DecorationMatchesPanel'
      <4> HIDE DEF Moves
      <4> QED BY <2>2, <3>1
    <3> QED
      BY <3>1, <3>2, <3>3 DEF QueryTypeOK
  <2>7. CASE Answer(r)
    <3>1. PICK at \in {"failing", "adding", "ending"} :
                Moves(at) /\ errorPanel' = IF at = "failing" THEN r ELSE errorPanel
      BY <2>7 DEF Answer
    <3>2. /\ muddled' = (muddled \/ Concluding # {}) /\ errorRange' = None
          /\ stale' = stale /\ UNCHANGED drawing /\ runs[r].at = "sent"
      BY <2>7 DEF Answer
    <3>3. \A q \in Runs : q # r => runs'[q] = runs[q]
      BY <3>1 DEF QueryTypeOK
    <3>4. OutcomesComeSingly'
      <4> SUFFICES ASSUME ~muddled' PROVE OutcomesComeSingly'
        BY DEF OutcomesComeSingly
      <4>1. Concluding = {} /\ Concluding' \subseteq {r}
        BY <3>2, <3>3 DEF Concluding
      <4>2. \A q \in Runs : runs'[q].at = "failing" => q = r
        BY <4>1 DEF Concluding
      <4>3. runs'[r].at = at
        BY <3>1 DEF QueryTypeOK
      <4> QED
        BY <3>1, <3>2, <4>1, <4>2, <4>3 DEF OutcomesComeSingly
    <3>5. DecorationMatchesPanel'
      BY <3>2 DEF DecorationMatchesPanel
    <3>6. muddled' \in BOOLEAN /\ errorPanel' \in Runs \union {None}
      BY <3>1, <3>2 DEF QueryTypeOK
    <3> QED
      BY <3>1, <3>2, <3>4, <3>5, <3>6 DEF QueryTypeOK
  <2>8. CASE ShowError(r)
    <3>1. /\ Moves("ending") /\ runs[r].at = "failing" /\ errorPanel' = errorPanel /\ muddled' = muddled
          /\ errorRange' \in {r, errorRange} /\ stale' = stale /\ UNCHANGED drawing
      BY <2>8 DEF ShowError
    <3>2. \A q \in Runs : q # r => runs'[q] = runs[q]
      BY <3>1 DEF QueryTypeOK
    <3>3. runs'[r].at = "ending"
      BY <3>1 DEF QueryTypeOK
    <3>4. Concluding' = Concluding \ {r} /\ r \in Concluding
      BY <3>1, <3>2, <3>3 DEF Concluding
    <3>5. ~muddled => Concluding' = {} /\ errorRange = None /\ errorPanel = r
      BY <3>1, <3>4 DEF OutcomesComeSingly
    <3>6. \A q \in Runs : runs'[q].at = "failing" => q \in Concluding'
      BY DEF Concluding
    <3>7. OutcomesComeSingly'
      BY <3>1, <3>5, <3>6 DEF OutcomesComeSingly
    <3>8. DecorationMatchesPanel'
      BY <3>1, <3>5 DEF DecorationMatchesPanel
    <3> QED
      BY <3>1, <3>7, <3>8 DEF QueryTypeOK
  <2>9. CASE ShowResult(r)
    <3>1. /\ Moves("ending") /\ runs[r].at = "adding" /\ errorPanel' = None /\ muddled' = muddled
          /\ errorRange' = errorRange /\ stale' = TRUE /\ UNCHANGED drawing
      BY <2>9 DEF ShowResult
    <3>2. \A q \in Runs : q # r => runs'[q] = runs[q]
      BY <3>1 DEF QueryTypeOK
    <3>3. runs'[r].at = "ending"
      BY <3>1 DEF QueryTypeOK
    <3>4. Concluding' = Concluding \ {r} /\ r \in Concluding
      BY <3>1, <3>2, <3>3 DEF Concluding
    <3>5. ~muddled => Concluding' = {} /\ errorRange = None
      BY <3>4 DEF OutcomesComeSingly
    <3>6. \A q \in Runs : runs'[q].at = "failing" => q \in Concluding'
      BY DEF Concluding
    <3>7. OutcomesComeSingly'
      BY <3>1, <3>5, <3>6 DEF OutcomesComeSingly
    <3>8. DecorationMatchesPanel'
      BY <3>1, <3>5 DEF DecorationMatchesPanel
    <3> QED
      BY <3>1, <3>7, <3>8 DEF QueryTypeOK
  <2> QED
    BY <2>3, <2>4, <2>5, <2>6, <2>7, <2>8, <2>9
<1>1. RunsHaveRanges' /\ CountsAreHolders' /\ RunningIsShown' /\ NoMarkIsForgotten'
  BY RunKeepsMarks
<1>2. QueryTypeOK' /\ young' \in Seq(Generation)
  <2>1. runs' \in [Runs -> [at: Stages, range: Ranges \union {None}, no: Nat]]
    BY DEF QueryTypeOK
  <2>2. /\ count' = count /\ generation' = generation /\ lit' = lit /\ young' = young /\ due' = due
        /\ lenses' = lenses /\ lensRead' = lensRead
    BY DEF marking, drawing
  <2> QED
    BY <2>1, <2>2 DEF QueryTypeOK
<1> QED
  BY <1>1, <1>2

\* The invariant is inductive.
LEMMA QueryIndNext == QueryInd /\ [QueryNext]_queryVars => QueryInd'
<1> SUFFICES ASSUME QueryInd, [QueryNext]_queryVars PROVE QueryInd'
  OBVIOUS
<1>1. ASSUME NEW r \in Runs, NEW k \in Ranges, BeginRun(r, k) PROVE QueryInd'
  BY <1>1, RunTakesMarks
<1>2. ASSUME NEW r \in Runs, EndRun(r) PROVE QueryInd'
  BY <1>2, RunGivesUpMarks
<1>3. ASSUME NEW r \in Runs,
             \/ AskRange(r) \/ NoRange(r) \/ Send(r) \/ Answer(r)
             \/ ShowError(r) \/ ShowResult(r) \/ Throw(r)
      PROVE  QueryInd'
  BY <1>3, RunShowsOutcome
<1>4. ASSUME NEW g \in due, TimerFires(g) PROVE QueryInd'
  BY <1>4, TimersPutOut
<1> USE DEF QueryInd, RunsHaveRanges, CountsAreHolders, RunningIsShown, NoMarkIsForgotten,
        DecorationMatchesPanel, RangeHeldBy, Current
<1>5. CASE Ages
  <2>1. young' \in Seq(Generation) /\ ToSet(young)' \subseteq Generation
    BY <1>5 DEF Ages, ToSet
  <2> QED
    BY <1>5, <2>1 DEF Ages, QueryTypeOK, outcome, drawing, OutcomesComeSingly, Concluding
<1>6. CASE EditText
  <2>1. Concluding' = Concluding /\ (~muddled' => ~muddled) /\ errorRange' = None
    BY <1>6 DEF EditText, Concluding
  <2>2. muddled' \in BOOLEAN
    BY <1>6 DEF EditText, QueryTypeOK
  <2> QED
    BY <1>6, <2>1, <2>2 DEF EditText, QueryTypeOK, marking, drawing, OutcomesComeSingly
<1>7. CASE ReadLenses
  BY <1>7 DEF ReadLenses, QueryTypeOK, marking, outcome, OutcomesComeSingly, Concluding, Marks
<1>8. CASE DrawLenses
  BY <1>8 DEF DrawLenses, QueryTypeOK, marking, outcome, OutcomesComeSingly, Concluding
<1>9. CASE UNCHANGED queryVars
  BY <1>9 DEF queryVars, QueryTypeOK, OutcomesComeSingly, Concluding
<1> QED
  BY <1>1, <1>2, <1>3, <1>4, <1>5, <1>6, <1>7, <1>8, <1>9 DEF QueryNext, RunProgress

\* The marks in the editor tell what runs, whatever order runs begin and end in and timers
\* fire in, and a decorated error is the one on display (beginQueryRun to endQueryRun).
THEOREM MarksTellWhatRuns == QuerySpec => []MarksAreSound
<1>1. QuerySpec => []QueryInd
  BY QueryIndInit, QueryIndNext, PTL DEF QuerySpec
<1>2. QueryInd => MarksAreSound
  BY DEF QueryInd, MarksAreSound
<1> QED
  BY <1>1, <1>2, PTL

\* A mark that goes out is older than MIN_QUERY_RUNNING_INDICATOR_MS, also when its range
\* was begun anew before an earlier timer fired.
THEOREM MarksLastTheMinimum == QuerySpec => ShownLongEnough
<1>1. QueryInd /\ [QueryNext]_queryVars
        => [\A m \in lit \ lit' : Current(m) \notin ToSet(young)]_queryVars
  <2> SUFFICES ASSUME QueryInd, QueryNext, NEW m \in lit \ lit'
               PROVE  Current(m) \notin ToSet(young)
    BY DEF ShownLongEnough
  <2>1. (\E r \in Runs : EndRun(r)) \/ \E g \in due : TimerFires(g)
    <3> SUFFICES ASSUME ~\E r \in Runs : EndRun(r), ~\E g \in due : TimerFires(g)
                 PROVE  lit \subseteq lit'
      OBVIOUS
    <3> QED
      BY DEF QueryNext, RunProgress, AskRange, NoRange, BeginRun, Light, Send, Answer, ShowError,
         ShowResult, Throw, Ages, EditText, ReadLenses, DrawLenses, marking
  <2>2. ASSUME NEW r \in Runs, EndRun(r) PROVE Current(m) \notin ToSet(young)
    BY <2>2 DEF EndRun, Light
  <2>3. ASSUME NEW g \in due, TimerFires(g) PROVE Current(m) \notin ToSet(young)
    <3>1. m = g.of /\ generation[m] = g.no /\ g \notin ToSet(young)
      BY <2>3 DEF TimerFires, Light, Expired
    <3>2. Current(m) = g
      BY <3>1 DEF Current, QueryInd, QueryTypeOK, Generation
    <3> QED
      BY <3>1, <3>2
  <2> QED
    BY <2>1, <2>2, <2>3
<1>2. QuerySpec => []QueryInd
  BY QueryIndInit, QueryIndNext, PTL DEF QuerySpec
<1> QED
  BY <1>1, <1>2, PTL DEF QuerySpec, ShownLongEnough

-----------------------------------------------------------------------------
(* Clipboard *)

\* Only an entity's text is asked for, and only it has a context to come.
CopiesFit ==
    \A c \in Copies : copying[c] # None =>
        (copying[c].at \in {"asking", "written"} => copying[c].entity # None)

\* Undisturbed, one copy or one paste is under way.
OneAtATime ==
    ~overlapped =>
        /\ \A c, d \in Copies : copying[c] # None /\ copying[d] # None => c = d
        /\ \A p, q \in Pastes : pasting[p] # None /\ pasting[q] # None => p = q
        /\ \A c \in Copies, p \in Pastes : copying[c] = None \/ pasting[p] = None

\* What has landed is what the context will be set to.
LandedIsOwned ==
    ~overlapped /\ owner # None =>
        \A c \in Copies : At(c, "written") => copying[c].entity = owner /\ copying[c].text = systemText

\* With none left to set it the context is that of the text.
ContextIsOwners ==
    ~overlapped /\ owner # None /\ (\A c \in Copies : ~At(c, "written"))
        => context = [text |-> systemText, entity |-> owner]

\* A paste holds the context of the text it read.
PastesHold ==
    ~overlapped => \A p \in Pastes : pasting[p] # None =>
        /\ owner # None => pasting[p].of = owner
        /\ pasting[p].of # None => pasting[p].held = [text |-> pasting[p].text, entity |-> pasting[p].of]

ClipInd ==
    ClipTypeOK /\ CopiesFit /\ OneAtATime /\ LandedIsOwned /\ ContextIsOwners /\ PastesHold

LEMMA ClipIndInit == ClipInit => ClipInd
  BY DEF ClipInit, ClipInd, ClipTypeOK, CopiesFit, OneAtATime, LandedIsOwned, ContextIsOwners, PastesHold

\* A copy goes on: c's record, if it is one, has an entity where it must.
LEMMA CopyIsTyped ==
  ASSUME ClipInd, NEW c \in Copies, NEW copy \in Copy \union {None}, Copying(c, copy),
         UNCHANGED pasting, systemText' \in Contents \union {Foreign},
         context' \in Context \union {None}, owner' \in Entities \union {None},
         overlapped' \in BOOLEAN,
         copy # None /\ copy.entity # None => copy.text # Foreign,
         copy # None /\ copy.at \in {"asking", "written"} => copy.entity # None
  PROVE  /\ ClipTypeOK' /\ CopiesFit'
         /\ copying'[c] = copy
         /\ \A d \in Copies \ {c} : copying'[d] = copying[d]
<1> USE DEF ClipInd
<1>1. copying \in [Copies -> Copy \union {None}]
  BY DEF ClipTypeOK
<1>2. /\ copying' \in [Copies -> Copy \union {None}] /\ copying'[c] = copy
      /\ \A d \in Copies \ {c} : copying'[d] = copying[d]
  BY <1>1 DEF Copying
<1>3. ClipTypeOK'
  <2>1. \A d \in Copies : copying'[d] # None /\ copying'[d].entity # None => copying'[d].text # Foreign
    BY <1>2 DEF ClipTypeOK
  <2> QED
    BY <1>2, <2>1 DEF ClipTypeOK
<1>4. CopiesFit'
  BY <1>2 DEF CopiesFit
<1> QED
  BY <1>2, <1>3, <1>4

\* A copy begins.
LEMMA CopyBegins ==
  ASSUME ClipInd, NEW c \in Copies, NEW copy \in Copy, copy.at # "written",
         copying[c] = None, Copying(c, copy),
         overlapped' = (overlapped \/ ~Idle),
         UNCHANGED <<systemText, context, pasting, owner>>,
         copy.entity # None => copy.text # Foreign,
         copy.at = "asking" => copy.entity # None
  PROVE  ClipInd'
<1> USE DEF ClipInd
<1>1. overlapped' \in BOOLEAN
  BY Zenon DEF ClipTypeOK, Idle
<1>2. /\ ClipTypeOK' /\ CopiesFit' /\ copying'[c] = copy
      /\ \A d \in Copies \ {c} : copying'[d] = copying[d]
  BY <1>1, CopyIsTyped DEF ClipTypeOK
<1>3. SUFFICES ASSUME ~overlapped' PROVE OneAtATime' /\ LandedIsOwned' /\ ContextIsOwners' /\ PastesHold'
  BY <1>2 DEF OneAtATime, LandedIsOwned, ContextIsOwners, PastesHold
<1>4. ~overlapped /\ Idle
  BY <1>3
<1>5. OneAtATime'
  BY <1>2, <1>4 DEF OneAtATime, Idle
<1>6. LandedIsOwned' /\ ContextIsOwners' /\ PastesHold'
  BY <1>2, <1>4 DEF LandedIsOwned, ContextIsOwners, PastesHold, Idle, At
<1> QED
  BY <1>5, <1>6

LEMMA ClipIndNext == ClipInd /\ [ClipNext]_clipVars => ClipInd'
<1> SUFFICES ASSUME ClipInd, [ClipNext]_clipVars
             PROVE  ClipInd'
  OBVIOUS
<1> USE DEF ClipInd
<1> USE ClipboardRecordAssumption, ClipboardAssumption
<1>1. CASE UNCHANGED clipVars
  BY <1>1 DEF clipVars, ClipTypeOK, CopiesFit, OneAtATime, LandedIsOwned, ContextIsOwners,
              PastesHold, At
<1>2. ASSUME NEW c \in Copies, NEW e \in Entities, NEW t \in Contents, CopyEntity(c, e, t)
      PROVE  ClipInd'
  <2> DEFINE copy == [entity |-> e, text |-> t, at |-> "asking"]
  <2>1. copy \in Copy
    BY DEF Copy
  <2>2. copy.entity = e /\ copy.text = t /\ copy.at = "asking" /\ e # None /\ t # Foreign
    OBVIOUS
  <2>3. /\ copying[c] = None /\ Copying(c, copy) /\ overlapped' = (overlapped \/ ~Idle)
        /\ UNCHANGED <<systemText, context, pasting, owner>>
    BY <1>2, Zenon DEF CopyEntity
  <2> HIDE DEF copy
  <2> QED
    BY <2>1, <2>2, <2>3, CopyBegins
<1>3. ASSUME NEW c \in Copies, NEW t \in Contents \union {Foreign}, CopyOther(c, t)
      PROVE  ClipInd'
  <2> DEFINE copy == [entity |-> None, text |-> t, at |-> "writing"]
  <2>1. copy \in Copy
    BY DEF Copy
  <2>2. copy.entity = None /\ copy.at = "writing"
    OBVIOUS
  <2>3. /\ copying[c] = None /\ Copying(c, copy) /\ overlapped' = (overlapped \/ ~Idle)
        /\ UNCHANGED <<systemText, context, pasting, owner>>
    BY <1>3, Zenon DEF CopyOther
  <2> HIDE DEF copy
  <2> QED
    BY <2>1, <2>2, <2>3, CopyBegins
<1>4. ASSUME NEW c \in Copies, EntityAnswered(c)
      PROVE  ClipInd'
  <2> DEFINE copy == [copying[c] EXCEPT !.at = "writing"]
  <2>1. /\ At(c, "asking") /\ Copying(c, copy)
        /\ UNCHANGED <<systemText, context, pasting, owner, overlapped>>
    BY <1>4 DEF EntityAnswered
  <2>2. copying[c] \in Copy
    BY <2>1 DEF ClipTypeOK, At
  <2>3. /\ copy \in Copy /\ copy.entity = copying[c].entity /\ copy.text = copying[c].text
        /\ copy.at = "writing"
    BY <2>2 DEF Copy
  <2> HIDE DEF copy
  <2>4. copy.entity # None => copy.text # Foreign
    BY <2>1, <2>3 DEF ClipTypeOK, At
  <2>5. /\ ClipTypeOK' /\ CopiesFit' /\ copying'[c] = copy
        /\ \A d \in Copies \ {c} : copying'[d] = copying[d]
    BY <2>1, <2>3, <2>4, CopyIsTyped DEF ClipTypeOK
  <2>6. copy # None /\ copying[c] # None
    BY <2>1, <2>3 DEF At
  <2>7. OneAtATime'
    BY <2>1, <2>5, <2>6 DEF OneAtATime
  <2>8. \A d \in Copies : At(d, "written")' <=> At(d, "written")
    BY <2>1, <2>3, <2>5 DEF At
  <2>9. LandedIsOwned'
    BY <2>1, <2>3, <2>5, <2>8 DEF LandedIsOwned, At
  <2>10. ContextIsOwners' /\ PastesHold'
    BY <2>1, <2>8 DEF ContextIsOwners, PastesHold
  <2> QED
    BY <2>5, <2>7, <2>9, <2>10
<1>5. ASSUME NEW c \in Copies, Lands(c)
      PROVE  ClipInd'
  <2> DEFINE copy == AfterLanding(c)
  <2>1. /\ At(c, "writing") /\ systemText' = copying[c].text /\ owner' = copying[c].entity
        /\ Copying(c, copy) /\ overlapped' = ~IdleBut(c) /\ UNCHANGED <<context, pasting>>
    BY <1>5 DEF Lands
  <2>2. copying[c] \in Copy
    BY <2>1 DEF ClipTypeOK, At
  <2>3. \/ copy = None /\ owner' = None
        \/ /\ copy \in Copy /\ copy.entity = copying[c].entity /\ copy.text = copying[c].text
           /\ copy.at = "written" /\ copying[c].entity # None
    BY <2>1, <2>2 DEF Copy, AfterLanding
  <2> HIDE DEF copy
  <2>4. copy # None /\ copy.entity # None => copy.text # Foreign
    BY <2>1, <2>3 DEF ClipTypeOK, At
  <2>5. /\ systemText' \in Contents \union {Foreign} /\ owner' \in Entities \union {None}
        /\ copy \in Copy \union {None}
        /\ copy # None /\ copy.at \in {"asking", "written"} => copy.entity # None
    BY <2>1, <2>2, <2>3 DEF Copy
  <2>6. overlapped' \in BOOLEAN
    BY <2>1, Zenon DEF IdleBut
  <2>7. /\ ClipTypeOK' /\ CopiesFit' /\ copying'[c] = copy
        /\ \A d \in Copies \ {c} : copying'[d] = copying[d]
    <3>1. context' \in Context \union {None}
      BY <2>1 DEF ClipTypeOK
    <3> QED
      BY <2>1, <2>4, <2>5, <2>6, <3>1, CopyIsTyped
  <2>8. SUFFICES ASSUME ~overlapped'
                 PROVE  OneAtATime' /\ LandedIsOwned' /\ ContextIsOwners' /\ PastesHold'
    BY <2>7 DEF OneAtATime, LandedIsOwned, ContextIsOwners, PastesHold
  <2>9. IdleBut(c)
    BY <2>1, <2>8
  <2>10. OneAtATime' /\ PastesHold'
    BY <2>1, <2>7, <2>9 DEF OneAtATime, PastesHold, IdleBut
  <2>11. LandedIsOwned' /\ ContextIsOwners'
    BY <2>1, <2>3, <2>7, <2>9 DEF LandedIsOwned, ContextIsOwners, IdleBut, At
  <2> QED
    BY <2>10, <2>11
<1>6. ASSUME NEW c \in Copies, SetContext(c)
      PROVE  ClipInd'
  <2>1. /\ At(c, "written") /\ Copying(c, None)
        /\ context' = [text |-> copying[c].text, entity |-> copying[c].entity]
        /\ UNCHANGED <<systemText, pasting, owner, overlapped>>
    BY <1>6 DEF SetContext, ContextOf
  <2>2. copying[c] \in Copy /\ copying[c] # None /\ copying[c].entity # None /\ copying[c].text # Foreign
    BY <2>1 DEF ClipTypeOK, CopiesFit, At
  <2>3. context' \in Context
    BY <2>1, <2>2 DEF Copy, Context
  <2>4. /\ ClipTypeOK' /\ CopiesFit' /\ copying'[c] = None
        /\ \A d \in Copies \ {c} : copying'[d] = copying[d]
    BY <2>1, <2>3, CopyIsTyped DEF ClipTypeOK
  <2>5. OneAtATime' /\ PastesHold'
    BY <2>1, <2>4 DEF OneAtATime, PastesHold
  <2>6. LandedIsOwned'
    BY <2>1, <2>4 DEF LandedIsOwned, At
  <2>7. ContextIsOwners'
    BY <2>1, <2>2 DEF ContextIsOwners, LandedIsOwned
  <2> QED
    BY <2>4, <2>5, <2>6, <2>7
<1>7. ASSUME NEW c \in Copies, CopyFails(c)
      PROVE  ClipInd'
  <2>1. /\ At(c, "asking") \/ At(c, "writing")
        /\ Copying(c, None) /\ UNCHANGED <<systemText, context, pasting, owner, overlapped>>
    BY <1>7 DEF CopyFails
  <2>2. /\ ClipTypeOK' /\ CopiesFit' /\ copying'[c] = None
        /\ \A d \in Copies \ {c} : copying'[d] = copying[d]
    BY <2>1, CopyIsTyped DEF ClipTypeOK
  <2>3. OneAtATime' /\ PastesHold'
    BY <2>1, <2>2 DEF OneAtATime, PastesHold
  <2>4. \A d \in Copies : At(d, "written")' <=> At(d, "written")
    BY <2>1, <2>2 DEF At
  <2>5. LandedIsOwned' /\ ContextIsOwners'
    BY <2>1, <2>2, <2>4 DEF LandedIsOwned, ContextIsOwners, At
  <2> QED
    BY <2>2, <2>3, <2>5
<1>8. ASSUME NEW t \in Contents \union {Foreign}, CopyElsewhere(t)
      PROVE  ClipInd'
  <2>1. systemText' = t /\ owner' = None /\ UNCHANGED <<context, copying, pasting, overlapped>>
    BY <1>8 DEF CopyElsewhere
  <2> QED
    BY <2>1 DEF ClipTypeOK, CopiesFit, OneAtATime, LandedIsOwned, ContextIsOwners, PastesHold
<1>9. ASSUME NEW p \in Pastes, BeginPaste(p)
      PROVE  ClipInd'
  <2> DEFINE paste == [text |-> systemText, held |-> context, of |-> owner, at |-> "reading"]
  <2>1. /\ pasting[p] = None /\ context # None /\ pasting' = [pasting EXCEPT ![p] = paste]
        /\ overlapped' = (overlapped \/ ~Idle)
        /\ UNCHANGED <<systemText, context, copying, owner>>
    BY <1>9, Zenon DEF BeginPaste
  <2>2. paste \in Paste
    BY <2>1 DEF ClipTypeOK, Paste
  <2>3. paste.text = systemText /\ paste.held = context /\ paste.of = owner
    OBVIOUS
  <2> HIDE DEF paste
  <2>4. /\ pasting' \in [Pastes -> Paste \union {None}] /\ pasting'[p] = paste
        /\ \A q \in Pastes \ {p} : pasting'[q] = pasting[q]
    BY <2>1, <2>2 DEF ClipTypeOK
  <2>5. overlapped' \in BOOLEAN
    BY <2>1, Zenon DEF ClipTypeOK, Idle
  <2>6. ClipTypeOK' /\ CopiesFit'
    BY <2>1, <2>4, <2>5 DEF ClipTypeOK, CopiesFit
  <2>7. SUFFICES ASSUME ~overlapped'
                 PROVE  OneAtATime' /\ LandedIsOwned' /\ ContextIsOwners' /\ PastesHold'
    BY <2>6 DEF OneAtATime, LandedIsOwned, ContextIsOwners, PastesHold
  <2>8. ~overlapped /\ Idle
    BY <2>1, <2>7
  <2>9. OneAtATime'
    BY <2>1, <2>4, <2>8 DEF OneAtATime, Idle
  <2>10. LandedIsOwned' /\ ContextIsOwners'
    BY <2>1, <2>8 DEF LandedIsOwned, ContextIsOwners, At
  <2>11. owner # None => context = [text |-> systemText, entity |-> owner]
    BY <2>8 DEF ContextIsOwners, Idle, At
  <2>12. PastesHold'
    BY <2>1, <2>3, <2>4, <2>8, <2>11 DEF PastesHold, Idle
  <2> QED
    BY <2>9, <2>10, <2>12
<1>10. ASSUME NEW p \in Pastes, ReadText(p)
       PROVE  ClipInd'
  <2>1. pasting[p] # None /\ UNCHANGED <<systemText, copying, owner, overlapped>>
    BY <1>10 DEF ReadText
  <2>2. pasting \in [Pastes -> Paste \union {None}] /\ pasting[p] \in Paste
    BY <2>1 DEF ClipTypeOK
  <2>3. CASE pasting[p].text # pasting[p].held.text
    <3>1. context' = None /\ pasting' = [pasting EXCEPT ![p] = None]
      BY <1>10, <2>3 DEF ReadText, PasteEnds
    <3>2. ~overlapped => owner = None
      <4> SUFFICES ASSUME ~overlapped, owner # None PROVE FALSE
        OBVIOUS
      <4>1. pasting[p].held = [text |-> pasting[p].text, entity |-> pasting[p].of]
        BY <2>1 DEF PastesHold
      <4> QED
        BY <2>3, <4>1
    <3>3. /\ pasting' \in [Pastes -> Paste \union {None}] /\ pasting'[p] = None
          /\ \A q \in Pastes \ {p} : pasting'[q] = pasting[q]
      BY <2>2, <3>1
    <3>4. ClipTypeOK' /\ CopiesFit'
      BY <2>1, <3>1, <3>3 DEF ClipTypeOK, CopiesFit
    <3>5. OneAtATime' /\ PastesHold'
      BY <2>1, <3>3 DEF OneAtATime, PastesHold
    <3>6. LandedIsOwned' /\ ContextIsOwners'
      BY <2>1, <3>2 DEF LandedIsOwned, ContextIsOwners
    <3> QED
      BY <3>4, <3>5, <3>6
  <2>4. CASE pasting[p].text = pasting[p].held.text
    <3> DEFINE paste == [pasting[p] EXCEPT !.at = "transforming"]
    <3>1. UNCHANGED context /\ pasting' = [pasting EXCEPT ![p] = paste]
      BY <1>10, <2>4 DEF ReadText
    <3>2. /\ paste \in Paste /\ paste.text = pasting[p].text /\ paste.held = pasting[p].held
          /\ paste.of = pasting[p].of
      BY <2>2 DEF Paste
    <3> HIDE DEF paste
    <3>3. /\ pasting' \in [Pastes -> Paste \union {None}] /\ pasting'[p] = paste
          /\ \A q \in Pastes \ {p} : pasting'[q] = pasting[q]
      BY <2>2, <3>1, <3>2
    <3>4. ClipTypeOK' /\ CopiesFit'
      BY <2>1, <3>1, <3>3 DEF ClipTypeOK, CopiesFit
    <3>5. OneAtATime' /\ PastesHold'
      BY <2>1, <3>2, <3>3 DEF OneAtATime, PastesHold
    <3>6. LandedIsOwned' /\ ContextIsOwners'
      BY <2>1, <3>1 DEF LandedIsOwned, ContextIsOwners, At
    <3> QED
      BY <3>4, <3>5, <3>6
  <2> QED
    BY <2>3, <2>4
<1>11. ASSUME NEW p \in Pastes, Transformed(p)
       PROVE  ClipInd'
  <2>1. pasting' = [pasting EXCEPT ![p] = None] /\ UNCHANGED <<systemText, context, copying, owner, overlapped>>
    BY <1>11 DEF Transformed, PasteEnds
  <2>2. /\ pasting' \in [Pastes -> Paste \union {None}] /\ pasting'[p] = None
        /\ \A q \in Pastes \ {p} : pasting'[q] = pasting[q]
    BY <2>1 DEF ClipTypeOK
  <2>3. ClipTypeOK' /\ CopiesFit'
    BY <2>1, <2>2 DEF ClipTypeOK, CopiesFit
  <2>4. OneAtATime' /\ PastesHold'
    BY <2>1, <2>2 DEF OneAtATime, PastesHold
  <2>5. LandedIsOwned' /\ ContextIsOwners'
    BY <2>1 DEF LandedIsOwned, ContextIsOwners, At
  <2> QED
    BY <2>3, <2>4, <2>5
<1> QED
  BY <1>1, <1>2, <1>3, <1>4, <1>5, <1>6, <1>7, <1>8, <1>9, <1>10, <1>11 DEF ClipNext

\* A paste is transformed for the entity whose text it pastes, and with nothing
\* under way the context is that of the text on the clipboard: copyEntityAs sets it
\* after its text has landed and provideDocumentPasteEdits drops one whose text is
\* another's, so only copies and pastes that overlap can mix them up.
THEOREM ContextFollowsTheText == ClipSpec => []ClipboardIsSound
<1>1. ClipInd => ClipboardIsSound
  <2> SUFFICES ASSUME ClipInd PROVE ClipboardIsSound
    OBVIOUS
  <2> USE DEF ClipInd
  <2>1. PastesKnowTheirSource
    <3> SUFFICES ASSUME ~overlapped, NEW p \in Pastes, pasting[p] # None, pasting[p].of # None
                 PROVE  pasting[p].held.entity = pasting[p].of
      BY DEF PastesKnowTheirSource
    <3>1. pasting[p].held = [text |-> pasting[p].text, entity |-> pasting[p].of]
      BY DEF PastesHold
    <3> QED
      BY <3>1
  <2>2. ContextGoesWithText
    BY DEF ContextIsOwners, ContextGoesWithText, Idle, At
  <2> QED
    BY <2>1, <2>2 DEF ClipboardIsSound
<1> QED
  BY <1>1, ClipIndInit, ClipIndNext, PTL DEF ClipSpec
-----------------------------------------------------------------------------
(* EditorDecorations *)

\* A text of n characters typed, and one with a space after them.
Whole(text, n) == Len(text) = n /\ ToSet(text) = 1 .. n
Spaced(text, n) ==
    Len(text) = n + 1 /\ text[n + 1] = 0 /\ {text[i] : i \in 1 .. n} = 1 .. n

LEMMA TypingKeepsWhole ==
  ASSUME NEW S, NEW text \in Seq(S), NEW n \in Nat, n + 1 \in S, Whole(text, n),
         NEW i \in 1 .. (n + 1)
  PROVE  Whole(InsertAt(text, i, n + 1), n + 1)
<1> DEFINE new == InsertAt(text, i, n + 1)
<1>1. /\ new \in Seq(S) /\ Len(new) = n + 1
      /\ \A j \in 1 .. (n + 1) :
            new[j] = IF j < i THEN text[j] ELSE IF j = i THEN n + 1 ELSE text[j - 1]
  <2>1. i \in 1 .. (Len(text) + 1)
    BY DEF Whole
  <2>2. /\ InsertAt(text, i, n + 1) \in Seq(S)
        /\ Len(InsertAt(text, i, n + 1)) = Len(text) + 1
        /\ \A j \in 1 .. (Len(text) + 1) :
              InsertAt(text, i, n + 1)[j] =
                 IF j < i THEN text[j] ELSE IF j = i THEN n + 1 ELSE text[j - 1]
    BY <2>1, InsertAtProperties
  <2> QED
    BY <2>2 DEF Whole
<1> HIDE DEF new
<1>2. DOMAIN text = 1 .. n /\ DOMAIN new = 1 .. (n + 1)
  BY <1>1, LenProperties DEF Whole
<1>3. \A x \in 1 .. n : \E j \in 1 .. n : text[j] = x
  BY <1>2 DEF Whole, ToSet
<1>4. \A j \in 1 .. n : text[j] \in 1 .. n
  BY <1>2 DEF Whole, ToSet
<1>5. ASSUME NEW j \in 1 .. (n + 1) PROVE new[j] \in 1 .. (n + 1)
  <2>1. CASE j < i
    <3>1. new[j] = text[j] /\ j \in 1 .. n
      BY <1>1, <2>1
    <3>2. text[j] \in 1 .. n
      BY <1>4, <3>1
    <3> QED
      BY <3>1, <3>2
  <2>2. CASE j = i
    <3>1. new[j] = n + 1
      BY <1>1, <2>2
    <3> QED
      BY <3>1
  <2>3. CASE j > i
    <3>1. new[j] = text[j - 1] /\ j - 1 \in 1 .. n
      BY <1>1, <2>3
    <3>2. text[j - 1] \in 1 .. n
      BY <1>4, <3>1
    <3> QED
      BY <3>1, <3>2
  <2> QED
    BY <2>1, <2>2, <2>3
<1>6. ASSUME NEW x \in 1 .. (n + 1) PROVE \E j \in 1 .. (n + 1) : new[j] = x
  <2>1. CASE x = n + 1
    <3>1. new[i] = n + 1
      BY <1>1
    <3> QED
      BY <2>1, <3>1
  <2>2. CASE x \in 1 .. n
    <3>1. PICK j \in 1 .. n : text[j] = x
      BY <1>3, <2>2
    <3>2. CASE j < i
      BY <1>1, <3>1, <3>2
    <3>3. CASE j >= i
      <4>1. j + 1 \in 1 .. (n + 1) /\ ~(j + 1 < i) /\ j + 1 # i /\ j + 1 - 1 = j
        BY <3>3
      <4>2. new[j + 1] = text[j]
        BY <1>1, <4>1
      <4> QED
        BY <3>1, <4>1, <4>2
    <3> QED
      BY <3>2, <3>3
  <2> QED
    BY <2>1, <2>2
<1>7. ToSet(new) = 1 .. (n + 1)
  BY <1>2, <1>5, <1>6 DEF ToSet
<1> QED
  BY <1>1, <1>7 DEF Whole, new

LEMMA SpaceIsAdded ==
  ASSUME NEW S, NEW text \in Seq(S), NEW n \in Nat, 0 \in S, Whole(text, n)
  PROVE  Spaced(InsertAt(text, n + 1, 0), n)
<1> DEFINE new == InsertAt(text, n + 1, 0)
<1>1. /\ Len(new) = n + 1
      /\ \A j \in 1 .. (n + 1) :
            new[j] = IF j < n + 1 THEN text[j] ELSE IF j = n + 1 THEN 0 ELSE text[j - 1]
  <2>1. n + 1 \in 1 .. (Len(text) + 1)
    BY DEF Whole
  <2>2. /\ Len(InsertAt(text, n + 1, 0)) = Len(text) + 1
        /\ \A j \in 1 .. (Len(text) + 1) :
              InsertAt(text, n + 1, 0)[j] =
                 IF j < n + 1 THEN text[j] ELSE IF j = n + 1 THEN 0 ELSE text[j - 1]
    BY <2>1, InsertAtProperties
  <2> QED
    BY <2>2 DEF Whole
<1> HIDE DEF new
<1>2. new[n + 1] = 0 /\ \A j \in 1 .. n : new[j] = text[j]
  BY <1>1
<1>3. {new[i] : i \in 1 .. n} = {text[i] : i \in 1 .. n}
  BY <1>2
<1>4. DOMAIN text = 1 .. n
  BY LenProperties DEF Whole
<1> QED
  BY <1>1, <1>2, <1>3, <1>4 DEF Whole, Spaced, ToSet, new

LEMMA SpaceIsTaken ==
  ASSUME NEW S, NEW text \in Seq(S), NEW n \in Nat, Spaced(text, n)
  PROVE  Whole(RemoveAt(text, n + 1), n)
<1> DEFINE new == RemoveAt(text, n + 1)
<1>1. /\ new \in Seq(S) /\ Len(new) = n
      /\ \A j \in 1 .. n : new[j] = IF j < n + 1 THEN text[j] ELSE text[j + 1]
  <2>1. n + 1 \in 1 .. Len(text) /\ Len(text) - 1 = n
    BY DEF Spaced
  <2> QED
    BY <2>1, RemoveAtProperties
<1> HIDE DEF new
<1>2. \A j \in 1 .. n : new[j] = text[j]
  BY <1>1
<1>3. {new[i] : i \in 1 .. n} = {text[i] : i \in 1 .. n}
  BY <1>2
<1>4. DOMAIN new = 1 .. n
  BY <1>1, LenProperties
<1> QED
  BY <1>1, <1>3, <1>4 DEF Whole, Spaced, ToSet, new

\* Refreshes whose first edit, and whose second one, has been answered.
Inserted == {r \in Refreshes : refreshes[r].at \in {"inserted", "deleting", "done"}}
Deleted == {r \in Refreshes : refreshes[r].at = "done"}

\* Each of them has changed the document at most once.
VersionIsCounted == version <= typedChars + Cardinality(Inserted) + Cardinality(Deleted)

\* Undisturbed, the refresh under way has put a space at the end, or has yet to.
TextIsKept ==
    ~disturbed =>
        /\ \A q, r \in Refreshing : q = r
        /\ Refreshing = {} => Whole(chars, typedChars)
        /\ \A r \in Refreshing :
              /\ refreshes[r].pos = typedChars
              /\ refreshes[r].at \in {"inserting", "deleting"} => refreshes[r].version = version
              /\ refreshes[r].at = "inserting" => Whole(chars, typedChars)
              /\ refreshes[r].at \in {"inserted", "deleting"} => Spaced(chars, typedChars)

\* An answer is of no later version than there is; unless what is drawn is
\* behind, it is, or is about to be, of the version last asked at.
SeparatorsFollow ==
    /\ \A a \in Asks : asks[a] # None => asks[a].version <= version
    /\ ~sepTimer => asked = version
    /\ ~behind => \/ \E a \in Asks : asks[a] # None /\ asks[a].version >= asked
                  \/ separators # None /\ separators >= asked

\* An edit was made for a text there has been, and if that is the text there is,
\* the space goes to its end.
EditsFit ==
    \A r \in Refreshes :
        /\ refreshes[r].version <= version
        /\ refreshes[r].at = "inserting" /\ refreshes[r].version = version =>
              refreshes[r].pos = Len(chars)

EdInd == EdTypeOK /\ VersionIsCounted /\ TextIsKept /\ EditsFit /\ SeparatorsFollow

LEMMA RefreshesAreCounted ==
  ASSUME DecorationsAssumption
  PROVE  /\ IsFiniteSet(Refreshes) /\ Cardinality(Refreshes) \in Nat
         /\ IsFiniteSet(Inserted) /\ Cardinality(Inserted) \in Nat
         /\ Cardinality(Inserted) <= Cardinality(Refreshes)
         /\ IsFiniteSet(Deleted) /\ Cardinality(Deleted) \in Nat
         /\ Cardinality(Deleted) <= Cardinality(Refreshes)
<1>1. IsFiniteSet(Refreshes) /\ Cardinality(Refreshes) \in Nat
  BY DecorationsAssumption, FS_CardinalityType
<1>2. Inserted \subseteq Refreshes /\ Deleted \subseteq Refreshes
  BY DEF Inserted, Deleted
<1> HIDE DEF Inserted, Deleted
<1>3. /\ IsFiniteSet(Inserted) /\ Cardinality(Inserted) <= Cardinality(Refreshes)
      /\ IsFiniteSet(Deleted) /\ Cardinality(Deleted) <= Cardinality(Refreshes)
  BY <1>1, <1>2, FS_Subset
<1> QED
  BY <1>1, <1>3, FS_CardinalityType

LEMMA EdIndInit == EdInit => EdInd
<1> SUFFICES ASSUME EdInit PROVE EdInd
  OBVIOUS
<1> USE DecorationsAssumption, AskingAssumption
<1>1. /\ chars = <<>> /\ version = 0 /\ typedChars = 0
      /\ refreshes = [r \in Refreshes |-> Refresh("waiting", 0, 0)]
      /\ disturbed = FALSE /\ sepTimer = FALSE /\ separators = None /\ asked = 0
      /\ behind = FALSE /\ errorMark = FALSE
  BY DEF EdInit
<1>2. PICK a \in Asks :
        asks = [b \in Asks |-> IF a = b THEN [at |-> "asked", version |-> 0] ELSE None]
  BY DEF EdInit
<1>3. Cardinality(Refreshes) \in Nat
  BY RefreshesAreCounted
<1>4. 0 \in Stamp
  BY <1>3 DEF Stamp
<1>5. [at |-> "asked", version |-> 0] \in Asking
  BY <1>4 DEF Asking
<1>6. EdTypeOK
  <2>1. chars \in Seq(0 .. MaxTyped)
    BY <1>1, EmptySeq
  <2>2. refreshes \in [Refreshes -> [at: RefreshStages, pos: Nat, version: Stamp]]
    BY <1>1, <1>4 DEF Refresh, RefreshStages
  <2>3. asks \in [Asks -> Asking \union {None}]
    BY <1>2, <1>5
  <2>4. /\ version \in Stamp /\ typedChars \in 0 .. MaxTyped /\ asked \in 0 .. version
        /\ separators = None
    BY <1>1, <1>4
  <2>5. {disturbed, sepTimer, behind, errorMark} \subseteq BOOLEAN
    BY Zenon, <1>1
  <2>6. separators \in Stamp \union {None} /\ (separators # None => separators <= version)
    BY Zenon, <2>4
  <2> QED
    BY Zenon, <2>1, <2>2, <2>3, <2>4, <2>5, <2>6 DEF EdTypeOK
<1>7. VersionIsCounted
  BY <1>1, RefreshesAreCounted DEF VersionIsCounted
<1>8. TextIsKept
  <2>1. Refreshing = {}
    BY <1>1 DEF Refreshing, Refresh
  <2>2. Whole(chars, typedChars)
    BY <1>1 DEF Whole, ToSet
  <2> QED
    BY <2>1, <2>2 DEF TextIsKept
<1>9. SeparatorsFollow
  BY <1>1, <1>2, <1>5 DEF SeparatorsFollow
<1>10. EditsFit
  BY <1>1 DEF EditsFit, Refresh
<1> QED
  BY <1>6, <1>7, <1>8, <1>9, <1>10 DEF EdInd

\* The numbers a state is made of.
LEMMA EdNumbers ==
  ASSUME DecorationsAssumption, EdInd
  PROVE  /\ MaxTyped \in Nat /\ version \in Nat /\ typedChars \in Nat /\ asked \in Nat
         /\ Cardinality(Refreshes) \in Nat /\ Cardinality(Inserted) \in Nat
         /\ Cardinality(Deleted) \in Nat
         /\ Stamp = 0 .. (MaxTyped + 2 * Cardinality(Refreshes))
<1>1. version \in Stamp /\ typedChars \in 0 .. MaxTyped /\ asked \in 0 .. version
  BY Zenon DEF EdInd, EdTypeOK
<1>2. MaxTyped \in Nat
  BY DecorationsAssumption
<1>3. Cardinality(Refreshes) \in Nat /\ Cardinality(Inserted) \in Nat /\ Cardinality(Deleted) \in Nat
  BY RefreshesAreCounted
<1>4. version \in Nat
  BY <1>1, <1>2, <1>3 DEF Stamp
<1> QED
  BY <1>1, <1>2, <1>3, <1>4 DEF Stamp

\* A change of the text keeps what is known of the separators: a timer is set.
LEMMA ChangesKeepSeparators ==
  ASSUME DecorationsAssumption, EdInd, NEW new, Changes(new)
  PROVE  /\ separators' \in Stamp \union {None} /\ (separators # None => separators <= version)'
         /\ asked' \in 0 .. version'
         /\ asks' \in [Asks -> Asking \union {None}]
         /\ {sepTimer, behind, errorMark}' \subseteq BOOLEAN
         /\ SeparatorsFollow'
<1>1. /\ version' = version + 1 /\ sepTimer' = TRUE /\ errorMark' = FALSE
      /\ asks' = asks /\ separators' = separators /\ asked' = asked /\ behind' = behind
  BY DEF Changes, asking
<1>2. /\ separators \in Stamp \union {None} /\ (separators # None => separators <= version)
      /\ asked \in 0 .. version
      /\ asks \in [Asks -> Asking \union {None}]
      /\ {disturbed, sepTimer, behind, errorMark} \subseteq BOOLEAN
  BY Zenon DEF EdInd, EdTypeOK
<1>3. /\ version \in Nat /\ Stamp \subseteq Nat
  BY EdNumbers
<1>4. {sepTimer, behind, errorMark}' \subseteq BOOLEAN
  BY Zenon, <1>1, <1>2
<1>5. (separators # None => separators <= version)' /\ asked' \in 0 .. version'
  BY <1>1, <1>2, <1>3
<1>6. SeparatorsFollow'
  <2>1. /\ \A a \in Asks : asks[a] # None => asks[a].version <= version
        /\ ~behind => \/ \E a \in Asks : asks[a] # None /\ asks[a].version >= asked
                      \/ separators # None /\ separators >= asked
    BY DEF EdInd, SeparatorsFollow
  <2>2. ASSUME NEW a \in Asks, asks[a] # None PROVE asks[a].version <= version + 1
    <3>1. asks[a] \in Asking
      BY <1>2, <2>2
    <3>2. asks[a].version \in Nat
      BY <1>3, <3>1 DEF Asking
    <3> QED
      BY <1>3, <2>1, <2>2, <3>2
  <2> QED
    BY <1>1, <2>1, <2>2 DEF SeparatorsFollow
<1>7. Stamp' = Stamp /\ separators' \in Stamp \union {None}
  BY <1>1, <1>2 DEF Stamp
<1> QED
  BY <1>1, <1>2, <1>4, <1>5, <1>6, <1>7

\* A step that leaves the text alone keeps it whole, as long as refreshes do not
\* take part.
LEMMA TextStays ==
  ASSUME EdInd, UNCHANGED <<chars, version, typedChars, refreshes, disturbed>>
  PROVE  VersionIsCounted' /\ TextIsKept' /\ EditsFit'
<1>1. VersionIsCounted' /\ TextIsKept'
  BY DEF EdInd, VersionIsCounted, TextIsKept, Inserted, Deleted, Refreshing, Whole, Spaced, ToSet
<1>2. EditsFit'
  BY DEF EdInd, EditsFit
<1> QED
  BY <1>1, <1>2

\* No edit is made for the text that a change leaves.
LEMMA OldEditsMissTheNewText ==
  ASSUME DecorationsAssumption, EdInd, version' = version + 1,
         \A r \in Refreshes :
            refreshes'[r].version = refreshes[r].version \/ refreshes'[r].version = 0
  PROVE  EditsFit'
<1>1. version \in Nat /\ Stamp \subseteq Nat
  BY EdNumbers
<1>2. refreshes \in [Refreshes -> [at: RefreshStages, pos: Nat, version: Stamp]]
  BY Zenon DEF EdInd, EdTypeOK
<1>3. ASSUME NEW r \in Refreshes
      PROVE  refreshes'[r].version <= version' /\ refreshes'[r].version # version'
  <2>1. refreshes[r].version \in Nat /\ refreshes[r].version <= version
    BY <1>1, <1>2 DEF EdInd, EditsFit
  <2> QED
    BY <1>1, <2>1
<1> QED
  BY <1>3 DEF EditsFit

\* A step that leaves versions and requests alone keeps the separators.
LEMMA SeparatorsStay ==
  ASSUME EdInd, UNCHANGED <<version, sepTimer, asking>>
  PROVE  SeparatorsFollow'
BY DEF EdInd, SeparatorsFollow, asking

\* A character typed at either end: the text is disturbed if a refresh is under
\* way, and whole otherwise.
LEMMA EdIndType ==
  ASSUME DecorationsAssumption, EdInd, Type
  PROVE  EdInd'
<1>1. /\ typedChars < MaxTyped /\ typedChars' = typedChars + 1
      /\ disturbed' = (disturbed \/ Refreshing # {}) /\ refreshes' = refreshes
  BY DEF Type
<1>2. PICK i \in {1, Len(chars) + 1} : Changes(InsertAt(chars, i, typedChars + 1))
  BY DEF Type
<1>3. /\ chars \in Seq(0 .. MaxTyped) /\ typedChars \in 0 .. MaxTyped
      /\ refreshes \in [Refreshes -> [at: RefreshStages, pos: Nat, version: Stamp]]
      /\ {disturbed, sepTimer, behind, errorMark} \subseteq BOOLEAN
  BY Zenon DEF EdInd, EdTypeOK
<1>4. /\ MaxTyped \in Nat /\ version \in Nat /\ typedChars \in Nat
      /\ Cardinality(Refreshes) \in Nat /\ Cardinality(Inserted) \in Nat
      /\ Cardinality(Deleted) \in Nat
      /\ Stamp = 0 .. (MaxTyped + 2 * Cardinality(Refreshes))
  BY EdNumbers
<1>5. chars' = InsertAt(chars, i, typedChars + 1) /\ version' = version + 1
  BY <1>2 DEF Changes
<1>6. Len(chars) \in Nat /\ i \in 1 .. (Len(chars) + 1)
  BY <1>3, LenProperties
<1>7. chars' \in Seq(0 .. MaxTyped)
  <2>1. typedChars + 1 \in 0 .. MaxTyped
    BY <1>1, <1>3, <1>4
  <2> QED
    BY <1>3, <1>5, <1>6, <2>1, InsertAtProperties
<1>8. VersionIsCounted' /\ version' \in Stamp
  <2>1. Inserted' = Inserted /\ Deleted' = Deleted
    BY <1>1 DEF Inserted, Deleted
  <2>2. version <= typedChars + Cardinality(Inserted) + Cardinality(Deleted)
    BY DEF EdInd, VersionIsCounted
  <2>3. Cardinality(Inserted) <= Cardinality(Refreshes) /\ Cardinality(Deleted) <= Cardinality(Refreshes)
    BY RefreshesAreCounted
  <2>4. version' <= typedChars' + Cardinality(Inserted') + Cardinality(Deleted')
    BY <1>1, <1>4, <1>5, <2>1, <2>2
  <2>5. version + 1 \in 0 .. (MaxTyped + 2 * Cardinality(Refreshes))
    BY <1>1, <1>4, <2>2, <2>3
  <2> QED
    BY <1>4, <1>5, <2>4, <2>5 DEF VersionIsCounted
<1>9. TextIsKept'
  <2>1. SUFFICES ASSUME ~disturbed' PROVE TextIsKept'
    BY DEF TextIsKept
  <2>2. ~disturbed /\ Refreshing = {}
    BY <1>1, <2>1
  <2>3. Refreshing' = {}
    BY <1>1, <2>2 DEF Refreshing
  <2>4. Whole(chars, typedChars)
    BY <2>2 DEF EdInd, TextIsKept
  <2>5. i \in 1 .. (typedChars + 1)
    BY <1>6, <2>4 DEF Whole
  <2>6. typedChars + 1 \in 0 .. MaxTyped
    BY <1>1, <1>4
  <2>7. Whole(InsertAt(chars, i, typedChars + 1), typedChars + 1)
    BY <1>3, <1>4, <2>4, <2>5, <2>6, TypingKeepsWhole
  <2>8. Whole(chars', typedChars')
    BY <1>1, <1>5, <2>7
  <2> QED
    BY <2>3, <2>8 DEF TextIsKept, Whole, ToSet
<1>10. EdTypeOK' /\ SeparatorsFollow'
  <2>1. /\ separators' \in Stamp \union {None} /\ (separators # None => separators <= version)'
        /\ asked' \in 0 .. version'
        /\ asks' \in [Asks -> Asking \union {None}]
        /\ {sepTimer, behind, errorMark}' \subseteq BOOLEAN
        /\ SeparatorsFollow'
    BY <1>2, ChangesKeepSeparators
  <2>2. typedChars' \in 0 .. MaxTyped
    BY <1>1, <1>4
  <2>3. {disturbed, sepTimer, behind, errorMark}' \subseteq BOOLEAN
    BY Zenon, <1>1, <2>1
  <2> QED
    BY Zenon, <1>1, <1>3, <1>7, <1>8, <2>1, <2>2, <2>3 DEF EdTypeOK, Stamp, Asking
<1>11. EditsFit'
  BY <1>1, <1>5, OldEditsMissTheNewText
<1> QED
  BY <1>8, <1>9, <1>10, <1>11 DEF EdInd

LEMMA EdIndMarkError ==
  ASSUME EdInd, MarkError
  PROVE  EdInd'
<1>1. /\ errorMark' = TRUE
      /\ UNCHANGED <<chars, version, typedChars, refreshes, disturbed, sepTimer, asking>>
  BY DEF MarkError
<1>2. VersionIsCounted' /\ TextIsKept' /\ EditsFit'
  BY <1>1, TextStays
<1>3. SeparatorsFollow'
  BY <1>1, SeparatorsStay
<1>4. EdTypeOK'
  BY Zenon, <1>1 DEF EdInd, EdTypeOK, asking, Stamp, Asking
<1> QED
  BY <1>2, <1>3, <1>4 DEF EdInd

\* A refresh starts at the end of the text, which is whole if it is the only one.
LEMMA EdIndStartRefresh ==
  ASSUME DecorationsAssumption, EdInd, NEW r \in Refreshes, StartRefresh(r)
  PROVE  EdInd'
<1>1. /\ refreshes[r].at = "waiting"
      /\ refreshes' = [refreshes EXCEPT ![r] = Refresh("inserting", Len(chars), version)]
      /\ disturbed' = (disturbed \/ Refreshing # {})
      /\ UNCHANGED <<chars, version, typedChars, sepTimer, asking, errorMark>>
  BY DEF StartRefresh, RefreshGoes
<1>2. /\ chars \in Seq(0 .. MaxTyped) /\ version \in Stamp
      /\ refreshes \in [Refreshes -> [at: RefreshStages, pos: Nat, version: Stamp]]
      /\ {disturbed, sepTimer, behind, errorMark} \subseteq BOOLEAN
  BY Zenon DEF EdInd, EdTypeOK
<1>3. Len(chars) \in Nat
  BY <1>2, LenProperties
<1>4. /\ refreshes'[r] = [at |-> "inserting", pos |-> Len(chars), version |-> version]
      /\ \A q \in Refreshes : q # r => refreshes'[q] = refreshes[q]
  BY <1>1, <1>2 DEF Refresh
<1>5. refreshes' \in [Refreshes -> [at: RefreshStages, pos: Nat, version: Stamp]]
  BY <1>1, <1>2, <1>3 DEF Refresh, RefreshStages
<1>6. EdTypeOK'
  <2>1. sepTimer' = sepTimer /\ behind' = behind /\ errorMark' = errorMark
    BY <1>1 DEF asking
  <2>2. disturbed' \in BOOLEAN
    BY Zenon, <1>1
  <2>3. {disturbed, sepTimer, behind, errorMark}' \subseteq BOOLEAN
    BY Zenon, <1>2, <2>1, <2>2
  <2> QED
    BY Zenon, <1>1, <1>5, <2>3 DEF EdInd, EdTypeOK, asking, Stamp, Asking
<1>7. VersionIsCounted'
  <2>1. Inserted' = Inserted /\ Deleted' = Deleted
    BY <1>1, <1>4 DEF Inserted, Deleted
  <2> QED
    BY <1>1, <2>1 DEF EdInd, VersionIsCounted
<1>8. TextIsKept'
  <2>1. SUFFICES ASSUME ~disturbed' PROVE TextIsKept'
    BY DEF TextIsKept
  <2>2. ~disturbed /\ Refreshing = {}
    BY <1>1, <2>1
  <2>3. Refreshing' = {r}
    BY <1>4, <2>2 DEF Refreshing
  <2>4. Whole(chars, typedChars)
    BY <2>2 DEF EdInd, TextIsKept
  <2>5. Len(chars) = typedChars /\ Whole(chars, typedChars)'
    BY <1>1, <2>4 DEF Whole, ToSet
  <2> QED
    BY <1>1, <1>4, <2>3, <2>5 DEF TextIsKept
<1>9. SeparatorsFollow'
  BY <1>1, SeparatorsStay
<1>10. EditsFit'
  <2>1. version \in Nat
    BY EdNumbers
  <2>2. \A q \in Refreshes : q # r =>
            /\ refreshes[q].version <= version
            /\ refreshes[q].at = "inserting" /\ refreshes[q].version = version =>
                  refreshes[q].pos = Len(chars)
    BY DEF EdInd, EditsFit
  <2> QED
    BY <1>1, <1>4, <2>1, <2>2 DEF EditsFit
<1> QED
  BY <1>6, <1>7, <1>8, <1>9, <1>10 DEF EdInd

\* The edit of the only refresh was made for the text there is, so it lands: the
\* text has a space after it.
LEMMA EdIndLandInsert ==
  ASSUME DecorationsAssumption, EdInd, NEW r \in Refreshes, LandInsert(r)
  PROVE  EdInd'
<1>1. /\ refreshes[r].at = "inserting"
      /\ refreshes' = [refreshes EXCEPT ![r].at = "inserted"]
      /\ UNCHANGED <<typedChars, disturbed>>
  BY DEF LandInsert
<1>2. /\ chars \in Seq(0 .. MaxTyped) /\ version \in Stamp /\ typedChars \in 0 .. MaxTyped
      /\ refreshes \in [Refreshes -> [at: RefreshStages, pos: Nat, version: Stamp]]
      /\ {disturbed, sepTimer, behind, errorMark} \subseteq BOOLEAN
  BY Zenon DEF EdInd, EdTypeOK
<1>3. /\ MaxTyped \in Nat /\ version \in Nat /\ typedChars \in Nat
      /\ Cardinality(Refreshes) \in Nat /\ Cardinality(Inserted) \in Nat
      /\ Cardinality(Deleted) \in Nat
      /\ Stamp = 0 .. (MaxTyped + 2 * Cardinality(Refreshes))
  BY EdNumbers
<1>4. /\ refreshes'[r].at = "inserted" /\ refreshes'[r].pos = refreshes[r].pos
      /\ refreshes'[r].version = refreshes[r].version
      /\ \A q \in Refreshes : q # r => refreshes'[q] = refreshes[q]
  BY <1>1, <1>2
<1>5. refreshes' \in [Refreshes -> [at: RefreshStages, pos: Nat, version: Stamp]]
  <2>1. refreshes[r] \in [at: RefreshStages, pos: Nat, version: Stamp]
    BY <1>2
  <2>2. [refreshes[r] EXCEPT !.at = "inserted"] \in [at: RefreshStages, pos: Nat, version: Stamp]
    BY <2>1 DEF RefreshStages
  <2> QED
    BY <1>1, <1>2, <2>2
<1>6. /\ Deleted' = Deleted /\ Inserted' = Inserted \union {r}
      /\ Cardinality(Inserted') = Cardinality(Inserted) + 1
  <2>1. Deleted' = Deleted /\ Inserted' = Inserted \union {r} /\ r \notin Inserted
    BY <1>1, <1>4 DEF Inserted, Deleted
  <2>2. IsFiniteSet(Inserted)
    BY RefreshesAreCounted
  <2> HIDE DEF Inserted, Deleted
  <2>3. Cardinality(Inserted \union {r}) = Cardinality(Inserted) + 1
    BY <2>1, <2>2, FS_AddElement
  <2> QED
    BY <2>1, <2>3
<1>7. /\ version <= typedChars + Cardinality(Inserted) + Cardinality(Deleted)
      /\ Cardinality(Inserted) + 1 <= Cardinality(Refreshes)
      /\ Cardinality(Deleted) <= Cardinality(Refreshes)
  <2>1. Inserted \union {r} \subseteq Refreshes
    BY DEF Inserted
  <2>2. Cardinality(Inserted \union {r}) <= Cardinality(Refreshes)
    BY <2>1, RefreshesAreCounted, FS_Subset
  <2>3. version <= typedChars + Cardinality(Inserted) + Cardinality(Deleted)
    BY DEF EdInd, VersionIsCounted
  <2> QED
    BY <1>6, <2>2, <2>3, RefreshesAreCounted
<1>8. Refreshing' = Refreshing /\ r \in Refreshing
  BY <1>1, <1>4 DEF Refreshing
<1>9. CASE refreshes[r].version = version
  <2>1. Changes(InsertAt(chars, refreshes[r].pos + 1, 0))
    BY <1>9 DEF LandInsert
  <2>2. chars' = InsertAt(chars, refreshes[r].pos + 1, 0) /\ version' = version + 1
    BY <2>1 DEF Changes
  <2>3. VersionIsCounted' /\ version' \in Stamp
    BY <1>1, <1>2, <1>3, <1>6, <1>7, <2>2, SMTT(30) DEF VersionIsCounted
  <2>4. chars' \in Seq(0 .. MaxTyped)
    <3>1. refreshes[r].pos = Len(chars) /\ Len(chars) \in Nat
      BY <1>1, <1>2, <1>9, LenProperties DEF EdInd, EditsFit
    <3>2. Len(chars) + 1 \in 1 .. (Len(chars) + 1) /\ 0 \in 0 .. MaxTyped
      BY <1>3, <3>1
    <3> QED
      BY <1>2, <2>2, <3>1, <3>2, InsertAtProperties
  <2>5. TextIsKept'
    <3>1. SUFFICES ASSUME ~disturbed' PROVE TextIsKept'
      BY DEF TextIsKept
    <3>2. /\ \A q, s \in Refreshing : q = s
          /\ refreshes[r].pos = typedChars /\ Whole(chars, typedChars)
      BY <1>1, <1>8, <3>1 DEF EdInd, TextIsKept
    <3>3. 0 \in 0 .. MaxTyped
      BY <1>3
    <3>4. Spaced(InsertAt(chars, typedChars + 1, 0), typedChars)
      BY <1>2, <1>3, <3>2, <3>3, SpaceIsAdded
    <3>5. Spaced(chars, typedChars)'
      BY <1>1, <2>2, <3>2, <3>4 DEF Spaced
    <3> QED
      BY <1>1, <1>4, <1>8, <3>2, <3>5 DEF TextIsKept
  <2>6. /\ separators' \in Stamp \union {None} /\ (separators # None => separators <= version)'
        /\ asked' \in 0 .. version'
        /\ asks' \in [Asks -> Asking \union {None}]
        /\ {sepTimer, behind, errorMark}' \subseteq BOOLEAN
        /\ SeparatorsFollow'
    BY <2>1, ChangesKeepSeparators
  <2>7. {disturbed, sepTimer, behind, errorMark}' \subseteq BOOLEAN
    BY Zenon, <1>1, <1>2, <2>6
  <2>8. EdTypeOK'
    BY Zenon, <1>1, <1>2, <1>5, <2>3, <2>4, <2>6, <2>7 DEF EdTypeOK, Stamp, Asking
  <2>9. EditsFit'
    <3>1. \A q \in Refreshes : refreshes'[q].version = refreshes[q].version
      BY <1>4
    <3> QED
      BY <2>2, <3>1, OldEditsMissTheNewText
  <2> QED
    BY <2>3, <2>5, <2>6, <2>8, <2>9 DEF EdInd
<1>10. CASE refreshes[r].version # version
  <2>1. UNCHANGED <<chars, version, sepTimer, errorMark, asking>>
    BY <1>10 DEF LandInsert
  <2>2. EdTypeOK'
    BY Zenon, <1>1, <1>5, <2>1 DEF EdInd, EdTypeOK, asking, Stamp, Asking
  <2>3. VersionIsCounted'
    BY <1>1, <1>3, <1>6, <1>7, <2>1 DEF VersionIsCounted
  <2>4. TextIsKept'
    <3>1. disturbed
      BY <1>1, <1>8, <1>10 DEF EdInd, TextIsKept
    <3> QED
      BY <1>1, <3>1 DEF TextIsKept
  <2>5. SeparatorsFollow'
    BY <2>1, SeparatorsStay
  <2>6. EditsFit'
    <3>1. \A q \in Refreshes : refreshes[q].version <= version
      BY DEF EdInd, EditsFit
    <3>2. \A q \in Refreshes : q # r /\ refreshes[q].at = "inserting" /\
              refreshes[q].version = version => refreshes[q].pos = Len(chars)
      BY DEF EdInd, EditsFit
    <3>3. ASSUME NEW q \in Refreshes
          PROVE  /\ refreshes'[q].version <= version
                 /\ refreshes'[q].at = "inserting" /\ refreshes'[q].version = version =>
                       refreshes'[q].pos = Len(chars)
      <4>1. CASE q = r
        BY <1>4, <3>1, <4>1
      <4>2. CASE q # r
        BY <1>4, <3>1, <3>2, <4>2
      <4> QED
        BY <4>1, <4>2
    <3> QED
      BY <2>1, <3>3 DEF EditsFit
  <2> QED
    BY <2>2, <2>3, <2>4, <2>5, <2>6 DEF EdInd
<1> QED
  BY <1>9, <1>10

LEMMA EdIndSendDelete ==
  ASSUME DecorationsAssumption, EdInd, NEW r \in Refreshes, SendDelete(r)
  PROVE  EdInd'
<1>1. /\ refreshes[r].at = "inserted"
      /\ refreshes' = [refreshes EXCEPT ![r] = Refresh("deleting", refreshes[r].pos, version)]
      /\ UNCHANGED <<chars, version, typedChars, disturbed, sepTimer, asking, errorMark>>
  BY DEF SendDelete, RefreshGoes
<1>2. /\ version \in Stamp
      /\ refreshes \in [Refreshes -> [at: RefreshStages, pos: Nat, version: Stamp]]
  BY Zenon DEF EdInd, EdTypeOK
<1>3. /\ refreshes'[r] = [at |-> "deleting", pos |-> refreshes[r].pos, version |-> version]
      /\ \A q \in Refreshes : q # r => refreshes'[q] = refreshes[q]
  BY <1>1, <1>2 DEF Refresh
<1>4. refreshes' \in [Refreshes -> [at: RefreshStages, pos: Nat, version: Stamp]]
  BY <1>1, <1>2 DEF Refresh, RefreshStages
<1>5. EdTypeOK'
  BY Zenon, <1>1, <1>4 DEF EdInd, EdTypeOK, asking, Stamp, Asking
<1>6. VersionIsCounted'
  <2>1. Inserted' = Inserted /\ Deleted' = Deleted
    BY <1>1, <1>3 DEF Inserted, Deleted
  <2> QED
    BY <1>1, <2>1 DEF EdInd, VersionIsCounted
<1>7. TextIsKept'
  <2>1. SUFFICES ASSUME ~disturbed' PROVE TextIsKept'
    BY DEF TextIsKept
  <2>2. Refreshing' = Refreshing /\ r \in Refreshing
    BY <1>1, <1>3 DEF Refreshing
  <2>3. /\ \A q, s \in Refreshing : q = s
        /\ refreshes[r].pos = typedChars /\ Spaced(chars, typedChars)
    BY <1>1, <2>1, <2>2 DEF EdInd, TextIsKept
  <2>4. Spaced(chars, typedChars)'
    BY <1>1, <2>3 DEF Spaced
  <2> QED
    BY <1>1, <1>3, <2>2, <2>3, <2>4 DEF TextIsKept
<1>8. SeparatorsFollow'
  BY <1>1, SeparatorsStay
<1>9. EditsFit'
  <2>1. version \in Nat
    BY EdNumbers
  <2>2. \A q \in Refreshes : q # r =>
            /\ refreshes[q].version <= version
            /\ refreshes[q].at = "inserting" /\ refreshes[q].version = version =>
                  refreshes[q].pos = Len(chars)
    BY DEF EdInd, EditsFit
  <2> QED
    BY <1>1, <1>3, <2>1, <2>2 DEF EditsFit
<1> QED
  BY <1>5, <1>6, <1>7, <1>8, <1>9 DEF EdInd

\* What is taken back by the only refresh is the space, so the text is whole again.
LEMMA EdIndLandDelete ==
  ASSUME DecorationsAssumption, EdInd, NEW r \in Refreshes, LandDelete(r)
  PROVE  EdInd'
<1>1. /\ refreshes[r].at = "deleting"
      /\ refreshes' = [refreshes EXCEPT ![r] = Refresh("done", 0, 0)]
      /\ UNCHANGED <<typedChars, disturbed>>
  BY DEF LandDelete
<1>2. /\ chars \in Seq(0 .. MaxTyped) /\ version \in Stamp /\ typedChars \in 0 .. MaxTyped
      /\ refreshes \in [Refreshes -> [at: RefreshStages, pos: Nat, version: Stamp]]
      /\ {disturbed, sepTimer, behind, errorMark} \subseteq BOOLEAN
  BY Zenon DEF EdInd, EdTypeOK
<1>3. /\ MaxTyped \in Nat /\ version \in Nat /\ typedChars \in Nat
      /\ Cardinality(Refreshes) \in Nat /\ Cardinality(Inserted) \in Nat
      /\ Cardinality(Deleted) \in Nat
      /\ Stamp = 0 .. (MaxTyped + 2 * Cardinality(Refreshes))
  BY EdNumbers
<1>4. /\ refreshes'[r] = [at |-> "done", pos |-> 0, version |-> 0]
      /\ \A q \in Refreshes : q # r => refreshes'[q] = refreshes[q]
  BY <1>1, <1>2 DEF Refresh
<1>5. refreshes' \in [Refreshes -> [at: RefreshStages, pos: Nat, version: Stamp]]
  <2>1. 0 \in Stamp
    BY <1>3
  <2> QED
    BY <1>1, <1>2, <2>1 DEF Refresh, RefreshStages
<1>6. /\ Inserted' = Inserted /\ Deleted' = Deleted \union {r}
      /\ Cardinality(Deleted') = Cardinality(Deleted) + 1
  <2>1. Inserted' = Inserted /\ Deleted' = Deleted \union {r} /\ r \notin Deleted
    BY <1>1, <1>4 DEF Inserted, Deleted
  <2>2. IsFiniteSet(Deleted)
    BY RefreshesAreCounted
  <2> HIDE DEF Inserted, Deleted
  <2>3. Cardinality(Deleted \union {r}) = Cardinality(Deleted) + 1
    BY <2>1, <2>2, FS_AddElement
  <2> QED
    BY <2>1, <2>3
<1>7. /\ version <= typedChars + Cardinality(Inserted) + Cardinality(Deleted)
      /\ Cardinality(Inserted) <= Cardinality(Refreshes)
      /\ Cardinality(Deleted) + 1 <= Cardinality(Refreshes)
  <2>1. Deleted \union {r} \subseteq Refreshes
    BY DEF Deleted
  <2>2. Cardinality(Deleted \union {r}) <= Cardinality(Refreshes)
    BY <2>1, RefreshesAreCounted, FS_Subset
  <2>3. version <= typedChars + Cardinality(Inserted) + Cardinality(Deleted)
    BY DEF EdInd, VersionIsCounted
  <2> QED
    BY <1>6, <2>2, <2>3, RefreshesAreCounted
<1>8. Refreshing' = Refreshing \ {r} /\ r \in Refreshing
  BY <1>1, <1>4 DEF Refreshing
<1>9. CASE refreshes[r].version = version
  <2>1. Changes(Restored(refreshes[r].pos))
    BY <1>9 DEF LandDelete
  <2>2. chars' = Restored(refreshes[r].pos) /\ version' = version + 1
    BY <2>1 DEF Changes
  <2>3. VersionIsCounted' /\ version' \in Stamp
    BY <1>1, <1>2, <1>3, <1>6, <1>7, <2>2, SMTT(30) DEF VersionIsCounted
  <2>4. chars' \in Seq(0 .. MaxTyped)
    <3>1. CASE refreshes[r].pos + 1 \in DOMAIN chars
      <4>1. refreshes[r].pos + 1 \in 1 .. Len(chars)
        BY <1>2, <3>1, LenProperties
      <4> QED
        BY <1>2, <2>2, <3>1, <4>1, RemoveAtProperties DEF Restored
    <3>2. CASE refreshes[r].pos + 1 \notin DOMAIN chars
      BY <1>2, <2>2, <3>2 DEF Restored
    <3> QED
      BY <3>1, <3>2
  <2>5. TextIsKept'
    <3>1. SUFFICES ASSUME ~disturbed' PROVE TextIsKept'
      BY DEF TextIsKept
    <3>2. /\ \A q, s \in Refreshing : q = s
          /\ refreshes[r].pos = typedChars /\ Spaced(chars, typedChars)
      BY <1>1, <1>8, <3>1 DEF EdInd, TextIsKept
    <3>3. Refreshing' = {}
      BY <1>8, <3>2
    <3>4. typedChars + 1 \in DOMAIN chars
      BY <1>2, <1>3, <3>2, LenProperties DEF Spaced
    <3>5. Whole(RemoveAt(chars, typedChars + 1), typedChars)
      BY <1>2, <1>3, <3>2, SpaceIsTaken
    <3>6. chars' = RemoveAt(chars, typedChars + 1)
      BY <2>2, <3>2, <3>4 DEF Restored
    <3>7. Whole(chars, typedChars)'
      BY <1>1, <3>5, <3>6 DEF Whole, ToSet
    <3> QED
      BY <3>3, <3>7 DEF TextIsKept
  <2>6. /\ separators' \in Stamp \union {None} /\ (separators # None => separators <= version)'
        /\ asked' \in 0 .. version'
        /\ asks' \in [Asks -> Asking \union {None}]
        /\ {sepTimer, behind, errorMark}' \subseteq BOOLEAN
        /\ SeparatorsFollow'
    BY <2>1, ChangesKeepSeparators
  <2>7. {disturbed, sepTimer, behind, errorMark}' \subseteq BOOLEAN
    BY Zenon, <1>1, <1>2, <2>6
  <2>8. EdTypeOK'
    BY Zenon, <1>1, <1>2, <1>5, <2>3, <2>4, <2>6, <2>7 DEF EdTypeOK, Stamp, Asking
  <2>9. EditsFit'
    <3>1. \A q \in Refreshes :
             refreshes'[q].version = refreshes[q].version \/ refreshes'[q].version = 0
      BY <1>4
    <3> QED
      BY <2>2, <3>1, OldEditsMissTheNewText
  <2> QED
    BY <2>3, <2>5, <2>6, <2>8, <2>9 DEF EdInd
<1>10. CASE refreshes[r].version # version
  <2>1. UNCHANGED <<chars, version, sepTimer, errorMark, asking>>
    BY <1>10 DEF LandDelete
  <2>2. EdTypeOK'
    BY Zenon, <1>1, <1>5, <2>1 DEF EdInd, EdTypeOK, asking, Stamp, Asking
  <2>3. VersionIsCounted'
    BY <1>1, <1>3, <1>6, <1>7, <2>1 DEF VersionIsCounted
  <2>4. TextIsKept'
    <3>1. disturbed
      BY <1>1, <1>8, <1>10 DEF EdInd, TextIsKept
    <3> QED
      BY <1>1, <3>1 DEF TextIsKept
  <2>5. SeparatorsFollow'
    BY <2>1, SeparatorsStay
  <2>6. EditsFit'
    <3>1. \A q \in Refreshes : q # r =>
              /\ refreshes[q].version <= version
              /\ refreshes[q].at = "inserting" /\ refreshes[q].version = version =>
                    refreshes[q].pos = Len(chars)
      BY DEF EdInd, EditsFit
    <3> QED
      BY <1>3, <1>4, <2>1, <3>1 DEF EditsFit
  <2> QED
    BY <2>2, <2>3, <2>4, <2>5, <2>6 DEF EdInd
<1> QED
  BY <1>9, <1>10

\* The steps of separators: the text is left alone.
LEMMA EdIndSeparators ==
  ASSUME DecorationsAssumption, AskingAssumption, EdInd, NEW a \in Asks,
         SepTimerFires(a) \/ RangesAnswered(a) \/ DrawSeparators(a) \/ NoSeparators(a)
  PROVE  EdInd'
<1>1. UNCHANGED <<chars, version, typedChars, refreshes, disturbed, errorMark>>
  BY Zenon DEF SepTimerFires, RangesAnswered, DrawSeparators, NoSeparators
<1>2. /\ version \in Stamp /\ asks \in [Asks -> Asking \union {None}]
      /\ separators \in Stamp \union {None} /\ (separators # None => separators <= version)
      /\ asked \in 0 .. version
      /\ {disturbed, sepTimer, behind, errorMark} \subseteq BOOLEAN
  BY Zenon DEF EdInd, EdTypeOK
<1>3. /\ version \in Nat /\ asked \in Nat /\ Stamp = 0 .. (MaxTyped + 2 * Cardinality(Refreshes))
      /\ MaxTyped \in Nat /\ Cardinality(Refreshes) \in Nat
  BY EdNumbers
<1>4. /\ \A b \in Asks : asks[b] # None => asks[b].version <= version
      /\ ~sepTimer => asked = version
      /\ ~behind => \/ \E b \in Asks : asks[b] # None /\ asks[b].version >= asked
                    \/ separators # None /\ separators >= asked
  BY DEF EdInd, SeparatorsFollow
<1>5. \A b \in Asks : asks[b] # None =>
          asks[b] \in Asking /\ asks[b].version \in Stamp /\ asks[b].version \in Nat
  BY <1>2, <1>3 DEF Asking
<1>6. VersionIsCounted' /\ TextIsKept' /\ EditsFit'
  BY <1>1, TextStays
<1>7. ASSUME asks' \in [Asks -> Asking \union {None}],
             separators' \in Stamp \union {None}, separators' # None => separators' <= version,
             asked' \in 0 .. version, {sepTimer, behind}' \subseteq BOOLEAN
      PROVE  EdTypeOK'
  <2>1. {disturbed, sepTimer, behind, errorMark}' \subseteq BOOLEAN
    BY Zenon, <1>1, <1>2, <1>7
  <2> QED
    BY Zenon, <1>1, <1>7, <2>1 DEF EdInd, EdTypeOK, Stamp, Asking
<1>8. CASE SepTimerFires(a)
  <2>1. /\ asks[a] = None /\ sepTimer' = FALSE /\ asked' = version
        /\ asks' = [asks EXCEPT ![a] = [at |-> "asked", version |-> version]]
        /\ UNCHANGED <<separators, behind>>
    BY <1>8 DEF SepTimerFires
  <2>2. [at |-> "asked", version |-> version] \in Asking
    BY <1>2 DEF Asking
  <2>3. asks' \in [Asks -> Asking \union {None}]
    BY <1>2, <2>1, <2>2
  <2>4. EdTypeOK'
    <3>1. asked' \in 0 .. version
      BY <1>3, <2>1
    <3>2. {sepTimer, behind}' \subseteq BOOLEAN
      BY Zenon, <1>2, <2>1
    <3>3. separators' \in Stamp \union {None} /\ (separators' # None => separators' <= version)
      BY Zenon, <1>2, <2>1
    <3> QED
      BY Zenon, <1>7, <2>3, <3>1, <3>2, <3>3
  <2>5. /\ asks'[a].version = version /\ asks'[a] # None
        /\ \A b \in Asks : b # a => asks'[b] = asks[b]
    BY AskingAssumption, <1>2, <2>1, <2>2
  <2>6. SeparatorsFollow'
    BY <1>1, <1>3, <1>4, <2>1, <2>5 DEF SeparatorsFollow
  <2> QED
    BY <1>6, <2>4, <2>6 DEF EdInd
<1>9. CASE RangesAnswered(a)
  <2>1. /\ asks[a] # None /\ UNCHANGED <<sepTimer, separators, asked, behind>>
    BY <1>9 DEF RangesAnswered
  <2>2. PICK v \in asks[a].version .. version :
            asks' = [asks EXCEPT ![a] = [at |-> "answered", version |-> v]]
    BY <1>9 DEF RangesAnswered
  <2>3. v \in Stamp /\ v \in Nat /\ asks[a].version <= v /\ v <= version
    BY <1>2, <1>3, <1>5, <2>1, <2>2
  <2>4. [at |-> "answered", version |-> v] \in Asking
    BY <2>3 DEF Asking
  <2>5. asks' \in [Asks -> Asking \union {None}]
    BY <1>2, <2>2, <2>4
  <2>6. EdTypeOK'
    <3>1. {sepTimer, behind}' \subseteq BOOLEAN
      BY Zenon, <1>2, <2>1
    <3> QED
      BY Zenon, <1>2, <1>7, <2>1, <2>5, <3>1
  <2>7. /\ asks'[a].version = v /\ asks'[a] # None
        /\ \A b \in Asks : b # a => asks'[b] = asks[b]
    BY AskingAssumption, <1>2, <2>2, <2>4
  <2>8. \A b \in Asks : asks'[b] # None => asks'[b].version <= version
    BY <1>4, <2>3, <2>7
  <2>9. ASSUME ~behind, NEW b \in Asks, asks[b] # None, asks[b].version >= asked
        PROVE  asks'[b] # None /\ asks'[b].version >= asked
    <3>1. CASE b = a
      BY <1>3, <1>5, <2>3, <2>7, <2>9, <3>1
    <3>2. CASE b # a
      BY <2>7, <2>9, <3>2
    <3> QED
      BY <3>1, <3>2
  <2>10. ~behind => \/ \E b \in Asks : asks'[b] # None /\ asks'[b].version >= asked
                    \/ separators # None /\ separators >= asked
    BY <1>4, <2>9
  <2>11. SeparatorsFollow'
    BY <1>1, <1>4, <2>1, <2>8, <2>10 DEF SeparatorsFollow
  <2> QED
    BY <1>6, <2>6, <2>11 DEF EdInd
<1>10. CASE DrawSeparators(a)
  <2>1. /\ asks[a] # None /\ asks' = [asks EXCEPT ![a] = None]
        /\ separators' = asks[a].version
        /\ UNCHANGED <<sepTimer, asked>>
    BY <1>10 DEF DrawSeparators
  <2>2. behind' = (asks[a].version < asked)
    BY <1>10 DEF DrawSeparators
  <2>3. separators' \in Stamp /\ separators' \in Nat /\ separators' <= version /\ separators' # None
    BY DecorationsAssumption, <1>4, <1>5, <2>1
  <2>4. asks' \in [Asks -> Asking \union {None}]
    BY <1>2, <2>1
  <2>5. EdTypeOK'
    <3>1. behind' \in BOOLEAN
      BY <2>2
    <3>2. {sepTimer, behind}' \subseteq BOOLEAN
      BY Zenon, <1>2, <2>1, <3>1
    <3> QED
      BY Zenon, <1>2, <1>7, <2>1, <2>3, <2>4, <3>2
  <2>6. asks'[a] = None /\ \A b \in Asks : b # a => asks'[b] = asks[b]
    BY <1>2, <2>1
  <2>7. \A b \in Asks : asks'[b] # None => asks'[b].version <= version
    BY <1>4, <2>6
  <2>8. ~behind' => separators' >= asked
    <3>1. SUFFICES ASSUME ~behind' PROVE asks[a].version >= asked
      BY <2>1
    <3>2. ~(asks[a].version < asked)
      BY <2>2, <3>1
    <3> QED
      BY <1>3, <1>5, <2>1, <3>2
  <2>9. SeparatorsFollow'
    BY <1>1, <1>4, <2>1, <2>3, <2>7, <2>8 DEF SeparatorsFollow
  <2> QED
    BY <1>6, <2>5, <2>9 DEF EdInd
<1>11. CASE NoSeparators(a)
  <2>1. /\ asks[a] # None /\ asks' = [asks EXCEPT ![a] = None]
        /\ UNCHANGED <<sepTimer, separators, asked>>
    BY <1>11 DEF NoSeparators
  <2>2. behind' = (behind \/ asks[a].version >= asked)
    BY <1>11 DEF NoSeparators
  <2>3. asks' \in [Asks -> Asking \union {None}]
    BY <1>2, <2>1
  <2>4. EdTypeOK'
    <3>1. behind' \in BOOLEAN
      BY Zenon, <2>2
    <3>2. {sepTimer, behind}' \subseteq BOOLEAN
      BY Zenon, <1>2, <2>1, <3>1
    <3> QED
      BY Zenon, <1>2, <1>7, <2>1, <2>3, <3>2
  <2>5. asks'[a] = None /\ \A b \in Asks : b # a => asks'[b] = asks[b]
    BY <1>2, <2>1
  <2>6. \A b \in Asks : asks'[b] # None => asks'[b].version <= version
    BY <1>4, <2>5
  <2>7. ASSUME ~behind'
        PROVE  \/ \E b \in Asks : asks'[b] # None /\ asks'[b].version >= asked
               \/ separators # None /\ separators >= asked
    BY <1>4, <2>2, <2>5, <2>7
  <2>8. SeparatorsFollow'
    BY <1>1, <1>4, <2>1, <2>6, <2>7 DEF SeparatorsFollow
  <2> QED
    BY <1>6, <2>4, <2>8 DEF EdInd
<1> QED
  BY <1>8, <1>9, <1>10, <1>11

LEMMA EdIndNext ==
  ASSUME DecorationsAssumption, AskingAssumption, EdInd, [EdNext]_edVars
  PROVE  EdInd'
<1>1. CASE Type
  BY <1>1, EdIndType
<1>2. CASE MarkError
  BY <1>2, EdIndMarkError
<1>3. ASSUME NEW r \in Refreshes, StartRefresh(r) PROVE EdInd'
  BY <1>3, EdIndStartRefresh
<1>4. ASSUME NEW r \in Refreshes, LandInsert(r) PROVE EdInd'
  BY <1>4, EdIndLandInsert
<1>5. ASSUME NEW r \in Refreshes, SendDelete(r) PROVE EdInd'
  BY <1>5, EdIndSendDelete
<1>6. ASSUME NEW r \in Refreshes, LandDelete(r) PROVE EdInd'
  BY <1>6, EdIndLandDelete
<1>7. ASSUME NEW a \in Asks,
             SepTimerFires(a) \/ RangesAnswered(a) \/ DrawSeparators(a) \/ NoSeparators(a)
      PROVE  EdInd'
  BY <1>7, EdIndSeparators
<1>8. CASE UNCHANGED edVars
  <2>1. UNCHANGED <<chars, version, typedChars, refreshes, disturbed>>
    BY <1>8 DEF edVars
  <2>2. UNCHANGED <<version, sepTimer, asking>> /\ UNCHANGED errorMark
    BY <1>8 DEF edVars, asking
  <2>3. VersionIsCounted' /\ TextIsKept' /\ EditsFit'
    BY <2>1, TextStays
  <2>4. SeparatorsFollow'
    BY <2>2, SeparatorsStay
  <2>5. EdTypeOK'
    BY Zenon, <2>1, <2>2 DEF EdInd, EdTypeOK, asking, Stamp, Asking
  <2> QED
    BY <2>3, <2>4, <2>5 DEF EdInd
<1> QED
  BY Zenon, <1>1, <1>2, <1>3, <1>4, <1>5, <1>6, <1>7, <1>8 DEF EdNext

\* A refresh of the colours that nothing disturbs gives the text back as it was
\* (forceRefreshSemanticTokens), and the separators drawn are those of the text
\* once nothing is under way (updateQuerySeparators).
THEOREM RefreshesGiveTextBack == EdSpec => []EditorIsSound
<1> USE DecorationsAssumption, AskingAssumption
<1>1. EdInit => EdInd
  BY EdIndInit
<1>2. EdInd /\ [EdNext]_edVars => EdInd'
  BY EdIndNext
<1>3. EdInd => EditorIsSound
  <2> SUFFICES ASSUME EdInd PROVE EditorIsSound
    OBVIOUS
  <2>1. RefreshRestores
    BY DEF EdInd, TextIsKept, Whole, RefreshRestores
  <2>2. SeparatorsAreCurrent
    <3> SUFFICES ASSUME ~sepTimer, ~behind, \A a \in Asks : asks[a] = None
                 PROVE  separators = version
      BY DEF SeparatorsAreCurrent
    <3>1. /\ separators \in Stamp \union {None} /\ (separators # None => separators <= version)
      BY Zenon DEF EdInd, EdTypeOK
    <3>2. separators # None /\ separators >= version
      BY DEF EdInd, SeparatorsFollow
    <3>3. version \in Nat /\ Stamp \subseteq Nat
      BY EdNumbers
    <3> QED
      BY <3>1, <3>2, <3>3
  <2> QED
    BY <2>1, <2>2 DEF EdInd, EditorIsSound
<1> QED
  BY <1>1, <1>2, <1>3, PTL DEF EdSpec

=============================================================================
