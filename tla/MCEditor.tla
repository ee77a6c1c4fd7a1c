------------------------------ MODULE MCEditor ------------------------------
(* The components around the query editor, for TLC, one of them in an      *)
(* execution (they share no state).  The sets of different components are  *)
(* given the same model values, so that one symmetry serves them all.      *)
EXTENDS QueryRuns, ScratchPads, EditorDecorations, Clipboard, TLC

VARIABLE part         \* the component explored

EditorInit ==
    /\ part \in {"queries", "pads", "decorations", "clipboard"}
    /\ QueryInit /\ PadsInit /\ EdInit /\ ClipInit

editorVars == <<part, queryVars, padVars, edVars, clipVars>>

Querying ==
    /\ part = "queries" /\ QueryNext
    /\ UNCHANGED <<part, padVars, edVars, clipVars>>

KeepingPads ==
    /\ part = "pads" /\ PadsNext
    /\ UNCHANGED <<part, queryVars, edVars, clipVars>>

Decorating ==
    /\ part = "decorations" /\ EdNext
    /\ UNCHANGED <<part, queryVars, padVars, clipVars>>

CopyingAndPasting ==
    /\ part = "clipboard" /\ ClipNext
    /\ UNCHANGED <<part, queryVars, padVars, edVars>>

EditorNext ==
    Querying \/ KeepingPads \/ Decorating \/ CopyingAndPasting

EditorSpec == EditorInit /\ [][EditorNext]_editorVars

\* The properties ask nothing of a state where two pads took one name: the search
\* need not go past it.
NoClash == ~clash

Symmetry == Permutations(Runs) \union Permutations(Ranges) \union Permutations(Asks)
                \union Permutations(Copies)

\* A run yet to be made once outcomes were muddled; once an editor was refused, one pad
\* and nothing imported or dropped; a document disturbed in one way at most.
Few ==
    /\ muddled => \E r \in Runs : runs[r].at = "idle"
    /\ refused => imported = {} /\ dropped = {} /\ Cardinality(Pads) <= 1
    /\ ~(disturbed /\ behind)

=============================================================================
