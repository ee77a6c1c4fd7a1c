--------------------------- MODULE MCResultFiles ----------------------------
(* The components that keep results in files, for TLC, one of them in an   *)
(* execution (they share no state).                                        *)
EXTENDS HistoryStore, SingletonView, ResultDocuments, TLC

VARIABLE part         \* the component explored

FilesInit ==
    /\ part \in {"history", "view", "kqr"}
    /\ HistoryInit /\ SingletonInit /\ DocumentInit

filesVars == <<part, historyVars, singletonVars, documentVars>>

KeepingHistory ==
    /\ part = "history" /\ HistoryNext
    /\ UNCHANGED <<part, singletonVars, documentVars>>

Viewing ==
    /\ part = "view" /\ SingletonNext
    /\ UNCHANGED <<part, historyVars, documentVars>>

EditingResults ==
    /\ part = "kqr" /\ DocumentNext
    /\ UNCHANGED <<part, historyVars, singletonVars>>

FilesNext ==
    KeepingHistory \/ Viewing \/ EditingResults

FilesSpec == FilesInit /\ [][FilesNext]_filesVars

\* The properties ask nothing of a state where a result was borrowed: the search
\* need not go past it.
NotBorrowed == ~borrowed

Symmetry == Permutations(Names) \union Permutations(Hosts) \union Permutations(Calls)

\* One file once a history was crossed; few results made and edited; one document
\* crossed or mixed.
Few ==
    /\ crashes = 1 \/ crossed => Cardinality(files) <= 1
    /\ edits + Cardinality({r \in Results : made[r] # None}) <= 4
    /\ Cardinality({d \in Docs : docCrossed[d] \/ mixed[d]}) <= 1

=============================================================================
