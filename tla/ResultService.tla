---------------------------- MODULE ResultService ----------------------------
(***************************************************************************)
(* What the server promises the client about query results, free of        *)
(* threads, tokens and evictions: a result is pending, then available or   *)
(* not, and may be withdrawn at any time and for ever; while it is         *)
(* available its ready view is replaced by views of later revisions only.  *)
(***************************************************************************)
EXTENDS Integers

CONSTANT Sessions

VARIABLES
    phase,          \* what the client may do with the result
    view            \* the revision of the view that pages are read from

svars == <<phase, view>>

SInit ==
    /\ phase = [s \in Sessions |-> "absent"]
    /\ view = [s \in Sessions |-> 0]

\* Phases after the results in D are withdrawn.
WithdrawnFrom(D) == [s \in Sessions |-> IF s \in D THEN "gone" ELSE phase[s]]

\* A result is asked for; results the server has no room for are withdrawn.
Open(s, D) ==
    /\ phase[s] = "absent"
    /\ s \notin D
    /\ phase' = [WithdrawnFrom(D) EXCEPT ![s] = "pending"]
    /\ UNCHANGED view

\* The query has ended.
Settle(s) ==
    /\ phase[s] = "pending"
    /\ \E outcome \in {"available", "unavailable"} :
        phase' = [phase EXCEPT ![s] = outcome]
    /\ UNCHANGED view

\* A filtered and sorted view replaces the ready one.
Publish(s) ==
    /\ phase[s] = "available"
    /\ view'[s] \in Nat /\ view'[s] > view[s]
    /\ view' = [view EXCEPT ![s] = view'[s]]
    /\ UNCHANGED phase

Withdraw(D) ==
    /\ \A s \in D : phase[s] # "absent"
    /\ phase' = WithdrawnFrom(D)
    /\ UNCHANGED view

SNext ==
    \/ \E D \in SUBSET {s \in Sessions : phase[s] # "absent"} :
        Withdraw(D) \/ \E s \in Sessions : Open(s, D)
    \/ \E s \in Sessions : Settle(s) \/ Publish(s)

SSpec == SInit /\ [][SNext]_svars

=============================================================================
