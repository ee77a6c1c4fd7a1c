----------------------------- MODULE ViewService -----------------------------
(***************************************************************************)
(* What the server promises about the views of one result table: accepted  *)
(* views are numbered, the newest one is evaluated, and it becomes the     *)
(* ready view or fails; the table may be withdrawn at any time.            *)
(***************************************************************************)
EXTENDS Integers

VARIABLES
    rev,            \* the newest accepted view
    ready,          \* the view that pages are read from
    status,         \* what has become of the newest view
    gone            \* the table was withdrawn

vsvars == <<rev, ready, status, gone>>

VsInit ==
    /\ rev = 0
    /\ ready = 0
    /\ status = "none"
    /\ gone = FALSE

\* The next view is accepted; one that cannot be evaluated fails at once.
Submit ==
    /\ ~gone
    /\ rev' = rev + 1
    /\ status' \in {"evaluating", "failed"}
    /\ UNCHANGED <<ready, gone>>

Publish ==
    /\ ~gone /\ status = "evaluating"
    /\ ready' = rev
    /\ status' = "ready"
    /\ UNCHANGED <<rev, gone>>

Fail ==
    /\ ~gone /\ status = "evaluating"
    /\ status' = "failed"
    /\ UNCHANGED <<rev, ready, gone>>

Withdraw ==
    /\ ~gone
    /\ gone' = TRUE
    /\ UNCHANGED <<rev, ready, status>>

VsNext == Submit \/ Publish \/ Fail \/ Withdraw

VsSpec == VsInit /\ [][VsNext]_vsvars

=============================================================================
