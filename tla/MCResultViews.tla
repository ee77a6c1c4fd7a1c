---------------------------- MODULE MCResultViews ----------------------------
(* ResultViews for TLC. *)
EXTENDS ResultViews, TLC

Symmetry == Permutations(Sessions)

=============================================================================
