-------------------------- MODULE MCResultSessions --------------------------
(* ResultSessions for TLC: more sessions than the store may hold. *)
EXTENDS ResultSessions, TLC

Symmetry == Permutations(Sessions)

=============================================================================
