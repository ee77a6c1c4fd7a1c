----------------------------- MODULE MCServerLive -----------------------------
(* The store of sessions and the views of their tables, for TLC's liveness.  *)
(* The tables of the sessions outside of Viewed are left as they were made:  *)
(* views of different sessions have nothing in common.                       *)
EXTENDS ResultViews, TLC

CONSTANT Viewed

OneViewed == \A s \in Sessions \ Viewed : rev'[s] = 0

ServerNext == ViewNext /\ OneViewed

ServerLive == ViewInit /\ [][ServerNext]_allVars /\ Fairness /\ ViewFairness

\* What a session holds is given back: the token of one that was disposed, and a
\* session nobody has asked for in a long time.
ResourcesGo == DisposedReleasesToken /\ IdleExpires

===============================================================================
