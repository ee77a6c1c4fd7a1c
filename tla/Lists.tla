-------------------------------- MODULE Lists ---------------------------------
(* What the modules of the client do with arrays, in a form that can be proved   *)
(* about: SelectSeq has an operator as its argument.                             *)
EXTENDS Integers, Sequences

\* Array.prototype.filter: the elements of s that are in S.
Only(s, S) ==
    LET kept[i \in 0 .. Len(s)] ==
            IF i = 0 THEN <<>>
            ELSE IF s[i] \in S THEN Append(kept[i - 1], s[i]) ELSE kept[i - 1]
    IN  kept[Len(s)]
===============================================================================
