-------------------------------- MODULE Client --------------------------------
(* What the modules of the client share. *)

CONSTANT None   \* null and undefined, a call that is not under way, a timer not set

===============================================================================
