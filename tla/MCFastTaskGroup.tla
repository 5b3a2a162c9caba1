--------------------------- MODULE MCFastTaskGroup ---------------------------
(* Three coroutines are offered to the group of one parent; all but one    *)
(* start eagerly.                                                          *)
EXTENDS FastTaskGroup, TLC

Coroutines == Permutations(Eager)
=============================================================================
