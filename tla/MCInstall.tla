------------------------------ MODULE MCInstall ------------------------------
(* Two threads, a module of each kind and two ordinary ones.               *)
EXTENDS Install, TLC

Callers == Permutations(Threads)
=============================================================================
