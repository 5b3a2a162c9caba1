---------------------------- MODULE MCRuntimeInit ----------------------------
(* Three threads, one of them the main thread, on a machine with two       *)
(* processors; a user asks for zero workers, or for none in particular.    *)
EXTENDS RuntimeInit, TLC

MCRequests == {0}

\* Only the main thread is told from the others.
OtherThreads == Permutations(Threads \ {MainThread})
=============================================================================
