--------------------------- MODULE MCCoroutineRun ---------------------------
(* One call of run_coroutine, to see what it leaves on its loop.           *)
EXTENDS CoroutineRun
=============================================================================
