------------------------------ MODULE MCLoopApi ------------------------------
(* The coroutine given to run() and one more task, with an executor of one *)
(* thread.                                                                 *)
EXTENDS LoopApi
=============================================================================
