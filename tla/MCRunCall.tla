------------------------------ MODULE MCRunCall ------------------------------
(* Two calls in the main thread, of run() or of a Runner's, one after the  *)
(* other or one in the other's coroutine.                                  *)
EXTENDS RunCall
=============================================================================
