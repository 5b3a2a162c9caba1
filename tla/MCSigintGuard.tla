---------------------------- MODULE MCSigintGuard ----------------------------
(* The main thread and a worker share two Runners, and the application     *)
(* starts with any handler.                                                *)
EXTENDS SigintGuard

FromPython == {"default", "custom"}
=============================================================================
