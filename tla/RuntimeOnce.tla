----------------------------- MODULE RuntimeOnce -----------------------------
(***************************************************************************)
(* What ferro_io promises about its process-global Tokio runtime: a cell   *)
(* written once.  Whoever asks for the runtime gets the content of the     *)
(* cell; the first to ask fills it.  A call may also fail and leave the    *)
(* cell as it was.                                                         *)
(***************************************************************************)
CONSTANTS Threads,  \* the threads of the process
          Pools,    \* the Tokio thread pools that may be built
          None      \* the content of an empty cell

VARIABLES cell,     \* the pool in use, or None
          handed    \* handed[t]: the pool thread t was last given, or None

vars == <<cell, handed>>

Init == /\ cell = None
        /\ handed = [t \in Threads |-> None]

\* The cell is filled, once, before or while somebody is answered.
Fill(p) == /\ cell = None
           /\ cell' = p
           /\ UNCHANGED handed

\* A caller is answered with the content of the cell.
Answer(t) == /\ cell # None
             /\ handed' = [handed EXCEPT ![t] = cell]
             /\ UNCHANGED cell

Next == \/ \E p \in Pools : Fill(p)
        \/ \E t \in Threads : Answer(t)

Spec == Init /\ [][Next]_vars
=============================================================================
