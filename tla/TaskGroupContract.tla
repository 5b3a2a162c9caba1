-------------------------- MODULE TaskGroupContract --------------------------
(***************************************************************************)
(* What `async with TaskGroup()` promises (structured concurrency): a      *)
(* child is admitted only while the group is open, the block is left only  *)
(* when every admitted child is over, an error of a child is raised by the *)
(* block, and nothing happens in the group afterwards.                     *)
(***************************************************************************)
CONSTANT Tasks   \* the coroutines that may be offered to the group

VARIABLES child,  \* child[t]: what became of the coroutine
          open,   \* the block has not been left
          outcome \* how it was left

vars == <<child, open, outcome>>

Over == {"ok", "err", "cancelled"}

Init == /\ child = [t \in Tasks |-> "none"]
        /\ open = TRUE
        /\ outcome = "none"

Admit(t) == /\ child[t] = "none"
            /\ open
            /\ child' = [child EXCEPT ![t] = "active"]
            /\ UNCHANGED <<open, outcome>>

Refuse(t) == /\ child[t] = "none"
             /\ child' = [child EXCEPT ![t] = "refused"]
             /\ UNCHANGED <<open, outcome>>

End(t, how) == /\ child[t] = "active"
               /\ child' = [child EXCEPT ![t] = how]
               /\ UNCHANGED <<open, outcome>>

Close(how) == /\ open
              /\ \A t \in Tasks : child[t] # "active"
              /\ (\E t \in Tasks : child[t] = "err") => how = "group"
              /\ open' = FALSE
              /\ outcome' = how
              /\ UNCHANGED child

Next == \/ \E t \in Tasks : Admit(t) \/ Refuse(t) \/ \E how \in Over : End(t, how)
        \/ \E how \in {"returned", "cancelled", "group"} : Close(how)

Spec == Init /\ [][Next]_vars
=============================================================================
