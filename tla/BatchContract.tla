--------------------------- MODULE BatchContract ---------------------------
(***************************************************************************)
(* What a batch method promises: one answer to each call, and no work of   *)
(* the call after it.  The answer is the list of what the items come to,   *)
(* in their order, or an exception, which run_fallible does without.       *)
(***************************************************************************)
CONSTANT Calls

VARIABLES state,    \* state[c]: "none", "asked", "returned" or "raised"
          request,  \* request[c]: what the items come to, and whether a
                    \* failure is an answer like any other
          work,     \* work[c]: the items whose tasks are alive
          answer    \* answer[c]: the list returned

vars == <<state, request, work, answer>>

Init == /\ state = [c \in Calls |-> "none"]
        /\ request = [c \in Calls |-> [outcomes |-> <<>>, collects |-> FALSE]]
        /\ work = [c \in Calls |-> {}]
        /\ answer = [c \in Calls |-> <<>>]

Becomes(c, s) == state' = [state EXCEPT ![c] = s]

\* The caller asks for what it likes.
Asks(c) == /\ state[c] = "none"
           /\ \A d \in Calls \ {c} : request'[d] = request[d]

Ask(c) == /\ Asks(c)
          /\ Becomes(c, "asked")
          /\ UNCHANGED <<work, answer>>

\* A call without items may be answered at once.
AskNothing(c) == /\ Asks(c)
                 /\ request'[c].outcomes = <<>>
                 /\ Becomes(c, "returned")
                 /\ UNCHANGED <<work, answer>>

Start(c, i) == /\ state[c] = "asked"
               /\ i \in DOMAIN request[c].outcomes \ work[c]
               /\ work' = [work EXCEPT ![c] = @ \cup {i}]
               /\ UNCHANGED <<state, request, answer>>

Stop(c, i) == /\ i \in work[c]
              /\ work' = [work EXCEPT ![c] = @ \ {i}]
              /\ UNCHANGED <<state, request, answer>>

Return(c) == /\ state[c] = "asked"
             /\ work[c] = {}
             /\ Becomes(c, "returned")
             /\ answer' = [answer EXCEPT ![c] = request[c].outcomes]
             /\ UNCHANGED <<request, work>>

Raise(c) == /\ state[c] = "asked"
            /\ ~request[c].collects
            /\ Becomes(c, "raised")
            /\ work' = [work EXCEPT ![c] = {}]
            /\ UNCHANGED <<request, answer>>

Next == \E c \in Calls :
          \/ Ask(c) \/ AskNothing(c) \/ Return(c) \/ Raise(c)
          \/ \E i \in DOMAIN request[c].outcomes : Start(c, i)
          \/ \E i \in work[c] : Stop(c, i)

Spec == Init /\ [][Next]_vars
=============================================================================
