------------------------------ MODULE JoinBatch ------------------------------
(***************************************************************************)
(* The batch methods of AsyncRuntime in src/lib.rs: sleep_many,            *)
(* run_concurrent, map_blocking and run_fallible.  Each lets go of the     *)
(* GIL, spawns one Tokio task per item, joins them all and takes the GIL   *)
(* again to answer.  A task is polled twice: up to its only await, and     *)
(* from there to its end.                                                  *)
(*                                                                         *)
(* Batches of several Python threads run together.  They share the         *)
(* blocking threads of the pool, on which map_blocking computes and        *)
(* pyo3-async-runtimes waits for the GIL to answer timers of async_sleep.  *)
(* Tasks never block a worker thread, so workers are not counted.          *)
(***************************************************************************)
EXTENDS Naturals, SequencesExt

CONSTANTS Batches,         \* calls of a batch method, each by a thread
          Inputs,          \* the items that are passed
          FailOn,          \* the values passed as fail_on
          Timers,          \* the timers of async_sleep that are running
          BlockingThreads, \* threads of the pool that may block
          Word,            \* the number of values of a u64
          Multiplier, Increment, Iterations,  \* the chain of map_blocking
          MaxFaults,       \* bound on the threads that the OS refuses
          LoopThread,      \* the thread of an asyncio event loop
          Nobody

ASSUME BatchAssumption ==
  /\ Word \in Nat \ {0}
  /\ Inputs \subseteq Seq(0..(Word - 1)) /\ Inputs # {}
  /\ \A s \in Inputs : Len(s) <= Word  \* the count of sleep_many is a u64
  /\ FailOn \subseteq SUBSET (0..(Word - 1))
  /\ BlockingThreads \in Nat \ {0}
  /\ Multiplier \in 0..(Word - 1) /\ Increment \in 0..(Word - 1)
  /\ Iterations \in Nat
  /\ MaxFaults \in Nat
  /\ LoopThread \notin Batches
  /\ Nobody \notin Batches \cup {LoopThread}

VARIABLES
  gil,     \* the Python thread that holds the GIL, or Nobody
  phase,   \* phase[b]: where the thread of b is
  method, items, fail,  \* method[b], items[b], fail[b]: the call
  task,    \* task[b]: the tasks spawned so far, in the order of the items
  out,     \* out[b]: <<index, outcome>> of the tasks joined so far
  raised,  \* the batches that end in an exception
  armed,   \* the timers that have not expired
  queued, running,  \* the jobs that wait for a blocking thread, and have one
  faults

call == <<method, items, fail>>
pool == <<armed, queued, running>>
vars == <<gil, phase, call, task, out, raised, pool, faults>>

Methods == {"sleep_many", "run_concurrent", "map_blocking", "run_fallible"}

Init == /\ gil = Nobody
        /\ phase = [b \in Batches |-> "python"]
        /\ method = [b \in Batches |-> "none"]
        /\ items = [b \in Batches |-> <<>>]
        /\ fail = [b \in Batches |-> {}]
        /\ task = [b \in Batches |-> <<>>]
        /\ out = [b \in Batches |-> <<>>]
        /\ raised = {}
        /\ armed = Timers
        /\ queued = {}
        /\ running = {}
        /\ faults = 0

Goto(b, p) == phase' = [phase EXCEPT ![b] = p]
Become(b, i, s) == task' = [task EXCEPT ![b][i] = s]

-----------------------------------------------------------------------------
(* What the tasks compute                                                  *)

\* (Mutant: the product is not wrapped.)
SquareUnwrapped(v) == v * v

\* wrapping_mul
Square(v) == (v * v) % Word

\* The closure of map_blocking: a linear congruential chain.
Chain(v) ==
  LET x[n \in 0..Iterations] ==
        IF n = 0 THEN v ELSE (x[n - 1] * Multiplier + Increment) % Word
  IN x[Iterations]

Fails(b, i) == method[b] = "run_fallible" /\ items[b][i] \in fail[b]

\* What the i-th task of b returns; the value of a failure is not looked at.
Outcome(b, i) ==
  LET v == items[b][i]
  IN IF Fails(b, i) THEN [ok |-> FALSE, value |-> 0]
     ELSE [ok |-> TRUE, value |-> CASE method[b] = "sleep_many" -> v
                                    [] method[b] = "map_blocking" -> Chain(v)
                                    [] OTHER -> Square(v)]

-----------------------------------------------------------------------------
(* The calling thread                                                      *)

\* A thread runs Python code before its call and after it, the event loop
\* between two looks at its selector.
InPython(x) ==
  x \in {LoopThread} \cup {b \in Batches : phase[b] \in {"python", "over"}}

TakeGil(x) == /\ InPython(x)
              /\ gil = Nobody
              /\ gil' = x
              /\ UNCHANGED <<phase, call, task, out, raised, pool, faults>>

DropGil(x) == /\ InPython(x)
              /\ gil = x
              /\ gil' = Nobody
              /\ UNCHANGED <<phase, call, task, out, raised, pool, faults>>

\* sleep_many numbers its tasks from zero.
Numbered(m, s) == IF m = "sleep_many" THEN [i \in 1..Len(s) |-> i - 1] ELSE s

\* py.detach, except for sleep_many(0), which returns at once.
Call(b, m, s, f) ==
  /\ phase[b] = "python"
  /\ gil = b
  /\ f # {} => m = "run_fallible"
  /\ method' = [method EXCEPT ![b] = m]
  /\ items' = [items EXCEPT ![b] = Numbered(m, s)]
  /\ fail' = [fail EXCEPT ![b] = f]
  /\ IF m = "sleep_many" /\ s = <<>>
     THEN Goto(b, "over") /\ UNCHANGED gil
     ELSE Goto(b, "spawn") /\ gil' = Nobody
  /\ UNCHANGED <<task, out, raised, pool, faults>>

\* The `for` loop: the tasks spawned already run meanwhile.
Spawn(b) ==
  /\ phase[b] = "spawn"
  /\ IF Len(task[b]) < Len(items[b])
     THEN task' = [task EXCEPT ![b] = Append(@, "new")] /\ UNCHANGED phase
     ELSE Goto(b, "join") /\ UNCHANGED task
  /\ UNCHANGED <<gil, call, out, raised, pool, faults>>

Joined(b) == {out[b][k][1] : k \in 1..Len(out[b])}

\* (Mutant: a task that panicked is passed over.)
JoinPassesPanics(b, i) ==
  /\ phase[b] = "join"
  /\ method[b] # "run_fallible"
  /\ i \in DOMAIN task[b] /\ task[b][i] \in {"done", "panicked"}
  /\ i \notin Joined(b)
  /\ out' = [out EXCEPT ![b] = Append(@, <<i, Outcome(b, i)>>)]
  /\ UNCHANGED <<gil, phase, call, task, raised, pool, faults>>

\* JoinSet::join_next: any task that is over.
Join(b, i) ==
  /\ phase[b] = "join"
  /\ method[b] # "run_fallible"
  /\ i \in DOMAIN task[b] /\ task[b][i] = "done"
  /\ i \notin Joined(b)
  /\ out' = [out EXCEPT ![b] = Append(@, <<i, Outcome(b, i)>>)]
  /\ UNCHANGED <<gil, phase, call, task, raised, pool, faults>>

\* A task that may be polled again.
Live(s) == s \in {"new", "waiting"}

\* (Mutant: the tasks are spawned on the runtime, not in the JoinSet.)
JoinFailsDetached(b, i) ==
  /\ phase[b] = "join"
  /\ method[b] # "run_fallible"
  /\ i \in DOMAIN task[b] /\ task[b][i] = "panicked"
  /\ raised' = raised \cup {b}
  /\ Goto(b, "attach")
  /\ UNCHANGED <<gil, call, task, out, pool, faults>>

\* `?` on the JoinError of a panic: the rest of the JoinSet is dropped, which
\* aborts its tasks, but not the closures that they have started.  A task that
\* a worker is polling ends with that poll: those in `polled` are about to
\* start their closures.  (Nobody sees the end of a last poll.)
JoinFails(b, i) ==
  /\ phase[b] = "join"
  /\ method[b] # "run_fallible"
  /\ i \in DOMAIN task[b] /\ task[b][i] = "panicked"
  /\ raised' = raised \cup {b}
  /\ \E polled \in SUBSET {k \in DOMAIN task[b] : task[b][k] = "new"} :
       task' = [task EXCEPT ![b] = [k \in DOMAIN @ |->
                  IF ~Live(@[k]) THEN @[k]
                  ELSE IF k \in polled THEN "aborting" ELSE "aborted"]]
  /\ Goto(b, "attach")
  /\ UNCHANGED <<gil, call, out, pool, faults>>

\* (Mutant: only a handle with a value is taken.)
AwaitNextValue(b) ==
  LET i == Len(out[b]) + 1
  IN /\ phase[b] = "join"
     /\ method[b] = "run_fallible"
     /\ i \in DOMAIN task[b] /\ task[b][i] = "done"
     /\ out' = [out EXCEPT ![b] = Append(@, <<i, Outcome(b, i)>>)]
     /\ UNCHANGED <<gil, phase, call, task, raised, pool, faults>>

\* run_fallible awaits its handles in order, and takes panics for answers.
AwaitNext(b) ==
  LET i == Len(out[b]) + 1
  IN /\ phase[b] = "join"
     /\ method[b] = "run_fallible"
     /\ i \in DOMAIN task[b] /\ ~Live(task[b][i])
     /\ out' = [out EXCEPT ![b] =
                  Append(@, <<i, [ok |-> task[b][i] = "done",
                                  value |-> Outcome(b, i).value]>>)]
     /\ UNCHANGED <<gil, phase, call, task, raised, pool, faults>>

\* (Mutant: the outcomes are returned in the order of their arrival.)
SortedNot(s) == s

\* sort_by_key: the entry in place i has i - 1 lesser keys.  No key comes twice.
Sorted(s) ==
  LET Rank(k) == Cardinality({j \in DOMAIN s : s[j][1] < s[k][1]}) + 1
  IN [i \in DOMAIN s |-> s[CHOOSE k \in DOMAIN s : Rank(k) = i]]

JoinedAll(b) ==
  /\ phase[b] = "join"
  /\ Len(out[b]) = Len(items[b])
  /\ out' = [out EXCEPT ![b] = Sorted(@)]
  /\ Goto(b, "attach")
  /\ UNCHANGED <<gil, call, task, raised, pool, faults>>

Attach(b) ==
  /\ phase[b] = "attach"
  /\ gil = Nobody
  /\ gil' = b
  /\ Goto(b, "over")
  /\ UNCHANGED <<call, task, out, raised, pool, faults>>

-----------------------------------------------------------------------------
(* The pool                                                                *)

\* A task up to its await: yield_now, a timer, or spawn_blocking.
FirstPoll(b, i) ==
  /\ i \in DOMAIN task[b] /\ task[b][i] \in {"new", "aborting"}
  /\ Become(b, i, IF task[b][i] = "new" THEN "waiting" ELSE "aborted")
  /\ queued' = IF method[b] = "map_blocking" THEN queued \cup {<<b, i>>} ELSE queued
  /\ UNCHANGED <<gil, phase, call, out, raised, armed, running, faults>>

\* spawn_blocking panics when the operating system refuses a thread.
Refused(b, i) ==
  /\ i \in DOMAIN task[b] /\ task[b][i] \in {"new", "aborting"}
  /\ method[b] = "map_blocking"
  /\ faults < MaxFaults
  /\ faults' = faults + 1
  /\ Become(b, i, "panicked")
  /\ UNCHANGED <<gil, phase, call, out, raised, pool>>

\* A task from its await to its end.
LastPoll(b, i) ==
  /\ i \in DOMAIN task[b] /\ task[b][i] = "waiting"
  /\ <<b, i>> \notin queued \cup running
  /\ Become(b, i, IF Fails(b, i) THEN "panicked" ELSE "done")
  /\ UNCHANGED <<gil, phase, call, out, raised, pool, faults>>

\* A timer of async_sleep expires: somebody has to tell its Python future.
Expire(k) ==
  /\ k \in armed
  /\ armed' = armed \ {k}
  /\ queued' = queued \cup {<<k, 0>>}
  /\ UNCHANGED <<gil, phase, call, task, out, raised, running, faults>>

StartJob(j) ==
  /\ j \in queued
  /\ Cardinality(running) < BlockingThreads
  /\ queued' = queued \ {j}
  /\ running' = running \cup {j}
  /\ UNCHANGED <<gil, phase, call, task, out, raised, armed, faults>>

\* A closure needs nothing to end; the answer of a timer needs the GIL.
EndJob(j) ==
  /\ j \in running
  /\ j[1] \in Timers => gil = Nobody
  /\ running' = running \ {j}
  /\ UNCHANGED <<gil, phase, call, task, out, raised, armed, queued, faults>>

-----------------------------------------------------------------------------
MaxItems == CHOOSE n \in {Len(s) : s \in Inputs} : \A s \in Inputs : Len(s) <= n
Indices == 1..MaxItems
Jobs == (Batches \X Indices) \cup (Timers \X {0})

Caller(b) == \/ \E m \in Methods, s \in Inputs, f \in FailOn \cup {{}} : Call(b, m, s, f)
             \/ Spawn(b) \/ AwaitNext(b) \/ JoinedAll(b) \/ Attach(b)
             \/ \E i \in Indices : Join(b, i) \/ JoinFails(b, i)

Poll(b, i) == FirstPoll(b, i) \/ Refused(b, i) \/ LastPoll(b, i)

Next == \/ \E x \in Batches \cup {LoopThread} : TakeGil(x) \/ DropGil(x)
        \/ \E b \in Batches : Caller(b) \/ \E i \in Indices : Poll(b, i)
        \/ \E k \in Timers : Expire(k)
        \/ \E j \in Jobs : StartJob(j) \/ EndJob(j)

Spec == Init /\ [][Next]_vars

(* Tokio polls what is ready, and timers expire.  The queue of blocking    *)
(* jobs is first in, first out, and the GIL is forced from its holder for  *)
(* whoever waits: both may be taken by others first, so fairness is strong.*)
FairSpec ==
  /\ Spec
  /\ \A x \in Batches \cup {LoopThread} : WF_vars(DropGil(x))
  /\ \A b \in Batches :
       /\ WF_vars(Spawn(b) \/ AwaitNext(b) \/ JoinedAll(b)
                    \/ \E i \in Indices : Join(b, i) \/ JoinFails(b, i))
       /\ SF_vars(Attach(b))
       /\ \A i \in Indices : WF_vars(Poll(b, i))
  /\ \A k \in Timers : WF_vars(Expire(k))
  /\ \A j \in Jobs : SF_vars(StartJob(j)) /\ SF_vars(EndJob(j))
-----------------------------------------------------------------------------
(* Properties                                                              *)

TypeOK ==
  /\ gil \in Batches \cup {LoopThread, Nobody}
  /\ phase \in [Batches -> {"python", "spawn", "join", "attach", "over"}]
  /\ method \in [Batches -> Methods \cup {"none"}]
  /\ \A b \in Batches :
       /\ items[b] \in Seq(0..(Word - 1))
       /\ Len(task[b]) <= Len(items[b])
       /\ \A i \in DOMAIN task[b] :
            task[b][i] \in {"new", "waiting", "done", "panicked", "aborting", "aborted"}
       /\ Len(out[b]) <= Len(items[b])
       /\ \A k \in DOMAIN out[b] : /\ out[b][k][1] \in DOMAIN items[b]
                                   /\ out[b][k][2].value \in 0..(Word - 1)
  /\ fail \in [Batches -> FailOn \cup {{}}]
  /\ raised \subseteq Batches
  /\ armed \subseteq Timers
  /\ queued \subseteq Jobs /\ running \subseteq Jobs
  /\ Cardinality(running) <= BlockingThreads
  /\ faults \in 0..MaxFaults

Ended(b) == phase[b] \in {"attach", "over"}

(* A list answers item by item, in the order of the input and whatever the *)
(* order in which tasks end; equal items fail alike in run_fallible, and a *)
(* task that panics has no effect on its neighbours.                       *)
InInputOrder ==
  \A b \in Batches : Ended(b) /\ b \notin raised =>
    out[b] = [i \in 1..Len(items[b]) |-> <<i, Outcome(b, i)>>]

(* A call raises exactly when one of its tasks panicked, and run_fallible  *)
(* never does: no panic is lost on the way from the pool to the caller.    *)
PanicsAreRaised ==
  \A b \in Batches : Ended(b) =>
    (b \in raised <=> /\ method[b] # "run_fallible"
                      /\ \E i \in DOMAIN task[b] : task[b][i] = "panicked")

(* Nothing is left of a call that has returned: no task of it is polled    *)
(* again, and if it has returned a list, its closures are over too.        *)
NoneLeftBehind ==
  \A b \in Batches : Ended(b) =>
    /\ \A i \in DOMAIN task[b] : ~Live(task[b][i])
    /\ b \notin raised => \A i \in Indices : <<b, i>> \notin queued \cup running

\* A call as its caller sees it.
State(b) == CASE phase[b] = "python" -> "none"
              [] phase[b] \in {"spawn", "join"} -> "asked"
              [] OTHER -> IF b \in raised THEN "raised" ELSE "returned"
Request(b) == [outcomes |-> [i \in 1..Len(items[b]) |-> <<i, Outcome(b, i)>>],
               collects |-> method[b] = "run_fallible"]

Work(b) == {i \in DOMAIN task[b] : Live(task[b][i])}
Answer(b) == IF State(b) = "returned" THEN out[b] ELSE <<>>

Contract == INSTANCE BatchContract
            WITH Calls <- Batches,
                 state <- [b \in Batches |-> State(b)],
                 request <- [b \in Batches |-> Request(b)],
                 work <- [b \in Batches |-> Work(b)],
                 answer <- [b \in Batches |-> Answer(b)]

(* A batch is a scope for its tasks and has one answer: none starts after  *)
(* it, and it never changes, whatever the pool and other calls still do.   *)
KeepsContract == Contract!Spec

(* Every call comes back, although all blocking threads may wait for the   *)
(* GIL with the answers of timers: the caller must not hold it meanwhile.  *)
BatchReturns == \A b \in Batches : phase[b] = "spawn" ~> phase[b] = "over"
=============================================================================
