---------------------------- MODULE CoroutineRun ----------------------------
(***************************************************************************)
(* AsyncRuntime.run_coroutine of src/lib.rs, which drives a coroutine from *)
(* ferro_io.run() and Runner.run(): a new asyncio loop per call, made the  *)
(* current one of the thread, run until the coroutine is over, closed.     *)
(*                                                                         *)
(* The coroutine runs in the calling thread, on the asyncio loop; what it  *)
(* sleeps on is a Tokio timer, whose expiry a thread of the pool posts to  *)
(* the loop.  Its outcome goes to a Tokio task and comes back the same     *)
(* way, and only then does the loop stop.  The coroutine may create a task *)
(* that outlives it, and may call run() again in its own thread.           *)
(***************************************************************************)
EXTENDS Naturals, SequencesExt

CONSTANTS Threads, MainThread,
          MaxRuns,        \* bound on the calls of run_coroutine
          MaxSleeps,      \* bound on the sleeps
          MaxInterrupts,  \* bound on the SIGINTs
          None

ASSUME RunAssumption ==
  /\ MainThread \in Threads
  /\ MaxRuns \in Nat
  /\ MaxSleeps \in Nat
  /\ MaxInterrupts \in Nat
  /\ None \notin Nat

Loops == 1..MaxRuns  \* a call and its loop are numbered together
Jobs == {"main", "background"}

VARIABLES
  calls,     \* calls[t]: the calls t is in, a nested one last
  phase,     \* phase[l]: where call l is
  current,   \* current[t]: the event loop set for the thread, or None
  runs,      \* runs[t]: the loop that is running in t, or None
  closed,    \* the loops that have been closed
  made,      \* loops made so far
  task,      \* task[l][j]: the coroutine of l, and the task that it created
  timer,     \* timer[l][j]: the sleep in which j is
  hop,       \* hop[l]: the way of the coroutine's outcome through Tokio
  outcome,   \* outcome[l]: how run_until_complete ended
  sleeps,    \* sleeps so far
  interrupts,
  cut        \* the calls that a KeyboardInterrupt struck outside of the loop

vars == <<calls, phase, current, runs, closed, made, task, timer, hop, outcome,
          sleeps, interrupts, cut>>

Init == /\ calls = [t \in Threads |-> <<>>]
        /\ phase = [l \in Loops |-> "none"]
        /\ current = [t \in Threads |-> None]
        /\ runs = [t \in Threads |-> None]
        /\ closed = {}
        /\ made = 0
        /\ task = [l \in Loops |-> [j \in Jobs |-> "none"]]
        /\ timer = [l \in Loops |-> [j \in Jobs |-> "none"]]
        /\ hop = [l \in Loops |-> "none"]
        /\ outcome = [l \in Loops |-> "none"]
        /\ sleeps = 0
        /\ interrupts = 0
        /\ cut = {}

Goto(l, p) == phase' = [phase EXCEPT ![l] = p]
Become(l, j, s) == task' = [task EXCEPT ![l][j] = s]
Active(l) == \E j \in Jobs : task[l][j] = "active"

\* Thread t is at step p of its innermost call, l.
At(t, l, p) == calls[t] # <<>> /\ l = Last(calls[t]) /\ phase[l] = p

\* Thread t runs loop l, and no call nested in it.
Drives(t, l) == At(t, l, "drive")

-----------------------------------------------------------------------------
(* run_coroutine                                                           *)

\* new_event_loop(), in a thread that is in no call or runs a coroutine.
NewLoop(t) ==
  LET l == made + 1
  IN /\ made < MaxRuns
     /\ \/ calls[t] = <<>>
        \/ Drives(t, Last(calls[t])) /\ Active(Last(calls[t]))
     /\ made' = l
     /\ calls' = [calls EXCEPT ![t] = Append(@, l)]
     /\ Goto(l, "set")
     /\ UNCHANGED <<current, runs, closed, task, timer, hop, outcome, sleeps,
                    interrupts, cut>>

SetLoop(t, l) ==
  /\ At(t, l, "set")
  /\ current' = [current EXCEPT ![t] = l]
  /\ Goto(l, "start")
  /\ UNCHANGED <<calls, runs, closed, made, task, timer, hop, outcome, sleeps,
                 interrupts, cut>>

\* (Mutant: nobody looks whether another loop runs in this thread.)
StartAnyway(t, l) ==
  /\ At(t, l, "start")
  /\ Become(l, "main", "ready")
  /\ runs' = [runs EXCEPT ![t] = l]
  /\ Goto(l, "drive")
  /\ UNCHANGED <<calls, current, closed, made, timer, hop, outcome, sleeps,
                 interrupts, cut>>

\* (Mutant: a nested call waits for the loop around it.)
StartWaits(t, l) ==
  /\ At(t, l, "start")
  /\ runs[t] = None
  /\ Become(l, "main", "ready")
  /\ runs' = [runs EXCEPT ![t] = l]
  /\ Goto(l, "drive")
  /\ UNCHANGED <<calls, current, closed, made, timer, hop, outcome, sleeps,
                 interrupts, cut>>

\* into_future_with_locals posts the coroutine to the loop, which starts; or
\* run_until_complete raises, since another loop runs in this thread.
Start(t, l) ==
  /\ At(t, l, "start")
  /\ Become(l, "main", "ready")
  /\ IF runs[t] = None
     THEN /\ runs' = [runs EXCEPT ![t] = l]
          /\ Goto(l, "drive")
          /\ UNCHANGED outcome
     ELSE /\ outcome' = [outcome EXCEPT ![l] = "refused"]
          /\ Goto(l, "close")
          /\ UNCHANGED runs
  /\ UNCHANGED <<calls, current, closed, made, timer, hop, sleeps, interrupts, cut>>

\* (Mutant: the loop is stopped when the coroutine is over, and the outcome is
\* taken then.)
StopEarly(t, l) ==
  /\ Drives(t, l) /\ ~Active(l)
  /\ hop[l] \in {"sent", "posted"}
  /\ runs' = [runs EXCEPT ![t] = None]
  /\ outcome' = [outcome EXCEPT ![l] = IF hop[l] = "posted" THEN task[l]["main"]
                                                            ELSE "empty"]
  /\ hop' = [hop EXCEPT ![l] = "taken"]
  /\ Goto(l, "close")
  /\ UNCHANGED <<calls, current, closed, made, task, timer, sleeps, interrupts, cut>>

\* (Mutant: `?` on the result of run_until_complete skips the clean-up.)
StopReturns(t, l) ==
  /\ Drives(t, l) /\ ~Active(l)
  /\ hop[l] = "posted"
  /\ runs' = [runs EXCEPT ![t] = None]
  /\ outcome' = [outcome EXCEPT ![l] = task[l]["main"]]
  /\ hop' = [hop EXCEPT ![l] = "taken"]
  /\ IF task[l]["main"] = "err"
     THEN Goto(l, "over") /\ calls' = [calls EXCEPT ![t] = Front(@)]
     ELSE Goto(l, "close") /\ UNCHANGED calls
  /\ UNCHANGED <<current, closed, made, task, timer, sleeps, interrupts, cut>>

\* The loop sets the future of run_until_complete and stops.
Stop(t, l) ==
  /\ Drives(t, l) /\ ~Active(l)
  /\ hop[l] = "posted"
  /\ runs' = [runs EXCEPT ![t] = None]
  /\ outcome' = [outcome EXCEPT ![l] = task[l]["main"]]
  /\ hop' = [hop EXCEPT ![l] = "taken"]
  /\ Goto(l, "close")
  /\ UNCHANGED <<calls, current, closed, made, task, timer, sleeps, interrupts, cut>>

\* close() cancels nothing: the tasks of the loop stay as they are.
Close(t, l) ==
  /\ At(t, l, "close")
  /\ closed' = closed \cup {l}
  /\ Goto(l, "unset")
  /\ UNCHANGED <<calls, current, runs, made, task, timer, hop, outcome, sleeps,
                 interrupts, cut>>

Unset(t, l) ==
  /\ At(t, l, "unset")
  /\ current' = [current EXCEPT ![t] = None]
  /\ calls' = [calls EXCEPT ![t] = Front(@)]
  /\ Goto(l, "over")
  /\ UNCHANGED <<runs, closed, made, task, timer, hop, outcome, sleeps,
                 interrupts, cut>>

-----------------------------------------------------------------------------
(* The asyncio loop of the call                                            *)

\* One task at a time runs up to its next await.
Step(t, l, j) ==
  /\ Drives(t, l) /\ ~Active(l)
  /\ task[l][j] = "ready"
  /\ Become(l, j, "active")
  /\ UNCHANGED <<calls, phase, current, runs, closed, made, timer, hop, outcome,
                 sleeps, interrupts, cut>>

\* sleep() with a positive delay: a future of the loop, and a timer of Tokio.
Sleep(t, l, j) ==
  /\ Drives(t, l)
  /\ task[l][j] = "active"
  /\ sleeps < MaxSleeps
  /\ sleeps' = sleeps + 1
  /\ Become(l, j, "asleep")
  /\ timer' = [timer EXCEPT ![l][j] = "armed"]
  /\ UNCHANGED <<calls, phase, current, runs, closed, made, hop, outcome,
                 interrupts, cut>>

\* sleep() with a delay of zero or less is asyncio.sleep(0): one yield.
Yield(t, l, j) ==
  /\ Drives(t, l)
  /\ task[l][j] = "active"
  /\ sleeps < MaxSleeps
  /\ sleeps' = sleeps + 1
  /\ Become(l, j, "ready")
  /\ UNCHANGED <<calls, phase, current, runs, closed, made, timer, hop, outcome,
                 interrupts, cut>>

\* create_task under the eager factory that _with_eager_factory has set: the
\* first step of the new task is made at once, up to its first sleep.
Spawn(t, l) ==
  /\ Drives(t, l)
  /\ task[l]["main"] = "active"
  /\ task[l]["background"] = "none"
  /\ sleeps < MaxSleeps
  /\ sleeps' = sleeps + 1
  /\ Become(l, "background", "asleep")
  /\ timer' = [timer EXCEPT ![l]["background"] = "armed"]
  /\ UNCHANGED <<calls, phase, current, runs, closed, made, hop, outcome,
                 interrupts, cut>>

\* The outcome of the coroutine is sent to the Tokio task that awaits it.
End(t, l, j, how) ==
  /\ Drives(t, l)
  /\ task[l][j] = "active"
  /\ Become(l, j, how)
  /\ hop' = IF j = "main" THEN [hop EXCEPT ![l] = "sent"] ELSE hop
  /\ UNCHANGED <<calls, phase, current, runs, closed, made, timer, outcome,
                 sleeps, interrupts, cut>>

\* The loop sets the future of a timer and makes the task ready.
Wake(t, l, j) ==
  /\ Drives(t, l) /\ ~Active(l)
  /\ timer[l][j] = "posted"
  /\ timer' = [timer EXCEPT ![l][j] = "none"]
  /\ Become(l, j, "ready")
  /\ UNCHANGED <<calls, phase, current, runs, closed, made, hop, outcome,
                 sleeps, interrupts, cut>>

-----------------------------------------------------------------------------
(* Tokio                                                                   *)

\* (Mutant: the pool resumes the task itself.)
ExpireDirectly(l, j) ==
  /\ timer[l][j] = "armed"
  /\ timer' = [timer EXCEPT ![l][j] = "none"]
  /\ Become(l, j, "ready")
  /\ UNCHANGED <<calls, phase, current, runs, closed, made, hop, outcome,
                 sleeps, interrupts, cut>>

\* A timer expires and a thread of the pool posts to the loop; a closed loop
\* refuses, and the error is dropped.
Expire(l, j) ==
  /\ timer[l][j] = "armed"
  /\ timer' = [timer EXCEPT ![l][j] = IF l \in closed THEN "dropped" ELSE "posted"]
  /\ UNCHANGED <<calls, phase, current, runs, closed, made, task, hop, outcome,
                 sleeps, interrupts, cut>>

\* The Tokio task keeps the outcome for run_coroutine, then posts to the loop.
PostOutcome(l) ==
  /\ hop[l] = "sent"
  /\ hop' = [hop EXCEPT ![l] = IF l \in closed THEN "dropped" ELSE "posted"]
  /\ UNCHANGED <<calls, phase, current, runs, closed, made, task, timer,
                 outcome, sleeps, interrupts, cut>>

-----------------------------------------------------------------------------
(* Exceptions that a loop does not keep                                    *)

\* One goes through the task that is active and out of run_until_complete.
LeavesLoop(t, l) ==
  /\ Drives(t, l)
  /\ task' = [task EXCEPT ![l] = [j \in Jobs |-> IF @[j] = "active" THEN "err"
                                                                    ELSE @[j]]]
  /\ runs' = [runs EXCEPT ![t] = None]
  /\ outcome' = [outcome EXCEPT ![l] = "interrupted"]
  /\ Goto(l, "close")
  /\ UNCHANGED <<calls, current, closed, made, timer, hop, sleeps, cut>>

\* A coroutine lets SystemExit go, or the KeyboardInterrupt that a nested run()
\* has ended with.
Exit(t, l) == Active(l) /\ LeavesLoop(t, l) /\ UNCHANGED interrupts

\* SIGINT under default_int_handler is a KeyboardInterrupt in the main thread:
\* in the loop or in its active task,
InterruptLoop(l) ==
  /\ LeavesLoop(MainThread, l)
  /\ interrupts < MaxInterrupts
  /\ interrupts' = interrupts + 1

\* in new_event_loop or set_event_loop, where `?` returns at once,
InterruptSetup(l) ==
  /\ At(MainThread, l, "set") \/ At(MainThread, l, "start")
  /\ interrupts < MaxInterrupts
  /\ interrupts' = interrupts + 1
  /\ calls' = [calls EXCEPT ![MainThread] = Front(@)]
  /\ outcome' = [outcome EXCEPT ![l] = "interrupted"]
  /\ Goto(l, "over")
  /\ cut' = cut \cup {l}
  /\ UNCHANGED <<current, runs, closed, made, task, timer, hop, sleeps>>

\* or in close or set_event_loop(None), where `let _` swallows it and the rest of
\* the call that it struck is not done.
InterruptCleanup(l) ==
  /\ At(MainThread, l, "close") \/ At(MainThread, l, "unset")
  /\ interrupts < MaxInterrupts
  /\ interrupts' = interrupts + 1
  /\ IF phase[l] = "close"
     THEN Goto(l, "unset") /\ UNCHANGED calls
     ELSE /\ Goto(l, "over")
          /\ calls' = [calls EXCEPT ![MainThread] = Front(@)]
  /\ cut' = cut \cup {l}
  /\ UNCHANGED <<current, runs, closed, made, task, timer, hop, outcome, sleeps>>

-----------------------------------------------------------------------------
Call(t, l) == \/ SetLoop(t, l) \/ Start(t, l) \/ Close(t, l) \/ Unset(t, l)
Ends(t, l, j) == \E how \in {"ok", "err"} : End(t, l, j, how)

Next == \/ \E t \in Threads :
             \/ NewLoop(t)
             \/ \E l \in Loops :
                  \/ Call(t, l) \/ Stop(t, l) \/ Spawn(t, l) \/ Exit(t, l)
                  \/ \E j \in Jobs : \/ Step(t, l, j) \/ Sleep(t, l, j)
                                     \/ Yield(t, l, j) \/ Wake(t, l, j)
                                     \/ Ends(t, l, j)
        \/ \E l \in Loops :
             \/ PostOutcome(l)
             \/ InterruptLoop(l) \/ InterruptSetup(l) \/ InterruptCleanup(l)
             \/ \E j \in Jobs : Expire(l, j)

Spec == Init /\ [][Next]_vars
-----------------------------------------------------------------------------
(* Properties                                                              *)

TypeOK ==
  /\ calls \in [Threads -> Seq(Loops)]
  /\ phase \in [Loops -> {"none", "set", "start", "drive", "close", "unset", "over"}]
  /\ current \in [Threads -> Loops \cup {None}]
  /\ runs \in [Threads -> Loops \cup {None}]
  /\ closed \subseteq Loops
  /\ made \in 0..MaxRuns
  /\ task \in [Loops -> [Jobs -> {"none", "ready", "active", "asleep", "ok", "err"}]]
  /\ timer \in [Loops -> [Jobs -> {"none", "armed", "posted", "dropped"}]]
  /\ hop \in [Loops -> {"none", "sent", "posted", "dropped", "taken"}]
  /\ outcome \in [Loops -> {"none", "ok", "err", "refused", "interrupted"}]
  /\ sleeps \in 0..MaxSleeps
  /\ interrupts \in 0..MaxInterrupts
  /\ cut \subseteq Loops

(* A loop that is closed down without an exception out of it has waited    *)
(* until its coroutine was over and the outcome back from the pool, which  *)
(* is the answer of the call: a loop that stops with its coroutine finds   *)
(* none yet.  A nested call is refused without running any of its          *)
(* coroutine, and the loop around it goes on.                              *)
OwnOutcome ==
  \A l \in Loops :
    /\ phase[l] \in {"close", "unset"} =>
         \/ outcome[l] \in {"refused", "interrupted"}
         \/ hop[l] = "taken" /\ outcome[l] = task[l]["main"]
    /\ outcome[l] \in {"ok", "err"} => hop[l] = "taken" /\ task[l]["main"] = outcome[l]
    /\ outcome[l] = "refused" => task[l]["main"] = "ready" /\ hop[l] = "none"
    /\ phase[l] = "drive" => \E t \in Threads : runs[t] = l

(* A call that is over has closed its loop, and a thread that is in no     *)
(* call runs no loop and has none set, whatever way its calls have ended:  *)
(* only a SIGINT in the setup or clean-up of a call may leave more, and no *)
(* more than the loop of that call.                                        *)
LoopsUndone ==
  /\ \A l \in Loops : phase[l] = "over" => l \in closed \cup cut
  /\ \A t \in Threads :
       calls[t] = <<>> => runs[t] = None /\ current[t] \in cut \cup {None}

(* Nothing moves on a loop that is closed: an expiry that comes late is    *)
(* dropped, and wakes no task, of this call or of another.                 *)
ClosedLoopRests ==
  [][\A l \in closed : /\ task'[l] = task[l]
                       /\ outcome'[l] = outcome[l]
                       /\ \A t \in Threads : runs'[t] # l]_vars

(* run() is a drop-in for asyncio.run, which cancels the tasks that are    *)
(* left and lets them clean up: when the call is over, no task that has    *)
(* begun is in the middle of its work.                                     *)
NoTaskAbandoned ==
  \A l \in Loops : phase[l] = "over" /\ outcome[l] # "refused" =>
    \A j \in Jobs : task[l][j] \in {"none", "ok", "err"}
=============================================================================
