------------------------------- MODULE RunCall -------------------------------
(***************************************************************************)
(* A whole call of run() or Runner.run() in the main thread.  It goes      *)
(* through three components, one inside the other: the guard that replaces *)
(* the SIGINT handler (SigintGuard), _runtime(), which may have to build   *)
(* the Tokio runtime and may fail to (RuntimeInit), and run_coroutine with *)
(* its loop (CoroutineRun, which this module extends).  A SIGINT may       *)
(* strike in any of them, and a coroutine may call run() again.            *)
(***************************************************************************)
EXTENDS CoroutineRun

CONSTANTS Runners,  \* the Runner objects
          Initial,  \* the SIGINT handlers the application may start with
          Cpus      \* num_cpus::get()

VARIABLES
  handler, wanted, prev, installed, entered, shut, frames, doing, coroutine,
  torn,   \* a KeyboardInterrupt struck inside a method of a guard
  reported,
  rt, lock, global, bridge, size, gil, pc, caller, want, found, handed,
  stage   \* what the main thread does between the methods of its guards:
          \*   "code": the application's code, or run_coroutine
          \*   "ask":  it calls _runtime()
          \*   "wait": it is in _runtime()
          \*   "loop": it has the runtime and calls run_coroutine
          \*   "end":  the call is over, by a return or an exception

guardVars == <<handler, wanted, prev, installed, entered, shut, frames, doing,
               coroutine, torn, reported>>
startVars == <<rt, lock, global, bridge, size, gil, pc, caller, want, found,
               handed>>
loopVars == <<calls, phase, current, runs, closed, made, task, timer, hop,
              outcome, sleeps, cut>>
allVars == <<guardVars, startVars, loopVars, interrupts, stage>>

\* One budget for SIGINTs and for builds that fail; a disciplined program.
Guard == INSTANCE SigintGuard
         WITH Threads <- {MainThread}, Uses <- {{}}, MaxNest <- 2, MaxDepth <- 1,
              MaxSets <- 0, loose <- {}, sets <- 0, closed <- shut, cut <- torn
Runtime == INSTANCE RuntimeInit
           WITH Threads <- {MainThread}, Requests <- {}, Gil <- TRUE,
                MaxFaults <- MaxInterrupts, faults <- interrupts

ASSUME CallAssumption ==
  /\ Runners \cap Nat = {}
  /\ Initial \subseteq Guard!Handlers
  /\ Cpus \in Nat \ {0}
  /\ None \notin Threads

main == MainThread

RunInit == /\ Init
           /\ Guard!Init
           /\ Runtime!Init
           /\ stage = "code"

\* The main thread is in no method of a guard, and at s.
Does(s) == Guard!InBody(main) /\ stage = s

-----------------------------------------------------------------------------
(* The guard                                                               *)

\* A call may be made outside of every loop, or by a coroutine.
MayCall == /\ Does("code")
           /\ made < MaxRuns
           /\ \/ calls[main] = <<>>
              \/ Drives(main, Last(calls[main])) /\ Active(Last(calls[main]))

CallRun == /\ MayCall
           /\ Guard!CallRun(main)
           /\ UNCHANGED <<startVars, loopVars, stage>>

\* Runner.run() goes without a guard of its own.  (What a Runner does with its
\* guard in a `with` block is SigintGuard's matter: the Runner here is in none.)
CallRunner(r) == /\ MayCall
                 /\ Guard!RunnerRun(main, r)
                 /\ stage' = "ask"
                 /\ UNCHANGED <<startVars, loopVars>>

\* A step of __enter__, __exit__ or close(); __enter__ of run() goes on to
\* `_runtime()`.
GuardStep ==
  /\ \/ Guard!Swap(main) \/ Guard!Record(main) \/ Guard!Mark(main)
     \/ Guard!Close(main) \/ Guard!NothingToRestore(main)
     \/ Guard!Restore(main) \/ Guard!Unset(main)
  /\ stage' = IF coroutine' = coroutine THEN stage ELSE "ask"
  /\ UNCHANGED <<startVars, loopVars>>

\* The call returns or raises, through the guard of run().
EndCall == /\ Does("end")
           /\ Guard!CoroutineEnds(main)
           /\ stage' = "code"
           /\ UNCHANGED <<startVars, loopVars>>

-----------------------------------------------------------------------------
(* _runtime()                                                              *)

AskRuntime == /\ Does("ask")
              /\ Runtime!CallRuntime(main)
              /\ stage' = "wait"
              /\ UNCHANGED <<guardVars, loopVars>>

BuildRuntime ==
  /\ Does("wait")
  /\ \/ Runtime!Acquire(main) \/ Runtime!CheckAgain(main)
     \/ Runtime!GetGlobal(main) \/ Runtime!Build(main) \/ Runtime!BuildFails(main)
     \/ Runtime!Register(main) \/ Runtime!Publish(main) \/ Runtime!Deliver(main)
     \/ Runtime!Store(main) \/ Runtime!Release(main)
  /\ UNCHANGED <<guardVars, loopVars, stage>>

GotRuntime == /\ Does("wait")
              /\ Runtime!Return(main)
              /\ stage' = "loop"
              /\ UNCHANGED <<guardVars, loopVars>>

\* AsyncRuntime() has raised: the call ends without a loop.
NoRuntime == /\ Does("wait")
             /\ Runtime!Fail(main)
             /\ stage' = "end"
             /\ UNCHANGED <<guardVars, loopVars>>

-----------------------------------------------------------------------------
(* run_coroutine, and the loop                                             *)

CallCoroutine == /\ Does("loop")
                 /\ NewLoop(main)
                 /\ stage' = "code"
                 /\ UNCHANGED <<guardVars, startVars>>

\* A step that may end run_coroutine.
Ending(step) ==
  /\ Does("code")
  /\ step
  /\ stage' = IF Len(calls'[main]) < Len(calls[main]) THEN "end" ELSE stage
  /\ UNCHANGED <<guardVars, startVars>>

CallStep(l) == Ending(Call(main, l))
StopStep(l) == Ending(Stop(main, l))
TaskStep(l, j) == Ending(Step(main, l, j) \/ Wake(main, l, j) \/ Ends(main, l, j))
AwaitStep(l, j) == Ending(Sleep(main, l, j) \/ Yield(main, l, j))
SpawnStep(l) == Ending(Spawn(main, l))
ExitStep(l) == Ending(Exit(main, l))
PoolStep(step) == step /\ UNCHANGED <<guardVars, startVars, stage>>

-----------------------------------------------------------------------------
(* SIGINT, while the handler is default_int_handler                        *)

\* In a method of a guard, or in _runtime().
InterruptGuard == /\ ~Guard!InBody(main)
                  /\ Guard!Interrupt
                  /\ UNCHANGED <<startVars, loopVars, stage>>

InterruptRuntime == /\ Does("wait")
                    /\ handler = "default"
                    /\ Runtime!Interrupt
                    /\ stage' = "end"
                    /\ UNCHANGED <<guardVars, loopVars>>

\* Between the components.
InterruptBetween == /\ Does("ask") \/ Does("loop")
                    /\ handler = "default"
                    /\ interrupts < MaxInterrupts
                    /\ interrupts' = interrupts + 1
                    /\ stage' = "end"
                    /\ UNCHANGED <<guardVars, startVars, loopVars>>

\* In run_coroutine.
InterruptCall(l) ==
  /\ handler = "default"
  /\ Ending(InterruptLoop(l) \/ InterruptSetup(l) \/ InterruptCleanup(l))

-----------------------------------------------------------------------------
MainStep == \/ GuardStep \/ EndCall
            \/ AskRuntime \/ BuildRuntime \/ GotRuntime \/ NoRuntime
            \/ CallCoroutine
            \/ \E l \in Loops : CallStep(l)

RunNext == \/ CallRun \/ MainStep
           \/ \E r \in Runners : CallRunner(r)
           \/ InterruptGuard \/ InterruptRuntime \/ InterruptBetween
           \/ \E l \in Loops :
                \/ StopStep(l) \/ SpawnStep(l) \/ ExitStep(l) \/ InterruptCall(l)
                \/ PoolStep(PostOutcome(l))
                \/ \E j \in Jobs : \/ TaskStep(l, j) \/ AwaitStep(l, j)
                                   \/ PoolStep(Expire(l, j))

(* The main thread goes on in its guards, in _runtime() and in             *)
(* run_coroutine; timers expire, the pool posts, and the loop runs what is *)
(* ready in the order in which it was posted.  A step of the loop waits    *)
(* for the task that is active, so that its fairness is strong; a          *)
(* coroutine does not run for ever without an await, nor for more than     *)
(* MaxSleeps of them.                                                      *)
RunSpec ==
  /\ RunInit /\ [][RunNext]_allVars
  /\ WF_allVars(MainStep)
  /\ \A l \in Loops :
       /\ WF_allVars(PoolStep(PostOutcome(l)))
       /\ SF_allVars(StopStep(l))
       /\ \A j \in Jobs : /\ WF_allVars(PoolStep(Expire(l, j)))
                          /\ SF_allVars(TaskStep(l, j))
-----------------------------------------------------------------------------
(* Properties                                                              *)

RunTypeOK == /\ TypeOK
             /\ Guard!TypeOK
             /\ Runtime!TypeOK
             /\ stage \in {"code", "ask", "wait", "loop", "end"}

\* No call is in progress in the main thread.
Outside == coroutine[main] = <<>> /\ frames[main] = <<>> /\ Guard!InBody(main)

(* Whichever component of the call fails or is interrupted, the ones       *)
(* around it undo what they have done: when no call is in progress the     *)
(* application has its handler back, _rt_lock is free, and run_coroutine   *)
(* has returned as often as it was called, so that LoopsUndone holds of    *)
(* the thread.  A SIGINT in the middle of a guard's own method can leave   *)
(* no worse than default_int_handler.                                      *)
AllUndone ==
  Outside =>
    /\ lock = None
    /\ calls[main] = <<>>
    /\ handler = wanted \/ (handler = "default" /\ (torn \/ wanted = "foreign"))

(* Every call comes back, through its guard, though the runtime may not be *)
(* built, a SIGINT may strike anywhere and the outcome may be on its way   *)
(* through the pool when the loop is left.                                 *)
CallReturns == coroutine[main] # <<>> ~> coroutine[main] = <<>> /\ Guard!InBody(main)
=============================================================================
