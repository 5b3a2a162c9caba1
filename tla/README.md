# ferro_io in TLA+

TLA+ models of [ferro_io](../src/README.md), an asyncio look-alike whose
coroutines run on an ordinary asyncio loop while its timers, its batch methods
and the hand-over of results run on one process-wide Tokio runtime.  The
modules model the Python package (`src/python/ferro_io/`) and its native
extension (`src/src/`); TLC checks them on small instances, and TLAPS proves the
main results, among them every safety invariant that TLC checks, for any number
of threads and tasks.

## 1. Inventory

| Part (source) | State it keeps | Operations | What makes it hard | What makes it correct |
|---|---|---|---|---|
| Runtime start-up (`__init__.py` 131-141, `lib.rs` 29-55 and 234-243, `runtime.rs`) | `_rt`, `_rt_lock`, `GLOBAL_RT`, the runtime slot of pyo3-async-runtimes | `_runtime()`, `AsyncRuntime(n)`, `async_sleep()` | three entry points race; two cells are filled one after the other; a build may fail, a signal may strike inside the lock | one pool, never a second one, the lock always released, every call comes back |
| `_FastTaskGroup` (`__init__.py` 100-122) | the private attributes of `asyncio.TaskGroup` | `create_task`, and what is inherited | with an eager factory the child's first step runs *inside* `create_task`, between its guards and its bookkeeping; a fast path leaves children untracked | no child outlives the block, no error and no cancellation is lost or made up |
| SIGINT (`__init__.py` 148-174, 190-255) | the process's handler; `_prev`, `_installed`, `_entered`, `_closed` | `run`, `Runner.__enter__/__exit__/run/close` | one handler, saved and restored by nested guards, also in coroutines, on several threads, under interrupts | the application's handler comes back; a running coroutine can be interrupted |
| `install()` (`_install.py`) | `sys.modules`, `_original_asyncio`, `_installed`, the attribute `asyncio` of every module | `install`, `uninstall` | modules are imported while the list of modules is walked; two callers | all modules follow the entry, and go back |
| `run_coroutine` and `sleep` (`lib.rs` 213-249, `__init__.py` 181-187 and 273-289) | the loop of the call, the thread's current loop, timers | `run_coroutine`, `sleep`, `async_sleep` | an outcome crosses two thread boundaries; timers end late, or race with a timeout; calls nest; errors and signals skip steps | the call answers with its own outcome, leaves no loop behind and comes back; an await ends by its own timer |
| Loops and jobs (`__init__.py` 257-266, 319-337) | the thread's current loop, loops made for callers, the loop's executor | `Runner.get_loop`, `get_event_loop`, `new_event_loop`, `run_in_executor` | the answer depends on who asks when; jobs outlive the await that waits for them, and the loop | no closed loop is handed out; an await of a job ends |
| Batch methods (`lib.rs` 66-211) | the tasks of the call, the blocking threads of the pool | `sleep_many`, `run_concurrent`, `map_blocking`, `run_fallible` | tasks end in any order; one may panic; the caller must not hold the GIL that others need | answers in the order of the input, every panic reported, nothing left running |
| Error conversion (`errors.rs`) | none | `JoinError` to `TaskError` to Python exception | | modelled as "raises" in the batch methods |
| Pass-through names, `__getattr__`, getters, module initialisation | none of their own | | | not modelled (see section 6) |

How they interact: `run()` and `Runner.run()` put up the SIGINT guard, ask
`_runtime()` for the runtime, and call `run_coroutine` with the coroutine
wrapped in `_with_eager_factory`, which is what makes `_FastTaskGroup`'s fast
path possible.  `async_sleep` and the batch methods use the same pool from
inside and outside coroutines.  `install()` puts the package in asyncio's place,
so that other libraries reach all of this without knowing.

`PROJECT.json` lists the hazards of each part with their lines and the
properties meant for them.

## 2. The modules

| Module | Models | Composed with |
|---|---|---|
| `RuntimeInit` | the start-up protocol | implements `RuntimeOnce` |
| `RuntimeOnce` | abstract: a cell that is written once | |
| `RuntimeInitProofs` | theorems on `RuntimeInit` | |
| `FastTaskGroup` | `_FastTaskGroup`, with the part of asyncio that it inherits | implements `TaskGroupContract` |
| `TaskGroupContract` | abstract: structured concurrency | |
| `FastTaskGroupProofs` | theorems on `FastTaskGroup` | |
| `SigintGuard` | `_SigintGuard`, `run` and `Runner` | |
| `SigintGuardProofs` | theorems on `SigintGuard` | |
| `Install` | `install` and `uninstall` against imports | |
| `InstallProofs` | theorems on `Install` | |
| `CoroutineRun` | `run_coroutine`, its loop, its timers and nested calls | |
| `CoroutineRunProofs` | theorems on `CoroutineRun` | |
| `RunCall` | a whole call of `run()` or `Runner.run()` | `SigintGuard`, `RuntimeInit` and `CoroutineRun` |
| `RunCallProofs` | theorems on `RunCall` | uses `CoroutineRunProofs`, and `SigintGuardProofs` and `RuntimeInitProofs` for the instances of which `RunCall` is made |
| `LoopApi` | what a coroutine gets: `sleep`, `run_in_executor`, the functions that look for a loop | |
| `LoopApiProofs` | theorems on `LoopApi` | |
| `JoinBatch` | the batch methods, the GIL and the blocking threads | implements `BatchContract` |
| `BatchContract` | abstract: one answer to each call, in the order of its items | |
| `JoinBatchProofs` | theorems on `JoinBatch` | |
| `MC...` | the instance that TLC checks | |

Definitions marked *(Mutant: ...)* are not part of a specification.  Each is a
plausible mistake in the definition that follows it; with it in place the
property that `PROJECT.json` names is violated, which shows that the property
depends on that code.

### RuntimeInit

A thread is at a label between two bytecodes (`PyLabels`) or between two Rust
statements (`NativeLabels`).  `Bytecode(t)` and `Native(t)` say when it may take
a step: with a GIL, native code runs from entry to exit without another thread,
because `get_or_init_global` never detaches; without one, any two steps
interleave.  `found` is the local variable of the native call, `handed` what a
caller was last given.  A pool is named after the thread that built it.
`CallRuntime ... Return` are the lines of `_runtime()`, `GetGlobal ... Publish`
those of `get_or_init_global`; `BuildFails` is the `?` on its second statement,
`Interrupt` a KeyboardInterrupt at any bytecode of `_runtime()`.

### FastTaskGroup

`stack` holds the coroutines that are being run: with an eager task factory a
child runs inside the `create_task` of the coroutine below it, to any depth.
`CreateEager` is `create_task` up to `loop.create_task`; its rest, the fast path
and the bookkeeping, belongs to `Suspend` and `Finish`, which end the child's
first step.  `CreateLazy` is the same without the eager factory.  The inherited
`__aexit__` is `LeaveBody`, `WaitStep` and their operator `Aexit`;
`_on_task_done` with `_abort` is `OnTaskDone`.  `Task.cancel`, `uncancel` and
the pending cancellation are `cancels` and `interrupt`.  `external` and `asked`
are history variables.  asyncio runs ready callbacks in order; the model runs
any of them next, which allows every order asyncio has and more.

### SigintGuard

`handler` is the process's handler, `wanted` the one the application set last.
Steps end where CPython checks for signals: the call of `signal.signal` and the
assignments after it are two steps (`Swap`, `Record`).  `frames[t]` are the
`with` blocks of a thread.  `loose = {}` is the documented use: each Runner in
one `with` block of one thread.  The Runners in `loose` are entered, run and
closed by any thread in any order; `loose` never changes.  `coroutine[t]` is the
nesting of calls: a coroutine that calls `run()` puts a second guard over the
first, and one that calls `Runner.run()` puts none.  Off the main thread
`signal.signal` refuses: `Swap` notes the guard as not installed, and `Restore`
swallows the refusal.  `reported` is a history variable: an exit has raised
`TypeError`.

### Install

One step per statement of `install()` and `uninstall()`, and two per module
visited by `_rebind_to` (`Look` is its getattr, `Rebind` its setattr); imports
(`Fetch`, `Bind`) go on between any two of them. `Deliberate` modules say
`import ferro_io as asyncio`, `Frozen` ones refuse `setattr`. A module whose
import statement looked the package up before the entry was replaced and binds
it after is in `straddles`: no version of `install()` could see it.

### CoroutineRun

A call and its loop share a number.  `NewLoop ... Unset` are the statements of
`run_coroutine`; `Step`, `Sleep`, `Yield`, `Spawn`, `End` and `Wake` are what the
loop and the coroutine do between `Start` and `Stop`.  `timer` and `hop` are
the two ways from Tokio back to the loop: each ends with a post that a closed
loop refuses.  The coroutine may create one task and may call `run()` again.
`Exit` is an exception that a loop does not keep, SystemExit or the
KeyboardInterrupt of a nested call: it leaves the loop at once, as a SIGINT does
(`InterruptLoop`), and nothing of it goes through the pool.

### RunCall

The composition of three components into one call in the main thread.  It
EXTENDS `CoroutineRun` and instantiates `SigintGuard` and `RuntimeInit` with
variables of their own; each of its actions is a step of one of them, and
`stage` says which is next: the guard goes up, `_runtime()` answers or fails,
`run_coroutine` runs, the guard comes down.  `Ending` is the way back from
`run_coroutine`, by whichever of its steps it is left.  A SIGINT may strike in
each component and between any two of them (`InterruptGuard`,
`InterruptRuntime`, `InterruptBetween`, `InterruptCall`).  A coroutine may call
`run()` or `Runner.run()` again, which is refused by the nested loop and still
goes through all three.  One budget, `MaxInterrupts`, serves SIGINTs and failed
builds.

### LoopApi

What code that is driven by one call of `run_coroutine` sees.  `Dispatch` is the
`if` of `sleep()`: a yield, a future whose Tokio timer runs already, or a
coroutine that starts it at the await; a delay that is refused raises in the
call, or, with a result, at the await.  A job of `run_in_executor` is a
coroutine, too.  `ops` numbers sleeps and jobs; `fut[o]` is the asyncio future
and `work[o]` the timer or job behind it, in another thread.  `Timeout` is
`asyncio.timeout` or `wait_for`: it cancels what a task waits for at any moment,
between the expiry of the timer and its arrival on the loop (`Expire`,
`Complete`) included.  `Begin ... Unset` are `run_coroutine` again, seen from
outside, between an application that may have set a loop of its own and callers
of `get_event_loop`, `new_event_loop` and `Runner.get_loop`, whose answer is
`handed`.  `Call` is the loop of the call; the others are numbered as they are
made.  What becomes of tasks that are left at the end is `CoroutineRun`'s
matter.

### JoinBatch

A batch is one call of one method by one thread.  Each task is polled twice,
since each has one `await` (`yield_now`, a timer, or `spawn_blocking`).  `out` is
the vector of the code, sorted in `JoinedAll`.  `queued` and `running` are the
jobs of the blocking threads: closures of `map_blocking`, and expired timers,
which pyo3-async-runtimes answers from there and which need the GIL.  When a
call raises, the tasks that are left are aborted, but a poll that is in progress
goes on to its end: an `aborting` task of `map_blocking` still starts its
closure.  Items are
words modulo `Word`; `Square` and `Chain` wrap around as `wrapping_mul` and
`wrapping_add` do.  `BatchContract` sees of a call what its caller sees: what was
asked (`Request`, with what each item comes to), which tasks are alive (`Work`),
and the one answer.

## 3. Runs

| Run | Checks | Instance |
|---|---|---|
| `runtime_gil` | `OnePool`, `NoPoolLeaked`, refinement `RuntimeIsOnce`, liveness `CallsReturn` | 3 threads, GIL, 2 faults |
| `runtime_free` | `TypeOK`, `LockFollowsBlock`, `HandleIsGlobal`, `CellsWrittenOnce` | 3 threads, no GIL, 1 fault |
| `group_safe` | type, `NoOrphan`, `NoErrorLost`, `AbortReachesAll`, `CancelNotSwallowed`, `NoStrayCancel`, refinement `KeepsContract` | 2 eager children and 1 that is not, 2 outside cancellations |
| `group_live` | liveness `ExitCompletes`, `AbortCompletes` | 2 eager children, 1 outside cancellation |
| `sigint` | type, `RestoredAfterUse`, `InterruptibleWhileRunning`, `LossIsReported` | 2 threads, 2 Runners used as documented or 1 used in any way, `with` blocks and coroutines nested 2 deep, 2 interrupts |
| `sigint_reuse` | `RestoredHowever` is **violated**, see below | 1 Runner |
| `install_serial` | type, `AllHooked`, `Restored`, `ReboundWithEntry` | 4 modules, 4 calls one at a time |
| `install_race` | `Restored` is **violated** with two callers | 1 module, 3 calls |
| `coroutine` | types of three modules, `AllUndone`, `LoopsUndone`, `OwnOutcome`, `ClosedLoopRests`, liveness `CallReturns` | 2 whole calls in the main thread, 1 Runner, 2 sleeps, 1 interrupt or failed build |
| `loop_api` | type, `OwnWake`, `OpenLoopsHanded`, liveness `AwaitsEnd` | 2 tasks, 2 sleeps or jobs, 1 executor thread, 1 timeout, 2 more loops |
| `coroutine_abandon` | `NoTaskAbandoned` is **violated**, see below | 1 call |
| `batch` | type, `PanicsAreRaised`, `NoneLeftBehind`, refinement `KeepsContract` (which says more than `InInputOrder`), liveness `BatchReturns` | 1 call of 0 or 3 items, 1 timer, 1 blocking thread, 1 fault |

What the violations show (`PROJECT.json`, "findings"):

* A Runner that is used again after `close()` keeps the application's SIGINT
  handler for good.
* Two concurrent `install()`s lose the original asyncio.
* `run()` does not cancel the tasks that are left, as `asyncio.run` does.

More behaviours are in the models and outside of the properties:

* On a free-threaded build, which the repository has not audited, two threads
  can win one cell of `get_or_init_global` each, so that timers and methods run
  on different pools: `OnePool` is about builds with a GIL.
* A handler that was not installed from Python cannot be restored, and the
  attempt raises `TypeError`: `RestoredAfterUse` leaves it out, and
  `LossIsReported` says that the loss is never silent.  Where a Runner that the
  main thread has entered is closed by another thread, the refusal is swallowed
  and the handler stays replaced; such Runners are in `loose`.  And where
  `asyncio.Runner` leaves an application's own handler alone, `_SigintGuard`
  replaces it for the time of the run (`Swap`).
* A SIGINT in the setup or clean-up of `run_coroutine` leaves the loop of that
  call open or current, and one in the clean-up is dropped with the result of
  `close()`; `Runner.get_loop()` may then hand out a closed loop.  `LoopsUndone`
  and `OpenLoopsHanded` bound the damage to such calls (`cut`).  A SIGINT in a
  method of a guard (`torn`) can leave `default_int_handler` in place, and
  `AllUndone` says that it can leave nothing worse.
* `sleep(d)` without a result returns a future, not a coroutine: it raises
  outside of a loop, `create_task` and `run` refuse it, and its timer runs from
  the call on, so that two sleeps made together and awaited in turn overlap.
  `__init__.py:276` says that it matches `asyncio.sleep`.
* A `map_blocking` that raises leaves closures behind on the blocking threads,
  and one may start after the exception: `NoneLeftBehind` speaks of closures for
  calls that return only.
* An import that has looked asyncio up before `install()` and binds it after is
  not rebound (`straddles`).
* Jobs of the executor go on after the call has returned: `close()` shuts the
  executor down without waiting, where `asyncio.run` joins its threads.
* Each `Runner.run()` has a new loop, so that loop-bound objects cannot be taken
  from one to the next, whatever "share state" at `__init__.py:212` means.

### Bounds, and why they are enough

Three threads are needed for a race of two in front of a third that arrives
late (`RuntimeInit`); three children for one that fails, one that it cancels and
one that is created meanwhile (two for liveness, where every fair cycle has
to be looked at); two Runners and nesting two for every pair of
save and restore; an ordinary module, one that deliberately uses ferro_io, one
that is frozen and one more for a walk that is under way; two calls for
"nested" and "the one before" (calls of two threads share nothing that
`run_coroutine` keeps, and a call off the main thread has no guard); two sleeps
or jobs, of one task for a late expiry that meets the next await, of two for a
job that waits for a thread; three items, two of them equal,
for the sort and for equal failures, and one blocking thread and one timer for
a pool that has no thread left.  `MaxFaults`, `MaxInterrupts`,
`MaxCancels`, `MaxSets`, `MaxSleeps`, `MaxRuns`, `MaxNest`, `MaxOps`,
`MaxTimeouts`, `MaxLoops`, `MaxCalls` and `MaxDepth` only cut infinite repetition.
What TLAPS proves holds for every value of them.
Words have four bits; 13 is the remainder of both constants of `map_blocking`.

Deadlock is checked except where calls are numbered and the system stops when
they are used up (`Install`, `RunCall`, `LoopApi`).  In `FastTaskGroup`, `SigintGuard`
and `JoinBatch` something can always run; in `batch` this check is what
a batch that joined without `py.detach` would fail.

Symmetry is used over threads and over the eager children, in runs that check
safety only; runs with liveness use none.

### Fairness

* `RuntimeInit`: a thread in a call keeps getting steps.  It is strong because
  the GIL, and `_rt_lock`, may be taken by others first; CPython forces the
  holder of the GIL to drop it.  Nothing makes a thread call.
* `FastTaskGroup`: every ready callback is run (asyncio's queue is first come,
  first served), and a coroutine comes to an `await` or an end.  What children
  wait for need not arrive, except for what a cancelled coroutine awaits while
  it cleans up (`CleanupSpec`); `ExitCompletes` adds the rest as a premise.
* `RunCall`: the main thread goes on in its guard, in `_runtime()` and in
  `run_coroutine`; timers expire, the pool posts, the loop runs what is ready,
  and a coroutine ends after finitely many sleeps.  Nothing makes an application
  call.
* `LoopApi`: timers expire and jobs end; the executor and the loop take what
  waits in the order of its arrival (strong, since a free thread, or a task that
  has come to its next await, is needed); a coroutine comes to an await or an
  end.  No timeout need strike.
* `JoinBatch`: Tokio polls ready tasks, its queue of blocking jobs is first in
  first out, and Python threads drop the GIL.

## 4. Proofs

`RuntimeInitProofs` proves, for any set of threads, any worker requests and any
number of faults: `TypeCorrect`, `LockDiscipline`, `HandlesShareGlobal`,
`BuilderGetsWorkers` (`WorkersPositive`, a conjunct of `TypeOK`) and
`CellsStable` with or without a GIL, and with a GIL
`GilGivesOnePool`, `GilBuildsOnce` and `GilImplementsOnce` (every step fills the
abstract cell, hands its content out, or is invisible).  The inductive
invariant `IInv` adds to the properties what they silently rely on: that a
native call is in progress exactly for the holder of the GIL
(`GilFollowsNative`), which threads have built a pool (`BuiltPools`), and that
with a GIL both cells are filled by one thread (`CellsTogether`).

`FastTaskGroupProofs` proves, for any number of children, any nesting of eager
first steps and any number of cancellations: the type invariant, `NoOrphan`,
`NoErrorLost`, `AbortReachesAll`, `CancelNotSwallowed`, `NoStrayCancel`, that
the count of cancellations is exact (`CancelCountBalanced`), and that the group
implements `TaskGroupContract`.  The inductive invariant needs the shape of the
stack (`StackShape`): every child in its eager first step sits above the
coroutine whose `create_task` runs it, and the loop runs no callback until the
stack is empty.  From it follows `GuardsNotStale`: the guards that `create_task`
read before the first step still hold when it tracks the child.  `Tracked`,
`Reasons` and `Pending` say which children are in `_tasks`, why a group aborts,
and where a cancellation is on its way.

`SigintGuardProofs` proves `TypeOK` for any program, however it uses its
Runners, and for disciplined ones (`loose = {}`) `RestoredAfterUse`,
`InterruptibleWhileRunning` and `LossIsReported`, for any threads, Runners,
nesting, SIGINTs and handlers. The argument is that guards come down in the
reverse order of going up. `Apart` says that a Runner serves one thread and is
entered once; `Nested`, that the blocks of the main thread hold Runners below
and calls of `run()` above, each with its coroutine; `Chain`, that each guard
that is up has recorded what the blocks below it leave: `default_int_handler` if
one of them is up, and otherwise the application's own handler, or what has
taken its place since an exit has reported that it could not restore it (`Own`).
The last guard to come down therefore restores that one, and if it is not the
application's the loss has been reported.

`InstallProofs` proves `TypeOK` for any calls, and `AllHooked`, `Restored` and
`ReboundWithEntry` for calls one at a time (`Serial`), for any modules and any
imports meanwhile.  `Phases` relates the entry of `sys.modules` to the
statement a call is at.  `Imports` says that a module which has found the other
entry is in `straddles`.  `Walk` says that a module is right already or still to
be visited.

`CoroutineRunProofs` proves `TypeOK`, `OwnOutcome`, `LoopsUndone` and
`ClosedLoopRests` for any threads and any number of calls, nested and one after
the other, of sleeps and of SIGINTs.  `CallsNest` says that no two threads are
in one call and that inner calls are younger; `OneRuns`, that the loop which
runs in a thread is that of a call it is in, so that a call which stops its
loop stops no other; `Currents`, that the loop which is set belongs to a call in
progress or to one that was cut; `Phases` and `Outcomes`, what tasks, timers and
the outcome may be at each statement.  Hence a closed loop is that of a call
which is past every step that touches it.

`RunCallProofs` carries three parts of proof into whole calls.  Each step of
`RunCall` is one of `CoroutineRun` or leaves its variables alone, and the
invariant of `CoroutineRun` does not mention `interrupts`, which the components
share: so `OwnOutcome`, `LoopsUndone` and `ClosedLoopRests` hold of whole calls.
Likewise each step is one of the guard and one of the start-up, or rests
(`GuardSees`, `RuntimeSees`), so that the invariants of `SigintGuardProofs` and
`RuntimeInitProofs` hold of the instances; their proofs are taken over with
INSTANCE, not repeated.  None of the three says anything of the others.  That is
`Link`, the invariant of the composition: outside of _runtime() the main thread
is in none of its labels, a call that has passed its guard is in no method of a
guard, and there is one more guarded call than there are calls of `run_coroutine`
exactly while the innermost one has not begun or is over.  `NoStranger` says that
nobody puts another handler in place than the application's and
`default_int_handler`.  From these follow `RunTypeOK` and `AllUndone`: with no
guarded call there is no call of `run_coroutine`, no thread inside `_rt_lock`,
and the handler is the application's, or `default_int_handler` when a SIGINT has
cut a method of a guard short.

`LoopApiProofs` proves `TypeOK`, `OwnWake` and `OpenLoopsHanded` for any tasks,
sleeps, jobs, timeouts and loops and any size of the executor.  The invariant
says which operations exist (`Made`, `Quiet`, by counting what waits for the
executor), that a future which is over has a reason (`FuturesOver`), that a task
is woken by the future it waits for (`Woken`), and which loops are open
(`LoopsInOrder`).

`JoinBatchProofs` proves `TypeOK`, `InInputOrder`, `PanicsAreRaised` and
`NoneLeftBehind` for any number of batches at a time, of items, of blocking
threads and of faults.  The invariant is about one batch at a time: `Spawned`
says which items have a task, `Fates` that the fate of a task agrees with what
its closure or timer has done, `Answers` that `out` has one pair for every task
that was joined with an answer and that the pair is the right one, `InOrder`
that after `sort_by_key` the pair at place i is that of item i, `Raises` that an
exception has a cause, and `Pooled` which jobs the pool still has.  Two facts
about data come first: sorting n pairs with the keys 1 to n puts key i at place
i (`KeysCover`, `SortedIs`), and the recursive function `Chain` of `map_blocking`
has values and stays a word (`ChainExists`, `ChainType`).  The second is an induction over the
number of iterations, done by the smallest counterexample (`NatMin`), since the
induction rule of the library is not available to the provers.
`BatchesKeepContract` is the refinement, step by step: `Call` asks, `Spawn` starts
an item's work, the last poll of a task stops it, `JoinedAll` returns, `JoinFails`
raises and aborts what is left, and everything else, of this batch and of all
others, is a stutter.  The two steps that answer need the invariant: that no task
is alive then, and that the sorted list is the one asked for.

TLC has checked each `IInv`, and `Link` and `NoStranger` of `RunCallProofs`, as
invariants of the instance.

Assumptions: those named in the modules (`RuntimeAssumption`,
`GroupAssumption`, `GuardAssumption`, `InstallAssumption`, `RunAssumption`,
`ApiAssumption`, `CallAssumption`, `BatchAssumption`), which say no more than
that the constants are of the right kind: that bounds are numbers, that the main
thread is a thread, that Runners and `None` are not numbers, that words have at
least one value and that items are words, and no more of them than a word can count.

Only model-checked: all liveness (it needs fairness and ENABLED, outside the
prover's reach).  That the three disagreements exist is shown by the
counterexamples of TLC.

## 5. Plan

1. `CoroutineRun`: the abstract "a call has one outcome", and the refinement.
2. More action properties: what a step of one call may never do to another.

## 6. Not modelled

* Which exception type and text an error becomes (`errors.rs`): formatting.
* Pass-through names and `__getattr__`: asyncio's own objects.
* Getters and module initialisation: constants after construction.
* Argument checks that raise before any state changes (`loop_factory`, what is
  not a coroutine).
* A signal handler of the application that calls `run()`, which can wait for
  `_rt_lock` in its own thread: under a guard the SIGINT handler is
  `default_int_handler`, and no code of the repository installs another.
* Calls of `run()` by coroutines of other threads: they touch neither handler
  nor guard, and `run_coroutine` shares nothing between threads.
* The inside of Tokio, of pyo3-async-runtimes and of CPython beyond what the
  code relies on; those definitions are marked external in `PROJECT.json`.
* Benchmarks, tests and CI: tests were read as statements of intent.
