----------------------------- MODULE RuntimeInit -----------------------------
(***************************************************************************)
(* How the process gets its one Tokio runtime.  Three entry points race    *)
(* for it from any thread:                                                 *)
(*   - _runtime() in python/ferro_io/__init__.py, reached from run() and   *)
(*     Runner.run(): double-checked locking around a Python global;        *)
(*   - AsyncRuntime(n), called by the user;                                *)
(*   - async_sleep(), which makes sure that the runtime exists.            *)
(* All three end in get_or_init_global() of src/lib.rs, which fills two    *)
(* cells one after the other: the runtime slot of pyo3-async-runtimes      *)
(* (`bridge`, where coroutines and timers are spawned) and GLOBAL_RT       *)
(* (where sleep_many and its siblings run).                                *)
(*                                                                         *)
(* A Python thread is interrupted between two bytecodes only, and on a     *)
(* build with a GIL a native call runs to its end before another thread    *)
(* takes a step.  On a free-threaded build nothing separates the steps.    *)
(***************************************************************************)
EXTENDS Naturals

CONSTANTS Threads,     \* the threads of the process
          MainThread,  \* the one that Python delivers signals to
          Requests,    \* values callers pass as worker_threads
          Cpus,        \* num_cpus::get()
          Gil,         \* TRUE on a build with a global interpreter lock
          MaxFaults,   \* bound on failed builds and keyboard interrupts
          None

ASSUME RuntimeAssumption ==
  /\ MainThread \in Threads
  /\ Requests \subseteq Nat
  /\ Cpus \in Nat \ {0}
  /\ Gil \in BOOLEAN
  /\ MaxFaults \in Nat
  /\ None \notin Threads

VARIABLES
  rt,       \* the Python global _rt: the pool of its AsyncRuntime, or None
  lock,     \* _rt_lock: its owner or None
  global,   \* GLOBAL_RT: a pool or None
  bridge,   \* the pool registered with pyo3-async-runtimes, or None
  size,     \* size[t]: worker threads of the pool t built; 0 if t built none
  gil,      \* the thread inside a native call that holds the GIL, or None
  pc,       \* where each thread is
  caller,   \* caller[t]: the entry point of the call t is in
  want,     \* want[t]: the worker_threads argument of its native call
  found,    \* found[t]: what get_or_init_global returned to it, or None
  handed,   \* handed[t]: the pool behind the last answer t got, or None
  faults    \* failed builds and interrupts so far

vars == <<rt, lock, global, bridge, size, gil, pc, caller, want, found,
          handed, faults>>

\* A pool is named after the thread that built it: a thread that has built one
\* finds GLOBAL_RT filled from then on, and builds no second one.
Pools == Threads

PyLabels == {"idle", "acquire", "check", "store", "release", "return"}
NativeLabels == {"get", "build", "register", "publish", "deliver", "failed"}

Init == /\ rt = None
        /\ lock = None
        /\ global = None
        /\ bridge = None
        /\ size = [t \in Threads |-> 0]
        /\ gil = None
        /\ pc = [t \in Threads |-> "idle"]
        /\ caller = [t \in Threads |-> "none"]
        /\ want = [t \in Threads |-> 0]
        /\ found = [t \in Threads |-> None]
        /\ handed = [t \in Threads |-> None]
        /\ faults = 0

-----------------------------------------------------------------------------
(* The interpreter: what lets thread t take a step.                        *)

Bytecode(t) == Gil => gil = None
Native(t)   == Gil => gil = t
Goto(t, l)  == pc' = [pc EXCEPT ![t] = l]

(* A native call starts at a bytecode and keeps the GIL to its end:        *)
(* get_or_init_global never detaches from the interpreter.                 *)
EnterNative(t, site, n) ==
  /\ Bytecode(t)
  /\ gil' = IF Gil THEN t ELSE None
  /\ caller' = [caller EXCEPT ![t] = site]
  /\ want' = [want EXCEPT ![t] = n]
  /\ Goto(t, "get")

LeaveNative == gil' = None

\* The call of t is over, and with it the call's locals.
Finish(t) == /\ Goto(t, "idle")
             /\ caller' = [caller EXCEPT ![t] = "none"]
             /\ want' = [want EXCEPT ![t] = 0]
             /\ found' = [found EXCEPT ![t] = None]

-----------------------------------------------------------------------------
(* _runtime()                                                              *)

\* (Mutant: the global is returned without a look at it.)
CallRuntimeUnchecked(t) ==
  /\ pc[t] = "idle"
  /\ Bytecode(t)
  /\ Goto(t, "return")
  /\ UNCHANGED <<rt, lock, global, bridge, size, gil, caller, want, found,
                 handed, faults>>

\* `if _rt is None`, outside the lock.
CallRuntime(t) ==
  /\ pc[t] = "idle"
  /\ Bytecode(t)
  /\ Goto(t, IF rt = None THEN "acquire" ELSE "return")
  /\ UNCHANGED <<rt, lock, global, bridge, size, gil, caller, want, found,
                 handed, faults>>

Acquire(t) ==
  /\ pc[t] = "acquire"
  /\ Bytecode(t)
  /\ lock = None
  /\ lock' = t
  /\ Goto(t, "check")
  /\ UNCHANGED <<rt, global, bridge, size, gil, caller, want, found, handed,
                 faults>>

\* The second `if _rt is None`, under the lock: AsyncRuntime() is called with
\* no argument, so the constructor asks for one worker per CPU.
CheckAgain(t) ==
  /\ pc[t] = "check"
  /\ IF rt = None
     THEN EnterNative(t, "runtime", Cpus)
     ELSE /\ Bytecode(t)
          /\ Goto(t, "release")
          /\ UNCHANGED <<gil, caller, want>>
  /\ UNCHANGED <<rt, lock, global, bridge, size, found, handed, faults>>

Store(t) ==
  /\ pc[t] = "store"
  /\ Bytecode(t)
  /\ rt' = found[t]
  /\ Goto(t, "release")
  /\ UNCHANGED <<lock, global, bridge, size, gil, caller, want, found, handed,
                 faults>>

Release(t) ==
  /\ pc[t] = "release"
  /\ Bytecode(t)
  /\ lock' = None
  /\ Goto(t, "return")
  /\ UNCHANGED <<rt, global, bridge, size, gil, caller, want, found, handed,
                 faults>>

\* `return _rt` reads the global again.
Return(t) ==
  /\ pc[t] = "return"
  /\ Bytecode(t)
  /\ handed' = [handed EXCEPT ![t] = rt]
  /\ Finish(t)
  /\ UNCHANGED <<rt, lock, global, bridge, size, gil, faults>>

(* run() has put default_int_handler in place before it calls _runtime():  *)
(* a SIGINT raises KeyboardInterrupt in the main thread at any bytecode,   *)
(* and leaving the `with` block releases the lock.                         *)
Interrupt ==
  /\ pc[MainThread] \in PyLabels \ {"idle"}
  /\ Bytecode(MainThread)
  /\ faults < MaxFaults
  /\ faults' = faults + 1
  /\ lock' = IF lock = MainThread THEN None ELSE lock
  /\ Finish(MainThread)
  /\ UNCHANGED <<rt, global, bridge, size, gil, handed>>

-----------------------------------------------------------------------------
(* AsyncRuntime(n) and async_sleep()                                       *)

\* (Mutant: the number is taken as it comes.)
WorkersUnclamped(n) == n

\* Some(n) or one worker per CPU, and never fewer than one.
Workers(n) == IF n = 0 THEN 1 ELSE n

CallNew(t) ==
  /\ pc[t] = "idle"
  /\ \E n \in Requests \cup {Cpus} : EnterNative(t, "new", Workers(n))
  /\ UNCHANGED <<rt, lock, global, bridge, size, found, handed, faults>>

CallSleep(t) ==
  /\ pc[t] = "idle"
  /\ EnterNative(t, "sleep", Cpus)
  /\ UNCHANGED <<rt, lock, global, bridge, size, found, handed, faults>>

-----------------------------------------------------------------------------
(* get_or_init_global(worker_threads)                                      *)

\* (Mutant: no look at GLOBAL_RT before the build.)
GetGlobalBuilds(t) ==
  /\ pc[t] = "get"
  /\ Native(t)
  /\ Goto(t, "build")
  /\ UNCHANGED <<rt, lock, global, bridge, size, gil, caller, want, found,
                 handed, faults>>

GetGlobal(t) ==
  /\ pc[t] = "get"
  /\ Native(t)
  /\ found' = [found EXCEPT ![t] = global]
  /\ Goto(t, IF global = None THEN "build" ELSE "deliver")
  /\ UNCHANGED <<rt, lock, global, bridge, size, gil, caller, want, handed,
                 faults>>

\* The pool is built and leaked: nothing ever takes it down again.
Build(t) ==
  /\ pc[t] = "build"
  /\ Native(t)
  /\ size' = [size EXCEPT ![t] = want[t]]
  /\ Goto(t, "register")
  /\ UNCHANGED <<rt, lock, global, bridge, gil, caller, want, found, handed,
                 faults>>

\* (Mutant: the runtime is registered before its threads are started.)
BuildFailsLate(t) ==
  /\ pc[t] = "build"
  /\ Native(t)
  /\ faults < MaxFaults
  /\ faults' = faults + 1
  /\ bridge' = IF bridge = None THEN t ELSE bridge
  /\ Goto(t, "failed")
  /\ UNCHANGED <<rt, lock, global, size, gil, caller, want, found, handed>>

\* The operating system refuses the threads: `?` returns before either cell
\* is touched.
BuildFails(t) ==
  /\ pc[t] = "build"
  /\ Native(t)
  /\ faults < MaxFaults
  /\ faults' = faults + 1
  /\ Goto(t, "failed")
  /\ UNCHANGED <<rt, lock, global, bridge, size, gil, caller, want, found,
                 handed>>

\* init_with_runtime: the slot keeps its first content, and the error of a
\* second call is dropped.
Register(t) ==
  /\ pc[t] = "register"
  /\ Native(t)
  /\ bridge' = IF bridge = None THEN t ELSE bridge
  /\ Goto(t, "publish")
  /\ UNCHANGED <<rt, lock, global, size, gil, caller, want, found, handed,
                 faults>>

\* (Mutant: the runtime just built is returned, not the one stored.)
PublishOwn(t) ==
  /\ pc[t] = "publish"
  /\ Native(t)
  /\ global' = IF global = None THEN t ELSE global
  /\ found' = [found EXCEPT ![t] = t]
  /\ Goto(t, "deliver")
  /\ UNCHANGED <<rt, lock, bridge, size, gil, caller, want, handed, faults>>

\* (Mutant: the cell is overwritten.)
PublishLast(t) ==
  /\ pc[t] = "publish"
  /\ Native(t)
  /\ global' = t
  /\ found' = [found EXCEPT ![t] = t]
  /\ Goto(t, "deliver")
  /\ UNCHANGED <<rt, lock, bridge, size, gil, caller, want, handed, faults>>

\* GLOBAL_RT.get_or_init(|| leaked)
Publish(t) ==
  /\ pc[t] = "publish"
  /\ Native(t)
  /\ global' = IF global = None THEN t ELSE global
  /\ found' = [found EXCEPT ![t] = global']
  /\ Goto(t, "deliver")
  /\ UNCHANGED <<rt, lock, bridge, size, gil, caller, want, handed, faults>>

\* The native call returns.  _runtime() has yet to store the object; the user
\* holds his at once; the timer of async_sleep is spawned on the bridge.
Deliver(t) ==
  /\ pc[t] = "deliver"
  /\ Native(t)
  /\ LeaveNative
  /\ IF caller[t] = "runtime"
     THEN Goto(t, "store") /\ UNCHANGED <<caller, want, found, handed>>
     ELSE /\ Finish(t)
          /\ handed' = [handed EXCEPT ![t] = IF caller[t] = "sleep"
                                             THEN bridge ELSE found[t]]
  /\ UNCHANGED <<rt, lock, global, bridge, size, faults>>

\* (Mutant: _rt_lock is acquired and released without `with`.)
FailLocked(t) ==
  /\ pc[t] = "failed"
  /\ Native(t)
  /\ LeaveNative
  /\ Finish(t)
  /\ UNCHANGED <<rt, lock, global, bridge, size, handed, faults>>

\* The native call raises RuntimeError; the `with` block of _runtime() is left.
Fail(t) ==
  /\ pc[t] = "failed"
  /\ Native(t)
  /\ LeaveNative
  /\ lock' = IF lock = t THEN None ELSE lock
  /\ Finish(t)
  /\ UNCHANGED <<rt, global, bridge, size, handed, faults>>

-----------------------------------------------------------------------------
PyStep(t) == \/ Acquire(t) \/ CheckAgain(t) \/ Store(t) \/ Release(t)
             \/ Return(t)
NativeStep(t) == \/ GetGlobal(t) \/ Build(t) \/ BuildFails(t) \/ Register(t)
                 \/ Publish(t) \/ Deliver(t) \/ Fail(t)
Call(t) == CallRuntime(t) \/ CallNew(t) \/ CallSleep(t)

Next == \/ \E t \in Threads : Call(t) \/ PyStep(t) \/ NativeStep(t)
        \/ Interrupt

Spec == Init /\ [][Next]_vars

(* A thread in the middle of a call is not starved.  Fairness is strong    *)
(* because a step waits for the GIL (whose holder is forced to drop it) or *)
(* for _rt_lock, which others may take and release meanwhile.  Nothing     *)
(* makes a thread call again.                                              *)
FairSpec == Spec /\ \A t \in Threads : SF_vars(PyStep(t) \/ NativeStep(t))
-----------------------------------------------------------------------------
(* Properties                                                              *)

(* Tokio's builder panics on zero workers: no caller gets there with zero. *)
WorkersPositive == \A t \in Threads : pc[t] = "build" => want[t] > 0

(* The type invariant; the argument of a build is a positive number.       *)
TypeOK ==
  /\ WorkersPositive
  /\ rt \in Pools \cup {None}
  /\ lock \in Threads \cup {None}
  /\ global \in Pools \cup {None}
  /\ bridge \in Pools \cup {None}
  /\ size \in [Threads -> Nat]
  /\ gil \in Threads \cup {None}
  /\ pc \in [Threads -> PyLabels \cup NativeLabels]
  /\ caller \in [Threads -> {"none", "runtime", "new", "sleep"}]
  /\ want \in [Threads -> Nat]
  /\ found \in [Threads -> Pools \cup {None}]
  /\ handed \in [Threads -> Pools \cup {None}]
  /\ faults \in 0..MaxFaults

\* Thread t is inside the `with _rt_lock` block.
InsideLock(t) ==
  \/ pc[t] \in {"check", "store", "release"}
  \/ pc[t] \in NativeLabels /\ caller[t] = "runtime"

(* _rt_lock is held exactly while its owner is inside the `with` block:    *)
(* neither a pool that cannot be built nor a KeyboardInterrupt at any      *)
(* bytecode of _runtime() leaves it locked, and two threads are never      *)
(* inside together.                                                        *)
LockFollowsBlock == \A t \in Threads : lock = t <=> InsideLock(t)

(* Whatever the interleaving, a thread that leaves get_or_init_global with *)
(* a runtime, and the AsyncRuntime kept in _rt, have the runtime that      *)
(* GLOBAL_RT holds, even when the thread built another one in vain.        *)
HandleIsGlobal ==
  /\ \A t \in Threads : pc[t] \in {"deliver", "store"} =>
       found[t] # None /\ found[t] = global
  /\ rt # None => rt = global

(* Every answer ever given runs on the pool of GLOBAL_RT: AsyncRuntime     *)
(* methods and the timers of async_sleep share one worker pool, as the     *)
(* comment on AsyncRuntime in lib.rs says.                                 *)
OnePool == \A t \in Threads : handed[t] # None => handed[t] = global

(* At most one pool of worker threads is ever built, whoever asks first    *)
(* and whoever's build fails: a second one would be leaked with its        *)
(* threads.                                                                *)
NoPoolLeaked == \A s, t \in Threads : size[s] # 0 /\ size[t] # 0 => s = t

(* The inductive invariant behind the ones above.                          *)

\* With a GIL, a native call is in progress exactly for the holder of the GIL.
GilFollowsNative ==
  \A t \in Threads : IF Gil THEN gil = t <=> pc[t] \in NativeLabels
                            ELSE gil = None

\* The locals of a call, label by label.
CallLocals ==
  \A t \in Threads :
    /\ pc[t] \in NativeLabels => caller[t] # "none" /\ want[t] > 0
    /\ pc[t] \in {"release", "return"} => rt # None

\* Which threads have built a pool, and that only such pools get published.
BuiltPools ==
  /\ \A t \in Threads :
       /\ pc[t] = "build" => size[t] = 0
       /\ pc[t] \in {"register", "publish"} => size[t] # 0
       /\ size[t] # 0 => pc[t] \in {"register", "publish"} \/ global # None
  /\ global # None => size[global] # 0
  /\ bridge # None => size[bridge] # 0

\* With a GIL the two cells are filled by one thread, with one pool.
CellsTogether ==
  Gil => /\ \A t \in Threads :
              /\ pc[t] \in {"build", "register"} => global = None /\ bridge = None
              /\ pc[t] = "publish" => global = None /\ bridge = t
              /\ size[t] # 0 => pc[t] \in {"register", "publish"} \/ global = t
         /\ global # None => bridge = global

IInv == /\ TypeOK
        /\ LockFollowsBlock
        /\ HandleIsGlobal
        /\ GilFollowsNative
        /\ CallLocals
        /\ BuiltPools
        /\ CellsTogether
        /\ Gil => OnePool

(* What is once visible to other threads never changes: the global, the    *)
(* bridge, the Python singleton and the number of workers of the pool in   *)
(* use (the first construction wins, later worker_threads do not count).   *)
CellsWrittenOnce ==
  [][/\ global # None => global' = global /\ size'[global] = size[global]
     /\ bridge # None => bridge' = bridge
     /\ rt # None => rt' = rt]_vars

(* The whole protocol is one write-once cell, seen through what callers    *)
(* are handed.                                                             *)
Once == INSTANCE RuntimeOnce WITH cell <- global
RuntimeIsOnce == Once!Spec

(* Nobody waits for ever: a thread that asks for the runtime gets it or an *)
(* exception, whoever holds the lock, fails to build or is interrupted.    *)
CallsReturn == \A t \in Threads : pc[t] # "idle" ~> pc[t] = "idle"
=============================================================================
