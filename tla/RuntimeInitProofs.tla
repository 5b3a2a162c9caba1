-------------------------- MODULE RuntimeInitProofs --------------------------
(***************************************************************************)
(* Proofs about RuntimeInit for any set of threads, any arguments and any  *)
(* number of faults.  One inductive invariant, IInv, serves the builds     *)
(* with and without a GIL; the part that needs the GIL is guarded by it.   *)
(***************************************************************************)
EXTENDS RuntimeInit, TLAPS

USE RuntimeAssumption

-----------------------------------------------------------------------------
(* The invariant is inductive: first, it holds at the start.               *)
LEMMA InitEstablishes == Init => IInv
  BY DEF Init, IInv, TypeOK, WorkersPositive, LockFollowsBlock, InsideLock, HandleIsGlobal,
         GilFollowsNative, CallLocals, BuiltPools, CellsTogether, OnePool,
         Pools, PyLabels, NativeLabels

\* A call of any of the three entry points: at most the GIL is taken, and no
\* cell changes.
LEMMA CallPreserves == ASSUME IInv, NEW t \in Threads, Call(t) PROVE IInv'
  <1> USE DEF IInv, TypeOK, WorkersPositive, LockFollowsBlock, InsideLock, HandleIsGlobal,
              GilFollowsNative, CallLocals, BuiltPools, CellsTogether, OnePool,
              Pools, PyLabels, NativeLabels, Goto, Bytecode
  <1>1. CASE CallRuntime(t)
    BY <1>1 DEF CallRuntime
  <1>2. CASE CallNew(t)
    BY <1>2 DEF CallNew, EnterNative, Workers
  <1>3. CASE CallSleep(t)
    BY <1>3 DEF CallSleep, EnterNative
  <1>4. QED
    BY <1>1, <1>2, <1>3 DEF Call

\* The Python steps of _runtime(): the lock and _rt change here.
LEMMA PyPreserves == ASSUME IInv, NEW t \in Threads, PyStep(t) PROVE IInv'
  <1> USE DEF IInv, TypeOK, WorkersPositive, LockFollowsBlock, InsideLock, HandleIsGlobal,
              GilFollowsNative, CallLocals, BuiltPools, CellsTogether, OnePool,
              Pools, PyLabels, NativeLabels, Goto, Bytecode
  <1>1. CASE Acquire(t)
    BY <1>1 DEF Acquire
  <1>2. CASE CheckAgain(t)
    BY <1>2 DEF CheckAgain, EnterNative
  <1>3. CASE Store(t)
    BY <1>3 DEF Store
  <1>4. CASE Release(t)
    BY <1>4 DEF Release
  <1>5. CASE Return(t)
    <2>1. rt = global /\ rt # None
      BY <1>5 DEF Return
    <2>2. QED
      BY <1>5, <2>1 DEF Return, Finish
  <1>6. QED
    BY <1>1, <1>2, <1>3, <1>4, <1>5 DEF PyStep

\* The native steps: pools are built, and the two cells are filled.
LEMMA NativePreserves ==
  ASSUME IInv, NEW t \in Threads, NativeStep(t) PROVE IInv'
  <1> USE DEF IInv, TypeOK, WorkersPositive, LockFollowsBlock, InsideLock, HandleIsGlobal,
              GilFollowsNative, CallLocals, BuiltPools, CellsTogether, OnePool,
              Pools, PyLabels, NativeLabels, Goto, Native
  <1>1. CASE GetGlobal(t)
    BY <1>1 DEF GetGlobal
  <1>2. CASE Build(t)
    <2> USE <1>2 DEF Build
    <2>1. global # t /\ bridge # t
      OBVIOUS
    <2>2. BuiltPools' /\ CellsTogether'
      BY <2>1
    <2>3. QED
      BY <2>2
  <1>3. CASE BuildFails(t)
    BY <1>3 DEF BuildFails
  <1>4. CASE Register(t)
    <2> USE <1>4 DEF Register
    <2>1. Gil => global = None /\ bridge' = t
      OBVIOUS
    <2>2. BuiltPools' /\ CellsTogether'
      BY <2>1
    <2>3. QED
      BY <2>2
  <1>5. CASE Publish(t)
    <2> USE <1>5 DEF Publish
    <2>1. global' # None /\ (global # None => global' = global)
      OBVIOUS
    <2>2. HandleIsGlobal'
      BY <2>1
    <2>3. Gil => global = None /\ bridge = t
      OBVIOUS
    <2>4. CellsTogether' /\ (Gil => OnePool)'
      BY <2>3
    <2>5. QED
      BY <2>1, <2>2, <2>4
  <1>6. CASE Deliver(t)
    <2> USE <1>6 DEF Deliver, LeaveNative, Finish
    <2>1. found[t] = global /\ global # None
      OBVIOUS
    <2>2. Gil => bridge = global
      BY <2>1
    <2>3. (Gil => OnePool)'
      BY <2>1, <2>2
    <2>4. QED
      BY <2>1, <2>3
  <1>7. CASE Fail(t)
    BY <1>7 DEF Fail, LeaveNative, Finish
  <1>8. QED
    BY <1>1, <1>2, <1>3, <1>4, <1>5, <1>6, <1>7 DEF NativeStep

\* A KeyboardInterrupt in _runtime() gives the lock back.
LEMMA InterruptPreserves == ASSUME IInv, Interrupt PROVE IInv'
  BY DEF Interrupt, Finish, Goto, Bytecode, IInv, TypeOK, WorkersPositive, LockFollowsBlock,
         InsideLock, HandleIsGlobal, GilFollowsNative, CallLocals, BuiltPools,
         CellsTogether, OnePool, Pools, PyLabels, NativeLabels

\* Every step of the protocol, or none.
LEMMA NextPreserves == IInv /\ [Next]_vars => IInv'
  <1> SUFFICES ASSUME IInv, [Next]_vars PROVE IInv'
    OBVIOUS
  <1>1. CASE UNCHANGED vars
    BY <1>1 DEF vars, IInv, TypeOK, WorkersPositive, LockFollowsBlock, InsideLock,
                HandleIsGlobal, GilFollowsNative, CallLocals, BuiltPools,
                CellsTogether, OnePool
  <1>2. CASE Next
    BY <1>2, CallPreserves, PyPreserves, NativePreserves, InterruptPreserves
       DEF Next
  <1>3. QED
    BY <1>1, <1>2

\* The inductive invariant holds throughout every behaviour.
LEMMA AlwaysIInv == Spec => []IInv
  BY InitEstablishes, NextPreserves, PTL DEF Spec

-----------------------------------------------------------------------------
(* What it gives.                                                          *)

(* Every variable of the start-up protocol keeps its type.                 *)
THEOREM TypeCorrect == Spec => []TypeOK
  <1>1. IInv => TypeOK
    BY DEF IInv
  <1>2. QED
    BY <1>1, AlwaysIInv, PTL

(* _rt_lock is held exactly inside the `with` block of _runtime(), through *)
(* failed builds and keyboard interrupts.                                  *)
THEOREM LockDiscipline == Spec => []LockFollowsBlock
  <1>1. IInv => LockFollowsBlock
    BY DEF IInv
  <1>2. QED
    BY <1>1, AlwaysIInv, PTL

(* A runtime handed out by get_or_init_global is the one of GLOBAL_RT, for *)
(* any race of any number of threads, with or without a GIL.               *)
THEOREM HandlesShareGlobal == Spec => []HandleIsGlobal
  <1>1. IInv => HandleIsGlobal
    BY DEF IInv
  <1>2. QED
    BY <1>1, AlwaysIInv, PTL

(* Tokio's builder is never given zero workers, whatever is asked for.     *)
THEOREM BuilderGetsWorkers == Spec => []WorkersPositive
  <1>1. IInv => WorkersPositive
    BY DEF IInv, CallLocals, WorkersPositive, NativeLabels
  <1>2. QED
    BY <1>1, AlwaysIInv, PTL

(* On a build with a GIL, everything runs on the one pool of GLOBAL_RT.    *)
THEOREM GilGivesOnePool == ASSUME Gil PROVE Spec => []OnePool
  <1>1. IInv => OnePool
    BY DEF IInv
  <1>2. QED
    BY <1>1, AlwaysIInv, PTL

(* On a build with a GIL, at most one pool is built and none is leaked.    *)
THEOREM GilBuildsOnce == ASSUME Gil PROVE Spec => []NoPoolLeaked
  <1>1. IInv => NoPoolLeaked
    BY DEF IInv, CellsTogether, GilFollowsNative, NativeLabels, TypeOK,
           NoPoolLeaked
  <1>2. QED
    BY <1>1, AlwaysIInv, PTL

(* GLOBAL_RT, the bridge, _rt and the size of the pool in use are written  *)
(* once, with or without a GIL: _rt may be stored again (by a thread that  *)
(* was interrupted before the store) but never changed.                    *)
THEOREM CellsStable == Spec => CellsWrittenOnce
  <1> DEFINE Stable == /\ global # None => /\ global' = global
                                           /\ size'[global] = size[global]
                       /\ bridge # None => bridge' = bridge
                       /\ rt # None => rt' = rt
  <1>1. ASSUME IInv, NEW t \in Threads, Call(t) \/ PyStep(t) PROVE Stable
    BY <1>1 DEF Call, CallRuntime, CallNew, CallSleep, PyStep, Acquire,
                CheckAgain, Store, Release, Return, IInv, HandleIsGlobal
  <1>2. ASSUME IInv, NEW t \in Threads, NativeStep(t) PROVE Stable
    <2>1. pc[t] = "build" => size[t] = 0
      BY <1>2 DEF IInv, BuiltPools
    <2>2. global # None => size[global] # 0
      BY <1>2 DEF IInv, BuiltPools
    <2>3. QED
      BY <1>2, <2>1, <2>2
         DEF NativeStep, GetGlobal, Build, BuildFails, Register, Publish,
             Deliver, Fail, IInv, TypeOK, Pools
  <1>3. ASSUME IInv, Interrupt PROVE Stable
    BY <1>3 DEF Interrupt
  <1>4. IInv /\ [Next]_vars => [Stable]_vars
    BY <1>1, <1>2, <1>3 DEF Next
  <1>5. QED
    BY <1>4, AlwaysIInv, PTL DEF Spec, CellsWrittenOnce

(* On a build with a GIL the protocol implements a write-once cell: every  *)
(* step fills the cell, hands its content to somebody, or is invisible.    *)
THEOREM GilImplementsOnce == ASSUME Gil PROVE Spec => RuntimeIsOnce
  <1>1. Init => Once!Init
    BY DEF Init, Once!Init
  <1>2. ASSUME IInv, [Next]_vars PROVE [Once!Next]_(Once!vars)
    <2> USE DEF Once!Next, Once!vars, Once!Fill, Once!Answer
    <2>1. ASSUME NEW t \in Threads, Return(t) PROVE Once!Answer(t)
      BY <1>2, <2>1 DEF Return, IInv, CallLocals, HandleIsGlobal
    <2>2. ASSUME NEW t \in Threads, Publish(t)
          PROVE  Once!Fill(t) \/ UNCHANGED Once!vars
      BY <2>2 DEF Publish
    <2>3. ASSUME NEW t \in Threads, Deliver(t)
          PROVE  Once!Answer(t) \/ UNCHANGED Once!vars
      <3>1. found[t] = global /\ global # None /\ bridge = global
        BY <1>2, <2>3 DEF Deliver, IInv, HandleIsGlobal, CellsTogether
      <3>2. QED
        BY <2>3, <3>1 DEF Deliver
    <2>4. ASSUME NEW t \in Threads, Call(t)
          PROVE  UNCHANGED Once!vars
      BY <2>4 DEF Call, CallRuntime, CallNew, CallSleep
    <2>5. ASSUME NEW t \in Threads, PyStep(t), ~Return(t)
          PROVE  UNCHANGED Once!vars
      BY <2>5 DEF PyStep, Acquire, CheckAgain, Store, Release
    <2>6. ASSUME NEW t \in Threads, NativeStep(t), ~Publish(t), ~Deliver(t)
          PROVE  UNCHANGED Once!vars
      BY <2>6 DEF NativeStep, GetGlobal, Build, BuildFails, Register, Fail
    <2>7. CASE Interrupt
      BY <2>7 DEF Interrupt
    <2>8. CASE UNCHANGED vars
      BY <2>8 DEF vars
    <2>9. QED
      BY <1>2, <2>1, <2>2, <2>3, <2>4, <2>5, <2>6, <2>7, <2>8
         DEF Next, Pools
  <1>3. QED
    BY <1>1, <1>2, AlwaysIInv, PTL DEF Spec, RuntimeIsOnce, Once!Spec
=============================================================================
