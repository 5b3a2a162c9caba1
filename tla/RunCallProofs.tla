---------------------------- MODULE RunCallProofs ----------------------------
(***************************************************************************)
(* Proofs about whole calls of run() and Runner.run(), for any number of   *)
(* calls, sleeps, SIGINTs and builds that fail.  What CoroutineRunProofs,  *)
(* SigintGuardProofs and RuntimeInitProofs show of the components holds in *)
(* the composition, since each step of RunCall is a step of one of them or *)
(* leaves what it keeps alone; Link and NoStranger hold them together.     *)
(***************************************************************************)
EXTENDS RunCall, CoroutineRunProofs

-----------------------------------------------------------------------------
(* The steps of a whole call.                                              *)

LEMMA StepsAre ==
  ASSUME RunNext
  PROVE  \/ Moves(main)
         \/ \E l \in Loops : Strikes(l)
         \/ UNCHANGED loopVars
<1>1. CASE \/ CallRun \/ GuardStep \/ EndCall \/ \E r \in Runners : CallRunner(r)
           \/ InterruptGuard \/ InterruptBetween
  BY <1>1 DEF CallRun, GuardStep, EndCall, CallRunner, InterruptGuard, InterruptBetween
<1>2. CASE \/ AskRuntime \/ BuildRuntime \/ GotRuntime \/ NoRuntime \/ InterruptRuntime
  BY <1>2 DEF AskRuntime, BuildRuntime, GotRuntime, NoRuntime, InterruptRuntime
<1>3. CASE CallCoroutine
  BY <1>3 DEF CallCoroutine, Moves
<1>4. ASSUME NEW l \in Loops, CallStep(l) \/ StopStep(l) \/ SpawnStep(l)
      PROVE  Moves(main)
  BY <1>4 DEF CallStep, StopStep, SpawnStep, Ending, Moves
<1>5. ASSUME NEW l \in Loops, NEW j \in Jobs, TaskStep(l, j) \/ AwaitStep(l, j)
      PROVE  Moves(main)
  BY <1>5 DEF TaskStep, AwaitStep, Ending, Moves
<1>6. ASSUME NEW l \in Loops,
             PoolStep(PostOutcome(l)) \/ \E j \in Jobs : PoolStep(Expire(l, j))
      PROVE  Moves(main)
  BY <1>6 DEF PoolStep, Moves
<1>7. ASSUME NEW l \in Loops, InterruptCall(l) \/ ExitStep(l) PROVE Strikes(l)
  <2>1. main \in Threads
    BY RunAssumption DEF main
  <2> QED
    BY <1>7, <2>1 DEF InterruptCall, ExitStep, Ending, Strikes
<1> QED
  BY <1>1, <1>2, <1>3, <1>4, <1>5, <1>6, <1>7 DEF RunNext, MainStep

LEMMA RunKeeps == LoopInv /\ [RunNext]_allVars => LoopInv'
<1> SUFFICES ASSUME LoopInv, [RunNext]_allVars PROVE LoopInv'
  OBVIOUS
<1>1. main \in Threads
  BY RunAssumption DEF main
<1>2. CASE UNCHANGED loopVars
  <2>1. UNCHANGED <<calls, phase, current, runs, closed, made, task, timer, hop, outcome,
                    sleeps, cut>>
    BY <1>2 DEF loopVars
  <2>2. CallsNest' /\ OneRuns' /\ Currents'
    BY <2>1, InsideStays
  <2> QED
    BY <2>1, <2>2 DEF LoopInv, LoopOK, Phases, Outcomes
<1>3. CASE UNCHANGED allVars
  BY <1>2, <1>3 DEF allVars
<1> QED
  BY <1>1, <1>2, <1>3, StepsAre, MovesKeep, StrikesKeep

LEMMA AlwaysLoopInv == RunSpec => []LoopInv
<1>1. RunInit => LoopInv
  BY InitIInv DEF RunInit, IInv
<1> QED
  BY <1>1, RunKeeps, PTL DEF RunSpec

-----------------------------------------------------------------------------
(* The theorems.                                                           *)

(* A whole call of run() answers with the outcome of its own coroutine,    *)
(* and not before that is over; a nested one is refused.                   *)
THEOREM RunAnswersOwn == RunSpec => []OwnOutcome
<1>1. LoopInv => OwnOutcome
  BY DEF LoopInv, LoopOK, Outcomes, Phases, OneRuns, OwnOutcome
<1> QED
  BY <1>1, AlwaysLoopInv, PTL

(* Wherever a whole call fails or is interrupted, in its guard, in         *)
(* _runtime() or in run_coroutine, its loop is closed and no longer set,   *)
(* but for a SIGINT in the setup or clean-up of run_coroutine itself.      *)
THEOREM RunUndoesAll == RunSpec => []LoopsUndone
  BY LoopInvUndoes, AlwaysLoopInv, PTL

(* Nothing that the pool posts late, and nothing that another call does,   *)
(* moves a closed loop of an earlier one.                                  *)
THEOREM RunClosedRest == RunSpec => ClosedLoopRests
<1>1. LoopInv /\ [RunNext]_allVars =>
        [\A l \in closed : /\ task'[l] = task[l]
                           /\ outcome'[l] = outcome[l]
                           /\ \A t \in Threads : runs'[t] # l]_vars
  <2> SUFFICES ASSUME LoopInv, [RunNext]_allVars, NEW l \in closed
               PROVE  Rests(l)
    BY DEF Rests
  <2>1. main \in Threads /\ l \in Loops /\ \A t \in Threads : runs[t] # l
    BY RunAssumption DEF main, LoopInv, LoopOK, Phases, OneRuns
  <2>2. CASE UNCHANGED loopVars
    BY <2>1, <2>2 DEF loopVars, Rests
  <2>3. CASE UNCHANGED allVars
    BY <2>2, <2>3 DEF allVars
  <2> QED
    BY <2>1, <2>2, <2>3, StepsAre, OthersMove, OthersStruck
<1> QED
  BY <1>1, AlwaysLoopInv, PTL DEF RunSpec, ClosedLoopRests

-----------------------------------------------------------------------------
(* The guard and the start-up: their proofs are those of SigintGuardProofs *)
(* and RuntimeInitProofs, of the instances that RunCall is made of.        *)

GuardP == INSTANCE SigintGuardProofs
          WITH Threads <- {MainThread}, Uses <- {{}}, MaxNest <- 2, MaxDepth <- 1,
               MaxSets <- 0, loose <- {}, sets <- 0, closed <- shut, cut <- torn
RuntimeP == INSTANCE RuntimeInitProofs
            WITH Threads <- {MainThread}, Requests <- {}, Gil <- TRUE,
                 MaxFaults <- MaxInterrupts, faults <- interrupts

LEMMA GuardAssumed == GuardP!GuardAssumption
BY RunAssumption, CallAssumption DEF GuardP!GuardAssumption, Guard!Handlers, GuardP!Handlers

LEMMA RuntimeAssumed == RuntimeP!RuntimeAssumption
BY RunAssumption, CallAssumption DEF RuntimeP!RuntimeAssumption

\* The two instances of SigintGuard are one: the steps of a guard's methods ...
LEMMA SameMethods ==
  /\ \A g : Guard!Down(g) <=> GuardP!Down(g)
  /\ Guard!Done(main) <=> GuardP!Done(main)
  /\ Guard!Ends(main) <=> GuardP!Ends(main)
  /\ \A s : /\ Guard!At(main, s) <=> GuardP!At(main, s)
            /\ Guard!Goto(main, s) <=> GuardP!Goto(main, s)
  /\ Guard!InBody(main) <=> GuardP!InBody(main)
<1> USE DEF Guard!Body, GuardP!Body, Guard!Runs, GuardP!Runs
<1>1. \A g : Guard!Down(g) <=> GuardP!Down(g)
  BY DEF Guard!Down, GuardP!Down
<1>2. Guard!Done(main) <=> GuardP!Done(main)
  BY DEF Guard!Done, GuardP!Done, Guard!Front, GuardP!Front
<1>3. \A t, s, g, pop : Guard!Call(t, s, g, pop) <=> GuardP!Call(t, s, g, pop)
  BY DEF Guard!Call, GuardP!Call
<1>4. Guard!Ends(main) <=> GuardP!Ends(main)
  BY <1>3 DEF Guard!Ends, GuardP!Ends, Guard!Front, GuardP!Front, Guard!Last, GuardP!Last
<1>5. /\ \A s : /\ Guard!At(main, s) <=> GuardP!At(main, s)
                /\ Guard!Goto(main, s) <=> GuardP!Goto(main, s)
      /\ Guard!InBody(main) <=> GuardP!InBody(main)
  BY DEF Guard!At, GuardP!At, Guard!Goto, GuardP!Goto, Guard!InBody, GuardP!InBody
<1> QED
  BY <1>1, <1>2, <1>4, <1>5

\* ... and the actions; the same for RuntimeInit.
LEMMA SameGuard ==
  /\ Guard!CallRun(main) => GuardP!CallRun(main)
  /\ Guard!Swap(main) => GuardP!Swap(main)
  /\ Guard!Record(main) => GuardP!Record(main)
  /\ Guard!Mark(main) => GuardP!Mark(main)
  /\ Guard!Close(main) => GuardP!Close(main)
  /\ Guard!NothingToRestore(main) => GuardP!NothingToRestore(main)
  /\ Guard!Restore(main) => GuardP!Restore(main)
  /\ Guard!Unset(main) => GuardP!Unset(main)
  /\ Guard!CoroutineEnds(main) => GuardP!CoroutineEnds(main)
  /\ \A r \in Runners : Guard!RunnerRun(main, r) => GuardP!RunnerRun(main, r)
  /\ Guard!Interrupt => GuardP!Interrupt
<1>1. /\ Guard!CallRun(main) => GuardP!CallRun(main)
      /\ \A r \in Runners : Guard!RunnerRun(main, r) => GuardP!RunnerRun(main, r)
  BY DEF Guard!CallRun, GuardP!CallRun, Guard!RunnerRun, GuardP!RunnerRun,
         Guard!MayRun, GuardP!MayRun, Guard!InBody, GuardP!InBody,
         Guard!Call, GuardP!Call, Guard!Begins, GuardP!Begins, Guard!Body, GuardP!Body
<1>2. Guard!Swap(main) => GuardP!Swap(main)
  BY SameMethods DEF Guard!Swap, GuardP!Swap, Guard!Seen, GuardP!Seen
<1>3. Guard!Record(main) => GuardP!Record(main)
  BY SameMethods DEF Guard!Record, GuardP!Record, Guard!Begins, GuardP!Begins,
     Guard!Enters, GuardP!Enters, Guard!Body, GuardP!Body, Guard!Runs, GuardP!Runs
<1>4. Guard!Mark(main) => GuardP!Mark(main)
  BY SameMethods DEF Guard!Mark, GuardP!Mark, Guard!Enters, GuardP!Enters,
     Guard!Body, GuardP!Body
<1>5. /\ Guard!Close(main) => GuardP!Close(main)
      /\ Guard!NothingToRestore(main) => GuardP!NothingToRestore(main)
  BY SameMethods DEF Guard!Close, GuardP!Close,
     Guard!NothingToRestore, GuardP!NothingToRestore
<1>6. /\ Guard!Restore(main) => GuardP!Restore(main)
      /\ Guard!Unset(main) => GuardP!Unset(main)
  BY SameMethods DEF Guard!Restore, GuardP!Restore, Guard!Unset, GuardP!Unset
<1>7. Guard!CoroutineEnds(main) => GuardP!CoroutineEnds(main)
  BY SameMethods DEF Guard!CoroutineEnds, GuardP!CoroutineEnds
<1>8. Guard!Interrupt => GuardP!Interrupt
  BY SameMethods DEF Guard!Interrupt, GuardP!Interrupt, main
<1> QED
  BY <1>1, <1>2, <1>3, <1>4, <1>5, <1>6, <1>7, <1>8

LEMMA SameRuntime ==
  /\ Runtime!CallRuntime(main) => RuntimeP!CallRuntime(main)
  /\ Runtime!Acquire(main) => RuntimeP!Acquire(main)
  /\ Runtime!CheckAgain(main) => RuntimeP!CheckAgain(main)
  /\ Runtime!GetGlobal(main) => RuntimeP!GetGlobal(main)
  /\ Runtime!Build(main) => RuntimeP!Build(main)
  /\ Runtime!BuildFails(main) => RuntimeP!BuildFails(main)
  /\ Runtime!Register(main) => RuntimeP!Register(main)
  /\ Runtime!Publish(main) => RuntimeP!Publish(main)
  /\ Runtime!Deliver(main) => RuntimeP!Deliver(main)
  /\ Runtime!Store(main) => RuntimeP!Store(main)
  /\ Runtime!Release(main) => RuntimeP!Release(main)
  /\ Runtime!Return(main) => RuntimeP!Return(main)
  /\ Runtime!Fail(main) => RuntimeP!Fail(main)
  /\ Runtime!Interrupt => RuntimeP!Interrupt
<1> USE DEF Runtime!Bytecode, RuntimeP!Bytecode, Runtime!Native, RuntimeP!Native,
            Runtime!Goto, RuntimeP!Goto, Runtime!EnterNative, RuntimeP!EnterNative,
            Runtime!LeaveNative, RuntimeP!LeaveNative, Runtime!Finish, RuntimeP!Finish,
            Runtime!PyLabels, RuntimeP!PyLabels
<1>1. /\ Runtime!CallRuntime(main) => RuntimeP!CallRuntime(main)
      /\ Runtime!Acquire(main) => RuntimeP!Acquire(main)
      /\ Runtime!CheckAgain(main) => RuntimeP!CheckAgain(main)
  BY DEF Runtime!CallRuntime, RuntimeP!CallRuntime, Runtime!Acquire, RuntimeP!Acquire,
         Runtime!CheckAgain, RuntimeP!CheckAgain
<1>2. /\ Runtime!GetGlobal(main) => RuntimeP!GetGlobal(main)
      /\ Runtime!Build(main) => RuntimeP!Build(main)
      /\ Runtime!BuildFails(main) => RuntimeP!BuildFails(main)
  BY DEF Runtime!GetGlobal, RuntimeP!GetGlobal, Runtime!Build, RuntimeP!Build,
         Runtime!BuildFails, RuntimeP!BuildFails
<1>3. /\ Runtime!Register(main) => RuntimeP!Register(main)
      /\ Runtime!Publish(main) => RuntimeP!Publish(main)
      /\ Runtime!Deliver(main) => RuntimeP!Deliver(main)
  BY DEF Runtime!Register, RuntimeP!Register, Runtime!Publish, RuntimeP!Publish,
         Runtime!Deliver, RuntimeP!Deliver
<1>4. /\ Runtime!Store(main) => RuntimeP!Store(main)
      /\ Runtime!Release(main) => RuntimeP!Release(main)
      /\ Runtime!Return(main) => RuntimeP!Return(main)
  BY DEF Runtime!Store, RuntimeP!Store, Runtime!Release, RuntimeP!Release,
         Runtime!Return, RuntimeP!Return
<1>5. /\ Runtime!Fail(main) => RuntimeP!Fail(main)
      /\ Runtime!Interrupt => RuntimeP!Interrupt
  BY DEF Runtime!Fail, RuntimeP!Fail, Runtime!Interrupt, RuntimeP!Interrupt
<1> QED
  BY <1>1, <1>2, <1>3, <1>4, <1>5

\* The budget of SIGINTs is shared: of the interrupts that others take, a
\* component keeps the count alone.
LEMMA GuardRests ==
  ASSUME GuardP!IInv, UNCHANGED guardVars, interrupts' \in 0..MaxInterrupts
  PROVE  GuardP!IInv'
BY DEF guardVars, GuardP!IInv, GuardP!TypeOK, GuardP!Methods, GuardP!Discipline,
       GuardP!Apart, GuardP!Nested, GuardP!Chain, GuardP!Kept, GuardP!LeftBy,
       GuardP!Left, GuardP!Honest, GuardP!Own, GuardP!Up, GuardP!NestedBlocks, GuardP!Holds,
       GuardP!In, GuardP!At, GuardP!InBody, GuardP!Fits

LEMMA RuntimeRests ==
  ASSUME RuntimeP!IInv, UNCHANGED startVars, interrupts' \in 0..MaxInterrupts
  PROVE  RuntimeP!IInv'
BY DEF startVars, RuntimeP!IInv, RuntimeP!TypeOK, RuntimeP!WorkersPositive, RuntimeP!LockFollowsBlock,
       RuntimeP!InsideLock, RuntimeP!HandleIsGlobal, RuntimeP!GilFollowsNative,
       RuntimeP!CallLocals, RuntimeP!BuiltPools, RuntimeP!CellsTogether,
       RuntimeP!OnePool

\* What a step of RunCall is to its guard, and to the start-up.
LEMMA GuardSees ==
  ASSUME RunNext
  PROVE  GuardP!Next \/ UNCHANGED guardVars
<1> USE DEF main
<1>1. CASE CallRun
  BY <1>1, SameGuard DEF CallRun, GuardP!Next
<1>2. CASE GuardStep
  BY <1>2, SameGuard DEF GuardStep, GuardP!Next
<1>3. CASE EndCall
  BY <1>3, SameGuard DEF EndCall, GuardP!Next
<1>4. ASSUME NEW r \in Runners, CallRunner(r)
      PROVE  GuardP!Next
  BY <1>4, SameGuard DEF CallRunner, GuardP!Next
<1>5. CASE InterruptGuard
  BY <1>5, SameGuard DEF InterruptGuard, GuardP!Next
<1>6. CASE \/ AskRuntime \/ BuildRuntime \/ GotRuntime \/ NoRuntime \/ CallCoroutine
           \/ InterruptRuntime \/ InterruptBetween
  BY <1>6 DEF AskRuntime, BuildRuntime, GotRuntime, NoRuntime, CallCoroutine,
              InterruptRuntime, InterruptBetween
<1>7. ASSUME NEW l \in Loops,
             \/ CallStep(l) \/ StopStep(l) \/ SpawnStep(l) \/ ExitStep(l) \/ InterruptCall(l)
             \/ PoolStep(PostOutcome(l))
             \/ \E j \in Jobs : TaskStep(l, j) \/ AwaitStep(l, j) \/ PoolStep(Expire(l, j))
      PROVE  UNCHANGED guardVars
  BY <1>7 DEF CallStep, StopStep, SpawnStep, ExitStep, InterruptCall, TaskStep, AwaitStep,
      PoolStep, Ending
<1> QED
  BY <1>1, <1>2, <1>3, <1>4, <1>5, <1>6, <1>7 DEF RunNext, MainStep

LEMMA RuntimeSees ==
  ASSUME RunNext
  PROVE  RuntimeP!Next \/ UNCHANGED startVars
<1> USE DEF main
<1>1. CASE AskRuntime
  BY <1>1, SameRuntime DEF AskRuntime, RuntimeP!Next, RuntimeP!Call
<1>2. CASE BuildRuntime
  BY <1>2, SameRuntime DEF BuildRuntime, RuntimeP!Next, RuntimeP!PyStep, RuntimeP!NativeStep
<1>3. CASE GotRuntime
  BY <1>3, SameRuntime DEF GotRuntime, RuntimeP!Next, RuntimeP!PyStep
<1>4. CASE NoRuntime
  BY <1>4, SameRuntime DEF NoRuntime, RuntimeP!Next, RuntimeP!NativeStep
<1>5. CASE InterruptRuntime
  BY <1>5, SameRuntime DEF InterruptRuntime, RuntimeP!Next
<1>6. CASE \/ CallRun \/ GuardStep \/ EndCall \/ CallCoroutine \/ InterruptGuard
           \/ InterruptBetween \/ \E r \in Runners : CallRunner(r)
  BY <1>6 DEF CallRun, GuardStep, EndCall, CallCoroutine, InterruptGuard,
              InterruptBetween, CallRunner
<1>7. ASSUME NEW l \in Loops,
             \/ CallStep(l) \/ StopStep(l) \/ SpawnStep(l) \/ ExitStep(l) \/ InterruptCall(l)
             \/ PoolStep(PostOutcome(l))
             \/ \E j \in Jobs : TaskStep(l, j) \/ AwaitStep(l, j) \/ PoolStep(Expire(l, j))
      PROVE  UNCHANGED startVars
  BY <1>7 DEF CallStep, StopStep, SpawnStep, ExitStep, InterruptCall, TaskStep, AwaitStep,
      PoolStep, Ending
<1> QED
  BY <1>1, <1>2, <1>3, <1>4, <1>5, <1>6, <1>7 DEF RunNext, MainStep

-----------------------------------------------------------------------------
(* The invariant of a whole call.                                          *)

\* The main thread is in one component at a time: a call that has its guard is
\* one ahead of run_coroutine until that begins, and again when that is over.
Link ==
  /\ stage \in {"code", "ask", "wait", "loop", "end"}
  /\ stage # "code" => Guard!InBody(main)
  /\ stage # "wait" => pc[main] = "idle"
  /\ Len(coroutine[main]) = Len(calls[main]) + IF stage = "code" THEN 0 ELSE 1

\* Nobody puts a handler in place but the application's and default_int_handler,
\* and signal() reports no other.
Known == {"None", "default", wanted}
NoStranger == /\ handler \in {"default", wanted}
              /\ doing[main].saved \in Known
              /\ \A g \in Guard!Guards : prev[g] \in Known

CallInv == LoopInv /\ GuardP!IInv /\ RuntimeP!IInv /\ Link /\ NoStranger

LEMMA BoundKept ==
  ASSUME interrupts \in 0..MaxInterrupts, RunNext
  PROVE  interrupts' \in 0..MaxInterrupts
<1>0. MaxInterrupts \in Nat
  BY RunAssumption
<1> DEFINE Bounded == \/ interrupts' = interrupts
                      \/ interrupts < MaxInterrupts /\ interrupts' = interrupts + 1
<1>1. Bounded
  <2>1. CASE CallRun \/ GuardStep \/ EndCall \/ InterruptGuard
             \/ \E r \in Runners : CallRunner(r)
    BY <2>1 DEF CallRun, GuardStep, EndCall, InterruptGuard, CallRunner, Guard!CallRun,
       Guard!Swap, Guard!Record, Guard!Mark, Guard!Close, Guard!NothingToRestore,
       Guard!Restore, Guard!Unset, Guard!CoroutineEnds, Guard!RunnerRun, Guard!Interrupt
  <2>2. CASE AskRuntime \/ BuildRuntime \/ GotRuntime \/ NoRuntime \/ InterruptRuntime
             \/ InterruptBetween
    BY <2>2 DEF AskRuntime, BuildRuntime, GotRuntime, NoRuntime, InterruptRuntime,
       InterruptBetween, Runtime!CallRuntime, Runtime!Acquire, Runtime!CheckAgain,
       Runtime!GetGlobal, Runtime!Build, Runtime!BuildFails, Runtime!Register,
       Runtime!Publish, Runtime!Deliver, Runtime!Store, Runtime!Release, Runtime!Return,
       Runtime!Fail, Runtime!Interrupt
  <2>3. CASE CallCoroutine
    BY <2>3 DEF CallCoroutine, NewLoop
  <2>4. ASSUME NEW l \in Loops, CallStep(l) \/ StopStep(l) \/ SpawnStep(l) \/ ExitStep(l)
        PROVE  Bounded
    BY <2>4 DEF CallStep, StopStep, SpawnStep, ExitStep, Ending, Call, SetLoop, Start,
       Close, Unset, Stop, Spawn, Exit
  <2>6. ASSUME NEW l \in Loops, InterruptCall(l)
        PROVE  Bounded
    <3>1. InterruptLoop(l) => Bounded
      BY DEF InterruptLoop
    <3>2. InterruptSetup(l) => Bounded
      BY DEF InterruptSetup
    <3>3. InterruptCleanup(l) => Bounded
      BY DEF InterruptCleanup
    <3> QED
      BY <2>6, <3>1, <3>2, <3>3 DEF InterruptCall, Ending
  <2>5. ASSUME NEW l \in Loops,
               \/ PoolStep(PostOutcome(l))
               \/ \E j \in Jobs : TaskStep(l, j) \/ AwaitStep(l, j) \/ PoolStep(Expire(l, j))
        PROVE  Bounded
    BY <2>5 DEF PoolStep, TaskStep, AwaitStep, Ending, PostOutcome, Expire, Step, Wake,
       Ends, End, Sleep, Yield
  <2> QED
    BY <2>1, <2>2, <2>3, <2>4, <2>5, <2>6 DEF RunNext, MainStep
<1> QED
  BY <1>0, <1>1

\* Calls and guards are stacks.
LEMMA StacksAre ==
  ASSUME LoopOK, GuardP!IInv
  PROVE  /\ calls \in [Threads -> Seq(Loops)] /\ calls[main] \in Seq(Loops)
         /\ Len(calls[main]) \in Nat /\ (calls[main] = <<>> <=> Len(calls[main]) = 0)
         /\ coroutine \in [{main} -> Seq(Guard!Guards)]
         /\ coroutine[main] \in Seq(Guard!Guards)
         /\ Len(coroutine[main]) \in Nat
         /\ (coroutine[main] = <<>> <=> Len(coroutine[main]) = 0)
<1>1. calls \in [Threads -> Seq(Loops)] /\ calls[main] \in Seq(Loops)
  BY RunAssumption DEF LoopOK, main
<1>2. coroutine \in [{main} -> Seq(Guard!Guards)]
  BY DEF GuardP!IInv, GuardP!TypeOK, main, Guard!Guards, GuardP!Guards, Guard!Runs, GuardP!Runs
<1>3. coroutine[main] \in Seq(Guard!Guards)
  BY <1>2
<1> QED
  BY <1>1, <1>2, <1>3, EmptySeq, LenProperties

LEMMA FrontLen ==
  ASSUME NEW S, NEW s \in Seq(S), s # <<>>
  PROVE  Len(Front(s)) = Len(s) - 1 /\ Len(s) \in Nat
<1>1. Len(s) \in Nat /\ Len(s) > 0
  BY EmptySeq, LenProperties
<1> DEFINE n == Len(s) - 1
<1>2. 1 \in Int /\ n \in Int /\ n >= 0 /\ \A i \in 1..n : s[i] \in S
  BY <1>1, ElementOfSeq
<1>3. Front(s) = SubSeq(s, 1, n)
  BY DEF Front
<1> HIDE DEF n
<1>4. Len(SubSeq(s, 1, n)) = IF 1 <= n THEN n - 1 + 1 ELSE 0
  BY <1>2, SubSeqProperties
<1>5. Len(Front(s)) = n
  BY <1>2, <1>3, <1>4
<1> QED
  BY <1>1, <1>5 DEF n

LEMMA DoingIs ==
  ASSUME GuardP!IInv
  PROVE  /\ DOMAIN doing = {main} /\ doing \in [{main} -> {doing[main]}]
         /\ \A s : Guard!At(main, s) /\ s # "body" => ~Guard!InBody(main)
<1>1. DOMAIN doing = {main} /\ doing = [t \in {main} |-> doing[t]]
  BY DEF GuardP!IInv, GuardP!TypeOK, main
<1> QED
  BY <1>1 DEF Guard!At, Guard!InBody, Guard!Body

\* What the steps of a guard do to the calls that it guards.
LEMMA GuardCalls ==
  ASSUME LoopOK, GuardP!IInv, GuardStep
  PROVE  /\ ~Guard!InBody(main)
         /\ \/ coroutine' = coroutine
            \/ /\ Len(coroutine'[main]) = Len(coroutine[main]) + 1
               /\ Guard!InBody(main)'
<1>1. CASE \/ Guard!Swap(main) \/ Guard!Mark(main) \/ Guard!Close(main)
           \/ Guard!NothingToRestore(main) \/ Guard!Restore(main) \/ Guard!Unset(main)
  <2>1. ~Guard!InBody(main)
    BY <1>1, DoingIs DEF Guard!Swap, Guard!Mark, Guard!Close, Guard!NothingToRestore,
       Guard!Restore, Guard!Unset
  <2>2. coroutine' = coroutine
    BY <1>1 DEF Guard!Swap, Guard!Mark, Guard!Close, Guard!NothingToRestore,
       Guard!Restore, Guard!Unset
  <2> QED
    BY <2>1, <2>2
<1>2. CASE Guard!Record(main)
  <2> DEFINE g == doing[main].guard
  <2>1. ~Guard!InBody(main)
    BY <1>2, DoingIs DEF Guard!Record
  <2>2. CASE g \in Guard!Runs
    <3>1. /\ coroutine' = [coroutine EXCEPT ![main] = Append(@, g)]
          /\ doing' = [doing EXCEPT ![main] = Guard!Body]
      BY <1>2, <2>2 DEF Guard!Record, Guard!Begins, Guard!Enters
    <3>2. Guard!InBody(main)'
      BY <3>1, DoingIs DEF Guard!InBody, Guard!Body
    <3>3. g \in Guard!Guards
      BY <2>2 DEF Guard!Guards
    <3> HIDE DEF g
    <3>4. Len(coroutine'[main]) = Len(coroutine[main]) + 1
      BY <3>1, <3>3, StacksAre, AppendProperties
    <3> QED
      BY <2>1, <3>2, <3>4
  <2>3. CASE g \notin Guard!Runs
    BY <1>2, <2>1, <2>3 DEF Guard!Record
  <2> QED
    BY <2>2, <2>3
<1> QED
  BY <1>1, <1>2 DEF GuardStep

\* The call of run_coroutine is over, or goes on.
LEMMA EndingLink ==
  ASSUME CallInv, NEW step, Ending(step),
         calls' = calls \/ (calls[main] # <<>> /\ calls' = [calls EXCEPT ![main] = Front(@)])
  PROVE  Link'
<1>1. /\ stage = "code" /\ Guard!InBody(main) /\ pc' = pc /\ coroutine' = coroutine
      /\ doing' = doing
      /\ stage' = IF Len(calls'[main]) < Len(calls[main]) THEN "end" ELSE "code"
  BY DEF Ending, Does, guardVars, startVars
<1>2. Guard!InBody(main)'
  BY <1>1 DEF Guard!InBody, Guard!Body
<1>3. Len(calls[main]) \in Nat /\ Len(coroutine[main]) = Len(calls[main])
  BY <1>1, StacksAre DEF CallInv, LoopInv, Link
<1>6. pc'[main] = "idle"
  BY <1>1 DEF CallInv, Link
<1>4. CASE calls' = calls
  <2>1. stage' = "code" /\ Len(coroutine'[main]) = Len(calls'[main])
    BY <1>1, <1>3, <1>4
  <2> QED
    BY <1>2, <1>3, <1>6, <2>1 DEF Link
<1>5. CASE calls[main] # <<>> /\ calls' = [calls EXCEPT ![main] = Front(@)]
  <2>1. calls'[main] = Front(calls[main])
    BY <1>5, StacksAre, RunAssumption DEF CallInv, LoopInv, main
  <2>2. Len(calls'[main]) = Len(calls[main]) - 1
    BY <1>5, <2>1, StacksAre, FrontLen DEF CallInv, LoopInv
  <2>3. stage' = "end" /\ Len(coroutine'[main]) = Len(calls'[main]) + 1
    BY <1>1, <1>3, <2>2
  <2> QED
    BY <1>2, <1>6, <2>3 DEF Link
<1> QED
  BY <1>4, <1>5

LEMMA LinkKeeps ==
  ASSUME CallInv, RunNext
  PROVE  Link'
<1>0. /\ Len(calls[main]) \in Nat /\ Len(coroutine[main]) \in Nat
      /\ LoopOK /\ GuardP!IInv /\ Link
  BY StacksAre DEF CallInv, LoopInv
<1>1. CASE CallRun
  <2>1. coroutine' = coroutine /\ stage = "code" /\ stage' = stage
    BY <1>1 DEF CallRun, MayCall, Does, Guard!CallRun, main
  <2>2. calls' = calls /\ pc' = pc
    BY <1>1 DEF CallRun, loopVars, startVars
  <2> QED
    BY <1>0, <2>1, <2>2 DEF Link
<1>2. CASE GuardStep
  <2>1. /\ calls' = calls /\ pc' = pc /\ stage = "code"
        /\ stage' = IF coroutine' = coroutine THEN stage ELSE "ask"
    BY <1>0, <1>2, GuardCalls DEF GuardStep, loopVars, startVars, Link
  <2>2. CASE coroutine' = coroutine
    BY <1>0, <2>1, <2>2 DEF Link
  <2>3. CASE coroutine' # coroutine
    <3>1. Len(coroutine'[main]) = Len(coroutine[main]) + 1 /\ Guard!InBody(main)'
      BY <1>0, <1>2, <2>3, GuardCalls
    <3> QED
      BY <1>0, <2>1, <2>3, <3>1 DEF Link
  <2> QED
    BY <2>2, <2>3
<1>3. CASE EndCall
  <2>1. /\ stage = "end" /\ stage' = "code" /\ calls' = calls /\ pc' = pc
        /\ coroutine[main] # <<>> /\ Guard!Ends(main)
    BY <1>3 DEF EndCall, Does, loopVars, startVars, Guard!CoroutineEnds
  <2>2. coroutine' = [coroutine EXCEPT ![main] = Front(@)]
    BY <2>1 DEF Guard!Ends, Guard!Front, Front
  <2>3. coroutine'[main] = Front(coroutine[main])
    BY <1>0, <2>2, StacksAre
  <2>4. Len(coroutine'[main]) = Len(coroutine[main]) - 1
    BY <1>0, <2>1, <2>3, StacksAre, FrontLen
  <2> QED
    BY <1>0, <2>1, <2>4 DEF Link
<1>4. ASSUME NEW r \in Runners, CallRunner(r)
      PROVE  Link'
  <2>1. /\ stage = "code" /\ stage' = "ask" /\ calls' = calls /\ pc' = pc
        /\ doing' = doing /\ Guard!InBody(main)
        /\ coroutine' = [coroutine EXCEPT ![main] = Append(@, r)]
    BY <1>4 DEF CallRunner, MayCall, Does, loopVars, startVars, Guard!RunnerRun, Guard!Begins
  <2>2. r \in Guard!Guards
    BY DEF Guard!Guards
  <2>3. Len(coroutine'[main]) = Len(coroutine[main]) + 1
    BY <1>0, <2>1, <2>2, StacksAre, AppendProperties
  <2>4. Guard!InBody(main)'
    BY <2>1 DEF Guard!InBody, Guard!Body
  <2> QED
    BY <1>0, <2>1, <2>3, <2>4 DEF Link
<1>5. CASE InterruptGuard
  <2>1. /\ ~Guard!InBody(main) /\ stage' = stage /\ calls' = calls /\ pc' = pc
        /\ coroutine' = coroutine
    BY <1>5 DEF InterruptGuard, loopVars, startVars, Guard!Interrupt, main
  <2> QED
    BY <1>0, <2>1 DEF Link
<1>6. CASE AskRuntime \/ BuildRuntime \/ GotRuntime \/ NoRuntime \/ InterruptRuntime
  <2>1. /\ calls' = calls /\ coroutine' = coroutine /\ doing' = doing
        /\ stage \in {"ask", "wait"} /\ Guard!InBody(main)
    BY <1>6 DEF AskRuntime, BuildRuntime, GotRuntime, NoRuntime, InterruptRuntime, Does,
       guardVars, loopVars
  <2>2. Guard!InBody(main)'
    BY <2>1 DEF Guard!InBody, Guard!Body
  <2>3. DOMAIN pc = {main} /\ pc = [t \in {main} |-> pc[t]]
    BY DEF CallInv, RuntimeP!IInv, RuntimeP!TypeOK, main
  <2>4. \/ stage' = "wait"
        \/ stage' \in {"loop", "end"} /\ pc'[main] = "idle"
    BY <1>6, <2>3 DEF AskRuntime, BuildRuntime, GotRuntime, NoRuntime, InterruptRuntime,
       Does, Runtime!Return, Runtime!Fail, Runtime!Interrupt, Runtime!Finish,
       Runtime!Goto, main
  <2> QED
    BY <1>0, <2>1, <2>2, <2>4 DEF Link
<1>7. CASE InterruptBetween
  <2>1. /\ calls' = calls /\ coroutine' = coroutine /\ doing' = doing /\ pc' = pc
        /\ stage \in {"ask", "loop"} /\ stage' = "end" /\ Guard!InBody(main)
    BY <1>7 DEF InterruptBetween, Does, guardVars, loopVars, startVars
  <2>2. Guard!InBody(main)'
    BY <2>1 DEF Guard!InBody, Guard!Body
  <2> QED
    BY <1>0, <2>1, <2>2 DEF Link
<1>8. CASE CallCoroutine
  <2>1. /\ coroutine' = coroutine /\ doing' = doing /\ pc' = pc
        /\ stage = "loop" /\ stage' = "code" /\ Guard!InBody(main)
        /\ made < MaxRuns /\ calls' = [calls EXCEPT ![main] = Append(@, made + 1)]
    BY <1>8 DEF CallCoroutine, Does, guardVars, startVars, NewLoop
  <2>2. made + 1 \in Loops
    BY <1>0, <2>1, RunAssumption DEF LoopOK, Loops
  <2>3. main \in Threads
    BY RunAssumption DEF main
  <2>4. Len(calls'[main]) = Len(calls[main]) + 1
    BY <1>0, <2>1, <2>2, <2>3, StacksAre, AppendProperties
  <2> QED
    BY <1>0, <2>1, <2>4 DEF Link
<1>9. ASSUME NEW l \in Loops,
             \/ CallStep(l) \/ StopStep(l) \/ SpawnStep(l) \/ ExitStep(l)
             \/ \E j \in Jobs : TaskStep(l, j) \/ AwaitStep(l, j)
      PROVE  Link'
  <2>1. ASSUME Call(main, l)
        PROVE  calls' = calls \/ (calls[main] # <<>> /\ calls' = [calls EXCEPT ![main] = Front(@)])
    BY <2>1 DEF Call, SetLoop, Start, Close, Unset, At
  <2>2. ASSUME NEW j \in Jobs,
               \/ Stop(main, l) \/ Spawn(main, l) \/ Exit(main, l) \/ Step(main, l, j) \/ Wake(main, l, j)
               \/ Ends(main, l, j) \/ Sleep(main, l, j) \/ Yield(main, l, j)
        PROVE  calls' = calls
    BY <2>2 DEF Stop, Spawn, Exit, LeavesLoop, Step, Wake, Ends, End, Sleep, Yield
  <2>3. CASE CallStep(l)
    BY <2>1, <2>3, EndingLink DEF CallStep, Ending
  <2>4. CASE StopStep(l) \/ SpawnStep(l) \/ ExitStep(l)
    BY <2>2, <2>4, EndingLink DEF StopStep, SpawnStep, ExitStep, Ending, Jobs
  <2>5. ASSUME NEW j \in Jobs, TaskStep(l, j) \/ AwaitStep(l, j) PROVE Link'
    BY <2>2, <2>5, EndingLink DEF TaskStep, AwaitStep, Ending
  <2> QED
    BY <1>9, <2>3, <2>4, <2>5
<1>10. ASSUME NEW l \in Loops, InterruptCall(l)
       PROVE  Link'
  <2>1. calls' = calls \/ (calls[main] # <<>> /\ calls' = [calls EXCEPT ![main] = Front(@)])
    <3>1. InterruptLoop(l) => calls' = calls
      BY DEF InterruptLoop, LeavesLoop
    <3>2. InterruptSetup(l) =>
            calls[main] # <<>> /\ calls' = [calls EXCEPT ![main] = Front(@)]
      BY DEF InterruptSetup, At, main
    <3>3. InterruptCleanup(l) =>
            calls' = calls \/ (calls[main] # <<>> /\ calls' = [calls EXCEPT ![main] = Front(@)])
      BY DEF InterruptCleanup, At, main
    <3> QED
      BY <1>10, <3>1, <3>2, <3>3 DEF InterruptCall, Ending
  <2> QED
    BY <1>10, <2>1, EndingLink DEF InterruptCall
<1>11. ASSUME NEW l \in Loops,
              PoolStep(PostOutcome(l)) \/ \E j \in Jobs : PoolStep(Expire(l, j))
       PROVE  Link'
  <2>1. /\ coroutine' = coroutine /\ doing' = doing /\ pc' = pc
        /\ stage' = stage /\ calls' = calls
    BY <1>11 DEF PoolStep, PostOutcome, Expire, guardVars, startVars
  <2>2. Guard!InBody(main)' <=> Guard!InBody(main)
    BY <2>1 DEF Guard!InBody, Guard!Body
  <2> QED
    BY <1>0, <2>1, <2>2 DEF Link
<1> QED
  BY <1>1, <1>2, <1>3, <1>4, <1>5, <1>6, <1>7, <1>8, <1>9, <1>10, <1>11 DEF RunNext, MainStep

LEMMA SavedIs ==
  ASSUME GuardP!IInv
  PROVE  /\ doing[main].guard \in Guard!Guards
         /\ \A s : Guard!Goto(main, s) => doing'[main].saved = doing[main].saved
         /\ \A s, v : doing' = [doing EXCEPT ![main].step = s, ![main].saved = v]
                       => doing'[main].saved = v
         /\ doing' = [doing EXCEPT ![main] = Guard!Body] => doing'[main].saved = "None"
<1>1. /\ doing[main].guard \in Guard!Guards /\ "saved" \in DOMAIN doing[main]
      /\ DOMAIN doing = {main}
  BY DEF GuardP!IInv, GuardP!TypeOK, Guard!Guards, GuardP!Guards, Guard!Runs, GuardP!Runs, main
<1>2. ASSUME NEW s, Guard!Goto(main, s) PROVE doing'[main].saved = doing[main].saved
  <2>1. doing'[main] = [doing[main] EXCEPT !.step = s]
    BY <1>1, <1>2 DEF Guard!Goto
  <2> QED
    BY <1>1, <2>1
<1>3. ASSUME doing' = [doing EXCEPT ![main] = Guard!Body] PROVE doing'[main].saved = "None"
  BY <1>1, <1>3 DEF Guard!Body
<1>4. ASSUME NEW s, NEW v,
             doing' = [doing EXCEPT ![main].step = s, ![main].saved = v]
      PROVE  doing'[main].saved = v
  <2>1. doing'[main] = [doing[main] EXCEPT !.step = s, !.saved = v]
    BY <1>1, <1>4
  <2> QED
    BY <1>1, <2>1
<1> QED
  BY <1>1, <1>2, <1>3, <1>4

LEMMA NoStrangerKeeps ==
  ASSUME CallInv, RunNext
  PROVE  NoStranger'
<1>0. /\ DOMAIN doing = {main} /\ doing \in [{main} -> {doing[main]}]
      /\ NoStranger /\ wanted \in Guard!Handlers
      /\ \A g : g \in Guard!Guards => g \in DOMAIN prev
  BY DoingIs DEF CallInv, GuardP!IInv, GuardP!TypeOK, Guard!Handlers, GuardP!Handlers,
     Guard!Guards, GuardP!Guards, Guard!Runs, GuardP!Runs
<1>1. CASE UNCHANGED guardVars
  BY <1>0, <1>1 DEF guardVars, NoStranger, Known
<1>2. CASE CallRun
  BY <1>0, <1>2 DEF CallRun, NoStranger, Known, Guard!CallRun, Guard!Call, Guard!Body, main
<1>3. CASE Guard!Swap(main)
  <2>1. /\ doing' = [doing EXCEPT ![main].step = "record",
                                  ![main].saved = Guard!Seen(handler)]
        /\ handler' = "default" /\ wanted' = wanted /\ prev' = prev
    BY <1>3 DEF Guard!Swap, main
  <2>2. doing'[main].saved = Guard!Seen(handler)
    BY <2>1, SavedIs DEF CallInv
  <2> QED
    BY <1>0, <2>1, <2>2 DEF NoStranger, Known, Guard!Seen
<1>4. CASE Guard!Record(main)
  <2>1. /\ handler' = handler /\ wanted' = wanted
        /\ prev' = [prev EXCEPT ![doing[main].guard] = doing[main].saved]
        /\ \/ doing' = [doing EXCEPT ![main] = Guard!Body]
           \/ Guard!Goto(main, "mark")
    BY <1>4 DEF Guard!Record, Guard!Enters
  <2>2. doing'[main].saved \in Known
    BY <1>0, <2>1, SavedIs DEF CallInv, NoStranger, Known
  <2>3. \A g \in Guard!Guards : prev'[g] \in Known
    BY <1>0, <2>1, SavedIs DEF CallInv, NoStranger
  <2> QED
    BY <1>0, <2>1, <2>2, <2>3 DEF NoStranger, Known
<1>5. CASE Guard!Mark(main) \/ Guard!Close(main)
  <2>1. /\ handler' = handler /\ wanted' = wanted /\ prev' = prev
        /\ \/ doing' = [doing EXCEPT ![main] = Guard!Body]
           \/ Guard!Goto(main, "restore")
    BY <1>5 DEF Guard!Mark, Guard!Close, Guard!Enters, Guard!Done
  <2>2. doing'[main].saved \in Known
    BY <1>0, <2>1, SavedIs DEF CallInv, NoStranger, Known
  <2> QED
    BY <1>0, <2>1, <2>2 DEF NoStranger, Known
<1>6. CASE Guard!NothingToRestore(main) \/ Guard!Unset(main)
  BY <1>0, <1>6 DEF NoStranger, Known, Guard!NothingToRestore, Guard!Unset, Guard!Down,
     Guard!Done, Guard!Body
<1>7. CASE Guard!Restore(main)
  <2> DEFINE g == doing[main].guard
  <2>1. /\ wanted' = wanted /\ prev' = prev
        /\ handler' = handler \/ (prev[g] # "None" /\ handler' = prev[g])
        /\ \/ doing' = [doing EXCEPT ![main] = Guard!Body]
           \/ Guard!Goto(main, "unset")
    BY <1>7 DEF Guard!Restore, Guard!Done
  <2>2. prev[g] \in Known
    BY <1>0, SavedIs DEF CallInv, NoStranger
  <2>3. handler' \in {"default", wanted}
    BY <1>0, <2>1, <2>2 DEF NoStranger, Known
  <2>4. doing'[main].saved \in Known
    BY <1>0, <2>1, SavedIs DEF CallInv, NoStranger, Known
  <2> QED
    BY <1>0, <2>1, <2>3, <2>4 DEF NoStranger, Known
<1>8. CASE EndCall
  BY <1>0, <1>8 DEF EndCall, NoStranger, Known, Guard!CoroutineEnds, Guard!Ends, Guard!Call,
     Guard!Body
<1>9. CASE InterruptGuard
  BY <1>0, <1>9 DEF InterruptGuard, NoStranger, Known, Guard!Interrupt, Guard!Done,
     Guard!Body, main
<1>10. ASSUME NEW r \in Runners, CallRunner(r) PROVE NoStranger'
  BY <1>0, <1>10 DEF CallRunner, NoStranger, Known, Guard!RunnerRun
<1>11. \/ UNCHANGED guardVars \/ CallRun \/ GuardStep \/ EndCall \/ InterruptGuard
       \/ \E r \in Runners : CallRunner(r)
  <2>1. ASSUME NEW l \in Loops,
             \/ CallStep(l) \/ StopStep(l) \/ SpawnStep(l) \/ ExitStep(l) \/ InterruptCall(l)
             \/ PoolStep(PostOutcome(l))
             \/ \E j \in Jobs : TaskStep(l, j) \/ AwaitStep(l, j) \/ PoolStep(Expire(l, j))
        PROVE  UNCHANGED guardVars
    BY <2>1 DEF CallStep, StopStep, SpawnStep, ExitStep, InterruptCall, TaskStep, AwaitStep,
      PoolStep, Ending
  <2> QED
    BY <2>1 DEF RunNext, MainStep, AskRuntime, BuildRuntime, GotRuntime, NoRuntime,
       CallCoroutine, InterruptRuntime, InterruptBetween
<1> QED
  BY <1>1, <1>2, <1>3, <1>4, <1>5, <1>6, <1>7, <1>8, <1>9, <1>10, <1>11 DEF GuardStep

LEMMA CallInvInit == RunInit => CallInv
<1> SUFFICES ASSUME RunInit PROVE CallInv
  OBVIOUS
<1>1. LoopInv
  BY InitIInv DEF RunInit, IInv
<1>2. GuardP!IInv
  <2>1. GuardP!Init
    BY DEF RunInit, Guard!Init, GuardP!Init, Guard!NewGuards, GuardP!NewGuards,
       Guard!NewRunners, GuardP!NewRunners, Guard!Guards, GuardP!Guards, Guard!Runs,
       GuardP!Runs, Guard!Body, GuardP!Body
  <2> QED
    BY <2>1, GuardAssumed, GuardP!InitIInv
<1>3. RuntimeP!IInv
  <2>1. RuntimeP!Init
    BY DEF RunInit, Runtime!Init, RuntimeP!Init
  <2> QED
    BY <2>1, RuntimeAssumed, RuntimeP!InitEstablishes
<1>4. Link
  <2>1. calls[main] = <<>> /\ coroutine[main] = <<>> /\ pc[main] = "idle" /\ Guard!InBody(main)
    BY RunAssumption DEF RunInit, Init, Guard!Init, Runtime!Init, Guard!InBody, main
  <2>2. Len(calls[main]) = Len(coroutine[main]) + 0
    BY <2>1
  <2> QED
    BY <2>1, <2>2 DEF RunInit, Link
<1>5. NoStranger
  <2>1. handler = wanted /\ doing[main] = Guard!Body /\ \A g \in Guard!Guards : prev[g] = "None"
    BY DEF RunInit, Guard!Init, Guard!NewGuards, main
  <2> QED
    BY <2>1 DEF NoStranger, Known, Guard!Body
<1> QED
  BY <1>1, <1>2, <1>3, <1>4, <1>5 DEF CallInv

LEMMA CallInvKeeps == CallInv /\ [RunNext]_allVars => CallInv'
<1> SUFFICES ASSUME CallInv, [RunNext]_allVars PROVE CallInv'
  OBVIOUS
<1>1. CASE RunNext
  <2>1. interrupts' \in 0..MaxInterrupts
    BY <1>1, BoundKept DEF CallInv, GuardP!IInv, GuardP!TypeOK
  <2>2. LoopInv'
    BY RunKeeps DEF CallInv
  <2>3. GuardP!IInv'
    <3>1. CASE GuardP!Next
      BY <3>1, GuardAssumed, GuardP!NextIInv DEF CallInv
    <3> QED
      BY <1>1, <2>1, <3>1, GuardSees, GuardRests DEF CallInv
  <2>4. RuntimeP!IInv'
    <3>1. CASE RuntimeP!Next
      BY <3>1, RuntimeAssumed, RuntimeP!NextPreserves DEF CallInv
    <3> QED
      BY <1>1, <2>1, <3>1, RuntimeSees, RuntimeRests DEF CallInv
  <2> QED
    BY <1>1, <2>2, <2>3, <2>4, LinkKeeps, NoStrangerKeeps DEF CallInv
<1>2. CASE UNCHANGED allVars
  <2>1. UNCHANGED <<guardVars, startVars, interrupts, stage, calls>>
    BY <1>2 DEF allVars, loopVars
  <2>2. interrupts' \in 0..MaxInterrupts
    BY <2>1 DEF CallInv, GuardP!IInv, GuardP!TypeOK
  <2>3. GuardP!IInv' /\ RuntimeP!IInv'
    BY <2>1, <2>2, GuardRests, RuntimeRests DEF CallInv
  <2>4. Link'
    BY <2>1 DEF CallInv, Link, Guard!InBody, Guard!Body, guardVars, startVars
  <2>5. NoStranger'
    BY <2>1 DEF CallInv, NoStranger, Known, guardVars
  <2> QED
    BY <2>3, <2>4, <2>5, RunKeeps DEF CallInv
<1> QED
  BY <1>1, <1>2

LEMMA AlwaysCallInv == RunSpec => []CallInv
  BY CallInvInit, CallInvKeeps, PTL DEF RunSpec

(* In a whole call every variable of the guard, of the start-up and of     *)
(* run_coroutine keeps its type, and one budget of SIGINTs and failing     *)
(* builds bounds all three.                                                *)
THEOREM RunTypeCorrect == RunSpec => []RunTypeOK
<1>1. CallInv => RunTypeOK
  <2> SUFFICES ASSUME CallInv PROVE RunTypeOK
    OBVIOUS
  <2>1. TypeOK
    BY DEF CallInv, LoopInv, LoopOK, GuardP!IInv, GuardP!TypeOK, TypeOK
  <2>2. Guard!TypeOK
    BY DEF CallInv, GuardP!IInv, GuardP!TypeOK, Guard!TypeOK, Guard!Handlers,
       GuardP!Handlers, Guard!Guards, GuardP!Guards, Guard!Runs, GuardP!Runs
  <2>3. Runtime!TypeOK
    BY DEF CallInv, RuntimeP!IInv, RuntimeP!TypeOK, Runtime!TypeOK,
       RuntimeP!WorkersPositive, Runtime!WorkersPositive, Runtime!Pools,
       RuntimeP!Pools, Runtime!PyLabels, RuntimeP!PyLabels, Runtime!NativeLabels,
       RuntimeP!NativeLabels
  <2> QED
    BY <2>1, <2>2, <2>3 DEF CallInv, Link, RunTypeOK
<1> QED
  BY <1>1, AlwaysCallInv, PTL

(* Whichever component of a call of run() or Runner.run() fails or is      *)
(* interrupted, the ones around it undo what they did: outside of every    *)
(* call _rt_lock is free, run_coroutine has returned as often as it was    *)
(* called, and the application has its handler back, or                    *)
(* default_int_handler after a SIGINT in the middle of a guard's method.   *)
THEOREM RunUndone == RunSpec => []AllUndone
<1>1. CallInv => AllUndone
  <2> SUFFICES ASSUME CallInv, Outside PROVE AllUndone!2
    BY DEF AllUndone
  <2>1. /\ Len(coroutine[main]) = 0 /\ Len(calls[main]) \in Nat
        /\ (calls[main] = <<>> <=> Len(calls[main]) = 0)
    BY StacksAre DEF CallInv, LoopInv, Outside
  <2>2. stage = "code" /\ Len(calls[main]) = 0
    <3>1. Len(coroutine[main]) = Len(calls[main]) + IF stage = "code" THEN 0 ELSE 1
      BY DEF CallInv, Link
    <3> DEFINE n == Len(calls[main])
               m == Len(coroutine[main])
    <3>2. m = 0 /\ n \in Nat /\ m = n + IF stage = "code" THEN 0 ELSE 1
      BY <2>1, <3>1
    <3> HIDE DEF n, m
    <3>3. stage = "code" /\ n = 0
      BY <3>2
    <3> QED
      BY <3>3 DEF n
  <2>3. lock = None
    <3>1. pc[main] = "idle"
      BY <2>2 DEF CallInv, Link
    <3>2. lock # main
      BY <3>1 DEF CallInv, RuntimeP!IInv, RuntimeP!LockFollowsBlock, RuntimeP!InsideLock,
         RuntimeP!NativeLabels, main
    <3> QED
      BY <3>2 DEF CallInv, RuntimeP!IInv, RuntimeP!TypeOK, main
  <2>4. handler = wanted \/ (handler = "default" /\ (torn \/ wanted = "foreign"))
    <3>1. handler \in {"default", wanted}
      BY DEF CallInv, NoStranger
    <3>2. ~torn /\ wanted # "foreign" => handler = wanted
      <4>1. GuardP!RestoredAfterUse
        BY GuardAssumed, GuardP!IInvRestores DEF CallInv
      <4>2. GuardP!InBody(main)
        BY SameMethods DEF Outside
      <4> QED
        BY <4>1, <4>2 DEF GuardP!RestoredAfterUse, GuardP!Unguarded, Outside, main
    <3> QED
      BY <3>1, <3>2
  <2> QED
    BY <2>1, <2>2, <2>3, <2>4
<1> QED
  BY <1>1, AlwaysCallInv, PTL
=============================================================================
