----------------------------- MODULE SigintGuard -----------------------------
(***************************************************************************)
(* Who owns the SIGINT handler of the process.  run() wraps the coroutine  *)
(* in a _SigintGuard of its own; a Runner has one guard for its lifetime,  *)
(* installed by __enter__ and taken down by close().  The handler is one   *)
(* for the process and only the main thread may change it; threads may     *)
(* also use a Runner object together.                                      *)
(*                                                                         *)
(* CPython delivers a signal to the main thread when a call returns or a   *)
(* function starts: those are the places where a step ends here.           *)
(***************************************************************************)
EXTENDS Naturals, Sequences, SequencesExt

CONSTANTS Threads, MainThread,
          Runners,       \* the Runner objects
          Initial,       \* the handlers the application may start with
          Uses,          \* the values of `loose` that are considered
          MaxInterrupts, \* bound on the SIGINTs that raise KeyboardInterrupt
          MaxNest,       \* bound on calls of run_coroutine in each other
          MaxDepth,      \* bound on the nesting of `with` blocks
          MaxSets        \* bound on the handlers the application installs

(* A handler is default_int_handler, one that the application wrote, or    *)
(* one that was not installed from Python, which signal() reports as None. *)
Handlers == {"default", "custom", "foreign"}

ASSUME GuardAssumption ==
  /\ MainThread \in Threads
  /\ MaxNest \in Nat \ {0}
  /\ Runners \cap Nat = {}
  /\ Initial \subseteq Handlers
  /\ Uses \subseteq SUBSET Runners
  /\ MaxInterrupts \in Nat
  /\ MaxDepth \in Nat
  /\ MaxSets \in Nat

\* The guards that calls of run() make in the main thread, by their nesting: a
\* call in the coroutine of another has a guard of its own.
Runs == 1..MaxNest
Guards == Runners \cup Runs

VARIABLES
  loose,      \* the Runners of a program that uses them in any way, or {} in
              \* one that is disciplined: each Runner serves one `with` block
              \* of one thread, and handlers are set outside of the blocks
  handler,    \* the SIGINT handler of the process
  wanted,     \* the one that the application installed last
  prev,       \* prev[g]: _prev of a guard
  installed,  \* installed[g]: _installed of a guard
  entered,    \* entered[r]: _entered of a Runner
  closed,     \* closed[r]: _closed of a Runner
  frames,     \* frames[t]: the `with` blocks t is in, the innermost last
  doing,      \* doing[t]: the step that t does next in a guard's method
  coroutine,  \* coroutine[t]: the calls of run_coroutine that t is in, each
              \* under its guard, or that of its Runner; a nested one last
  cut,        \* a KeyboardInterrupt struck inside a method of a guard
  reported,   \* history: the exit of a guard has raised TypeError since the
              \* application last installed a handler
  interrupts, sets

vars == <<loose, handler, wanted, prev, installed, entered, closed, frames,
          doing, coroutine, cut, reported, interrupts, sets>>

\* What signal.signal() returns for the handler it replaces.
Seen(h) == IF h = "foreign" THEN "None" ELSE h

Body == [step |-> "body", guard |-> 1, saved |-> "None", pop |-> FALSE]

NewGuards == /\ prev = [g \in Guards |-> "None"]
             /\ installed = [g \in Guards |-> FALSE]
NewRunners == /\ entered = [r \in Runners |-> FALSE]
              /\ closed = [r \in Runners |-> FALSE]

Init == /\ loose \in Uses
        /\ handler \in Initial
        /\ wanted = handler
        /\ NewGuards
        /\ NewRunners
        /\ frames = [t \in Threads |-> <<>>]
        /\ doing = [t \in Threads |-> Body]
        /\ coroutine = [t \in Threads |-> <<>>]
        /\ cut = FALSE
        /\ reported = FALSE
        /\ interrupts = 0
        /\ sets = 0

-----------------------------------------------------------------------------
InBody(t) == doing[t] = Body
At(t, s) == doing[t].step = s
Goto(t, s) == doing' = [doing EXCEPT ![t].step = s]
Call(t, s, g, pop) ==
  doing' = [doing EXCEPT ![t] = [Body EXCEPT !.step = s, !.guard = g, !.pop = pop]]
Top(t) == IF frames[t] = <<>> THEN 0 ELSE Last(frames[t])

\* t leaves the method it is in; the exit of a `with` block ends the block.
Done(t) ==
  /\ doing' = [doing EXCEPT ![t] = Body]
  /\ frames' = IF doing[t].pop THEN [frames EXCEPT ![t] = Front(@)] ELSE frames

\* run_coroutine is called under guard g.
Begins(t, g) == coroutine' = [coroutine EXCEPT ![t] = Append(@, g)]

\* t enters the block of guard g.
Enters(t, g) ==
  /\ doing' = [doing EXCEPT ![t] = Body]
  /\ frames' = [frames EXCEPT ![t] = Append(@, g)]

-----------------------------------------------------------------------------
(* Entering                                                                *)

\* Who may call run_coroutine: a coroutine may, too.  (In other threads such a
\* call touches no guard and no handler, and is left out.)
MayRun(t) == /\ InBody(t)
             /\ Len(coroutine[t]) < IF t = MainThread THEN MaxNest ELSE 1

\* run(): `with _SigintGuard()`, with a new guard.  A run() of another thread has
\* a guard that never touches the handler.
CallRun(t) ==
  LET g == Len(coroutine[t]) + 1
  IN /\ MayRun(t)
     /\ IF t = MainThread
        THEN /\ Call(t, "signal", g, FALSE)
             /\ prev' = [prev EXCEPT ![g] = "None"]
             /\ installed' = [installed EXCEPT ![g] = FALSE]
             /\ UNCHANGED coroutine
        ELSE Begins(t, g) /\ UNCHANGED <<doing, prev, installed>>
     /\ UNCHANGED <<loose, handler, wanted, entered, closed, frames, cut,
                    reported, interrupts, sets>>

\* Runner.__enter__.  There is no guard against a second time, or against a
\* Runner that is closed; a disciplined program does neither.
RunnerEnter(t, r) ==
  /\ InBody(t)
  /\ coroutine[t] = <<>>
  /\ Len(frames[t]) < MaxDepth
  /\ IF loose = {}
     THEN ~entered[r] /\ ~closed[r] /\ \A u \in Threads : doing[u].guard # r
     ELSE r \in loose
  /\ Call(t, IF t = MainThread THEN "signal" ELSE "mark", r, FALSE)
  /\ UNCHANGED <<loose, handler, wanted, prev, installed, entered, closed,
                 frames, coroutine, cut, reported, interrupts, sets>>

\* _SigintGuard.__enter__: the call of signal.signal.  Off the main thread it is
\* refused, the guard is noted as not installed, and the Runner goes on.  (The
\* test for the main thread keeps other threads from coming here at all.)
Swap(t) ==
  /\ At(t, "signal")
  /\ IF t = MainThread
     THEN /\ doing' = [doing EXCEPT ![t].step = "record", ![t].saved = Seen(handler)]
          /\ handler' = "default"
          /\ UNCHANGED installed
     ELSE /\ installed' = [installed EXCEPT ![doing[t].guard] = FALSE]
          /\ Goto(t, "mark")
          /\ UNCHANGED handler
  /\ UNCHANGED <<loose, wanted, prev, entered, closed, frames, coroutine, cut,
                 reported, interrupts, sets>>

\* (Mutant: the previous handler is looked up after the swap.)
RecordLate(t) ==
  /\ At(t, "record")
  /\ LET g == doing[t].guard
     IN /\ prev' = [prev EXCEPT ![g] = Seen(handler)]
        /\ installed' = [installed EXCEPT ![g] = TRUE]
        /\ IF g \in Runs
           THEN Enters(t, g) /\ Begins(t, g)
           ELSE Goto(t, "mark") /\ UNCHANGED <<frames, coroutine>>
  /\ UNCHANGED <<loose, handler, wanted, entered, closed, cut, reported,
                 interrupts, sets>>

\* On the main thread its result is recorded then, and run() goes on to
\* run_coroutine.
Record(t) ==
  /\ At(t, "record")
  /\ LET g == doing[t].guard
     IN /\ prev' = [prev EXCEPT ![g] = doing[t].saved]
        /\ installed' = [installed EXCEPT ![g] = TRUE]
        /\ IF g \in Runs
           THEN Enters(t, g) /\ Begins(t, g)
           ELSE Goto(t, "mark") /\ UNCHANGED <<frames, coroutine>>
  /\ UNCHANGED <<loose, handler, wanted, entered, closed, cut, reported,
                 interrupts, sets>>

\* Runner.__enter__: `self._entered = True`.
Mark(t) ==
  /\ At(t, "mark")
  /\ entered' = [entered EXCEPT ![doing[t].guard] = TRUE]
  /\ Enters(t, doing[t].guard)
  /\ UNCHANGED <<loose, handler, wanted, prev, installed, closed, coroutine,
                 cut, reported, interrupts, sets>>

-----------------------------------------------------------------------------
(* Running and leaving                                                     *)

\* Runner.run() on a Runner that is not closed; otherwise RuntimeError.
RunnerRun(t, r) ==
  /\ MayRun(t)
  /\ ~closed[r]
  /\ Begins(t, r)
  /\ UNCHANGED <<loose, handler, wanted, prev, installed, entered, closed,
                 frames, doing, cut, reported, interrupts, sets>>

\* (Mutant: whatever block is innermost is left with the coroutine.)
EndsBlock(t) ==
  /\ coroutine' = [coroutine EXCEPT ![t] = Front(@)]
  /\ Call(t, "restore", Top(t), TRUE)

\* The innermost run_coroutine returns or raises; the guard of run() is left
\* with it.
Ends(t) ==
  LET g == Last(coroutine[t])
  IN /\ coroutine' = [coroutine EXCEPT ![t] = Front(@)]
     /\ IF t = MainThread /\ g \in Runs THEN Call(t, "restore", g, TRUE)
                                         ELSE UNCHANGED doing

CoroutineEnds(t) ==
  /\ InBody(t)
  /\ coroutine[t] # <<>>
  /\ Ends(t)
  /\ UNCHANGED <<loose, handler, wanted, prev, installed, entered, closed,
                 frames, cut, reported, interrupts, sets>>

\* Runner.__exit__, or close() called by hand: on any Runner by any thread,
\* or, in a disciplined program, on the Runner of the innermost block.
CallClose(t, r) ==
  /\ InBody(t)
  /\ coroutine[t] = <<>>
  /\ \/ Top(t) = r /\ \E pop \in BOOLEAN : Call(t, "close", r, pop)
     \/ r \in loose /\ Call(t, "close", r, FALSE)
  /\ UNCHANGED <<loose, handler, wanted, prev, installed, entered, closed,
                 frames, coroutine, cut, reported, interrupts, sets>>

Close(t) ==
  /\ At(t, "close")
  /\ LET r == doing[t].guard
     IN /\ closed' = [closed EXCEPT ![r] = TRUE]
        /\ IF ~closed[r] /\ entered[r] THEN Goto(t, "restore") /\ UNCHANGED frames
                                       ELSE Done(t)
  /\ UNCHANGED <<loose, handler, wanted, prev, installed, entered, coroutine,
                 cut, reported, interrupts, sets>>

\* The guard is down, and with it `_entered` of its Runner; the guard of a run()
\* is not used again.
Down(g) ==
  /\ prev' = IF g \in Runs THEN [prev EXCEPT ![g] = "None"] ELSE prev
  /\ installed' = [installed EXCEPT ![g] = FALSE]
  /\ entered' = IF g \in Runs THEN entered ELSE [entered EXCEPT ![g] = FALSE]

\* _SigintGuard.__exit__ of a guard that is not installed.
NothingToRestore(t) ==
  /\ At(t, "restore")
  /\ ~installed[doing[t].guard]
  /\ Down(doing[t].guard)
  /\ Done(t)
  /\ UNCHANGED <<loose, handler, wanted, closed, coroutine, cut, reported,
                 interrupts, sets>>

\* (Mutant: the application's handler is restored, not the previous one.)
RestoreOutermost(t) ==
  /\ At(t, "restore")
  /\ installed[doing[t].guard]
  /\ handler' = IF t = MainThread THEN wanted ELSE handler
  /\ Goto(t, "unset")
  /\ UNCHANGED <<loose, wanted, prev, installed, entered, closed, frames,
                 coroutine, cut, reported, interrupts, sets>>

\* (Mutant: every error of signal.signal is swallowed.)
RestoreSwallows(t) ==
  /\ At(t, "restore")
  /\ LET g == doing[t].guard
     IN /\ installed[g]
        /\ handler' = IF t = MainThread /\ prev[g] # "None" THEN prev[g] ELSE handler
        /\ Goto(t, "unset")
  /\ UNCHANGED <<loose, wanted, prev, installed, entered, closed, frames,
                 coroutine, cut, reported, interrupts, sets>>

\* signal.signal(SIGINT, _prev): ValueError off the main thread is swallowed,
\* a _prev of None is a TypeError, which is not.
Restore(t) ==
  /\ At(t, "restore")
  /\ LET g == doing[t].guard
     IN /\ installed[g]
        /\ \/ /\ t # MainThread
              /\ Goto(t, "unset")
              /\ UNCHANGED <<handler, frames, reported>>
           \/ /\ t = MainThread
              /\ prev[g] # "None"
              /\ handler' = prev[g]
              /\ Goto(t, "unset")
              /\ UNCHANGED <<frames, reported>>
           \/ /\ t = MainThread
              /\ prev[g] = "None"
              /\ reported' = TRUE
              /\ Done(t)
              /\ UNCHANGED handler
  /\ UNCHANGED <<loose, wanted, prev, installed, entered, closed, coroutine,
                 cut, interrupts, sets>>

Unset(t) ==
  /\ At(t, "unset")
  /\ Down(doing[t].guard)
  /\ Done(t)
  /\ UNCHANGED <<loose, handler, wanted, closed, coroutine, cut, reported,
                 interrupts, sets>>

-----------------------------------------------------------------------------
(* The environment                                                         *)

\* The application installs a handler, by signal.signal.
AppSets(h) ==
  /\ InBody(MainThread)
  /\ loose # {} \/ frames[MainThread] = <<>>
  /\ h # handler
  /\ sets < MaxSets
  /\ sets' = sets + 1
  /\ handler' = h
  /\ wanted' = h
  /\ reported' = FALSE
  /\ UNCHANGED <<loose, prev, installed, entered, closed, frames, doing,
                 coroutine, cut, interrupts>>

\* SIGINT under default_int_handler: KeyboardInterrupt in the main thread, in
\* the coroutine or in a method of a guard.  In __enter__ it keeps the block
\* from being entered; in __exit__ the block is left with the rest undone.
Interrupt ==
  /\ handler = "default"
  /\ interrupts < MaxInterrupts
  /\ interrupts' = interrupts + 1
  /\ \/ /\ InBody(MainThread)
        /\ coroutine[MainThread] # <<>>
        /\ Ends(MainThread)
        /\ UNCHANGED <<frames, cut>>
     \/ /\ ~InBody(MainThread)
        /\ Done(MainThread)
        /\ cut' = (cut \/ doing[MainThread].step \notin {"signal", "unset"})
        /\ UNCHANGED coroutine
  /\ UNCHANGED <<loose, handler, wanted, prev, installed, entered, closed,
                 reported, sets>>

-----------------------------------------------------------------------------
Next == \/ \E t \in Threads :
             \/ CallRun(t) \/ Swap(t) \/ Record(t) \/ Mark(t)
             \/ CoroutineEnds(t) \/ Close(t) \/ NothingToRestore(t)
             \/ Restore(t) \/ Unset(t)
             \/ \E r \in Runners : \/ RunnerEnter(t, r) \/ RunnerRun(t, r)
                                   \/ CallClose(t, r)
        \/ \E h \in {"default", "custom"} : AppSets(h)
        \/ Interrupt

Spec == Init /\ [][Next]_vars
-----------------------------------------------------------------------------
(* Properties                                                              *)

TypeOK ==
  /\ loose \subseteq Runners
  /\ handler \in Handlers
  /\ wanted \in Handlers
  /\ prev \in [Guards -> {"None", "default", "custom"}]
  /\ installed \in [Guards -> BOOLEAN]
  /\ entered \in [Runners -> BOOLEAN]
  /\ closed \in [Runners -> BOOLEAN]
  /\ frames \in [Threads -> Seq(Guards)]
  /\ doing \in [Threads ->
       [step: {"body", "signal", "record", "mark", "close", "restore", "unset"},
        guard: Guards, saved: {"None", "default", "custom"}, pop: BOOLEAN]]
  /\ coroutine \in [Threads -> Seq(Guards)]
  /\ cut \in BOOLEAN
  /\ reported \in BOOLEAN
  /\ interrupts \in 0..MaxInterrupts
  /\ sets \in 0..MaxSets

(* The main thread is not under any guard, and no KeyboardInterrupt has    *)
(* struck a guard half-way.                                                *)
Unguarded == frames[MainThread] = <<>> /\ InBody(MainThread) /\ ~cut

(* Guards restore what they replaced: whatever nesting of run() and        *)
(* Runners a disciplined program has been through, and however often it    *)
(* was interrupted in coroutines, the application has its own handler      *)
(* back.  (One that was not installed from Python cannot be restored.)     *)
RestoredAfterUse == Unguarded /\ loose = {} /\ wanted # "foreign" => handler = wanted

(* The same for any use of a Runner: entered again, or closed early.       *)
RestoredHowever == Unguarded /\ wanted # "foreign" => handler = wanted

(* A coroutine that the main thread of a disciplined program runs under a  *)
(* guard can be interrupted: no inner guard that was left, of a Runner or  *)
(* of a run() that the coroutine itself has called, has taken the handler  *)
(* away.                                                                   *)
InterruptibleWhileRunning ==
  LET g == Last(frames[MainThread])
  IN /\ loose = {} /\ coroutine[MainThread] # <<>> /\ InBody(MainThread)
     /\ frames[MainThread] # <<>> /\ (g \in Runs \/ ~closed[g])
     => handler = "default"

(* No loss is silent: when a disciplined program is out of its guards and  *)
(* has not its own handler, the exit of a guard has raised TypeError, since*)
(* the application last set one, over the result of the run; but for a     *)
(* handler that was not installed from Python that has not happened.       *)
LossIsReported ==
  /\ Unguarded /\ loose = {} /\ handler # wanted => reported
  /\ loose = {} /\ ~cut /\ reported => wanted = "foreign"
=============================================================================
