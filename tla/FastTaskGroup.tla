---------------------------- MODULE FastTaskGroup ----------------------------
(***************************************************************************)
(* The task group of python/ferro_io/__init__.py.  _FastTaskGroup replaces *)
(* create_task of asyncio.TaskGroup: a child that an eager task factory    *)
(* has already run to a result is returned without being tracked.  The     *)
(* rest of the group (__aenter__, __aexit__, _abort, _on_task_done) and    *)
(* the task machinery are asyncio's, as of CPython 3.13.                   *)
(*                                                                         *)
(* One event loop runs one callback at a time; inside a callback, an eager *)
(* create_task runs the first step of the new child at once, so coroutines *)
(* stack up.  asyncio runs the callbacks that are ready in the order they  *)
(* became ready; here any of them may be next, which allows more.          *)
(***************************************************************************)
EXTENDS Naturals, Sequences

CONSTANTS Tasks,      \* the coroutines offered to the group
          Parent,     \* the task in whose `async with` block the group lives
          Outsider,   \* any other task that holds a reference to the group
          Eager,      \* those that start eagerly: all under the task factory of
                      \* run() (3.12 on), or as create_task is told (3.14 on)
          AwaitedBy,  \* asyncio.futures has future_add_to_awaited_by (3.14)
          MaxCancels  \* bound on the cancellations of the parent from outside

ASSUME GroupAssumption ==
  /\ Parent \notin Tasks
  /\ Outsider \notin Tasks \cup {Parent}
  /\ Eager \subseteq Tasks
  /\ AwaitedBy \in BOOLEAN
  /\ MaxCancels \in Nat

Actors == Tasks \cup {Parent, Outsider}

VARIABLES
  \* the event loop
  stack,      \* the coroutines being run, the innermost last
  scheduled,  \* the tasks whose next step is in the ready queue
  interrupt,  \* the tasks whose next step raises CancelledError
  state,      \* state[t]: the life of a child
  \* the attributes of the group
  tasks,                  \* _tasks
  aborting,               \* _aborting
  parentCancelRequested,  \* _parent_cancel_requested
  errors,                 \* the children whose exception is in _errors
  onCompletedFut,         \* _on_completed_fut
  awaitedBy,              \* the children that list the parent as awaiting them
  \* the parent
  at,         \* where it is with respect to the `async with` block
  thrown,     \* CancelledError was raised in the body
  bodyEnd,    \* how the body ended
  propagate,  \* propagate_cancellation_error is set
  cancels,    \* cancelling(): its pending cancellation requests
  outcome,    \* how the block was left
  \* history
  external,   \* cancellations of the parent requested from outside the group
  asked       \* the children that the group has called cancel() on

loop  == <<stack, scheduled, interrupt, state>>
group == <<tasks, aborting, parentCancelRequested, errors, onCompletedFut,
           awaitedBy>>
parent == <<at, thrown, bodyEnd, propagate, cancels, outcome>>
vars == <<loop, group, parent, external, asked>>

Active == {"new", "eager", "started"}  \* not run yet; in its eager first step
Over == {"ok", "err", "cancelled"}

Init ==
  /\ stack = <<Parent>>
  /\ scheduled = {}
  /\ interrupt = {}
  /\ state = [t \in Tasks |-> "none"]
  /\ tasks = {}
  /\ aborting = FALSE
  /\ parentCancelRequested = FALSE
  /\ errors = {}
  /\ onCompletedFut = "none"
  /\ awaitedBy = {}
  /\ at = "before"
  /\ thrown = FALSE
  /\ bodyEnd = "none"
  /\ propagate = FALSE
  /\ cancels = 0
  /\ outcome = "none"
  /\ external = 0
  /\ asked = {}

-----------------------------------------------------------------------------
(* The event loop                                                          *)

Idle == stack = <<>>
Running(x) == stack # <<>> /\ stack[Len(stack)] = x
Return == stack' = SubSeq(stack, 1, Len(stack) - 1)
Settled(t) == state[t] \in Over
Undone == {t \in tasks : ~Settled(t)}
Set(t, s) == state' = [state EXCEPT ![t] = s]

\* A child that is suspended, and the parent in the body, wait for something
\* of their own (a timer, a socket, a result of another task).
Suspended(x) == /\ x \notin scheduled
                /\ \A i \in 1..Len(stack) : stack[i] # x
                /\ IF x = Parent THEN at = "body"
                                 ELSE x \in Tasks /\ state[x] = "started"

Wake(x) ==
  /\ Suspended(x)
  /\ scheduled' = scheduled \cup {x}
  /\ UNCHANGED <<stack, interrupt, state, group, parent, external, asked>>

\* Task.__step of a child.
Step(t) ==
  /\ Idle
  /\ t \in scheduled
  /\ scheduled' = scheduled \ {t}
  /\ interrupt' = interrupt \ {t}
  /\ IF state[t] = "new" /\ t \in interrupt
     THEN Set(t, "cancelled") /\ UNCHANGED stack  \* never gets to run
     ELSE Set(t, "started") /\ stack' = <<t>>
  /\ UNCHANGED <<group, parent, external, asked>>

\* Another task is given the loop for a while.
OutsiderRuns ==
  /\ Idle
  /\ stack' = <<Outsider>>
  /\ UNCHANGED <<scheduled, interrupt, state, group, parent, external, asked>>

OutsiderYields ==
  /\ Running(Outsider)
  /\ stack' = <<>>
  /\ UNCHANGED <<scheduled, interrupt, state, group, parent, external, asked>>

-----------------------------------------------------------------------------
(* _FastTaskGroup.create_task                                              *)

\* (Mutant: no guard against a group that is finished.)
RefusesNotFinished == at = "before" \/ aborting

\* (Mutant: no guard against a group that shuts down.)
RefusesNotAborting == at = "before" \/ (at \in {"exit", "after"} /\ tasks = {})

\* The three guards, on the flags of the group: entered, exiting, aborting.
Refuses == \/ at = "before"
           \/ at \in {"exit", "after"} /\ tasks = {}
           \/ aborting

\* The coroutine is closed without having run, and RuntimeError is raised.
CreateRefused(t) ==
  /\ ~Idle
  /\ state[t] = "none"
  /\ Refuses
  /\ Set(t, "refused")
  /\ UNCHANGED <<stack, scheduled, interrupt, group, parent, external, asked>>

\* (Mutant: the wrong task is added to _tasks.)
TrackParent(t) ==
  /\ tasks' = tasks \cup {Parent}
  /\ awaitedBy' = IF AwaitedBy THEN awaitedBy \cup {t} ELSE awaitedBy
  /\ UNCHANGED <<aborting, parentCancelRequested, errors, onCompletedFut>>

\* The end of create_task for a child that has not returned a result.
Track(t) ==
  /\ tasks' = tasks \cup {t}
  /\ awaitedBy' = IF AwaitedBy THEN awaitedBy \cup {t} ELSE awaitedBy
  /\ UNCHANGED <<aborting, parentCancelRequested, errors, onCompletedFut>>

CreateLazy(t) ==
  /\ ~Idle
  /\ state[t] = "none"
  /\ ~Refuses
  /\ t \notin Eager
  /\ Set(t, "new")
  /\ scheduled' = scheduled \cup {t}
  /\ Track(t)
  /\ UNCHANGED <<stack, interrupt, parent, external, asked>>

\* loop.create_task runs the first step of the child inside the call; the
\* rest of create_task follows when the child gives up control.
CreateEager(t) ==
  /\ ~Idle
  /\ state[t] = "none"
  /\ ~Refuses
  /\ t \in Eager
  /\ Set(t, "eager")
  /\ stack' = Append(stack, t)
  /\ UNCHANGED <<scheduled, interrupt, group, parent, external, asked>>

\* (Mutant: the fast path is taken for every eager child.)
SuspendUntracked(t) ==
  /\ Running(t)
  /\ Return
  /\ Set(t, "started")
  /\ UNCHANGED <<group, scheduled, interrupt, parent, external, asked>>

\* The child gives up control at an await.  If this was its eager first step,
\* create_task goes on and tracks it.
Suspend(t) ==
  /\ Running(t)
  /\ Return
  /\ Set(t, "started")
  /\ IF state[t] = "eager" THEN Track(t) ELSE UNCHANGED group
  /\ UNCHANGED <<scheduled, interrupt, parent, external, asked>>

\* (Mutant: the fast path is taken for every child that is done.)
FastPathDone(t, how) == state[t] = "eager"

\* The child ends.  After an eager first step, create_task takes the fast path
\* for a result, and tracks a child that failed or was cancelled: its
\* done-callback is to run soon.
FastPath(t, how) == state[t] = "eager" /\ how = "ok"

\* (Mutant: create_task cancels the parent itself when the child has failed.)
FinishCancelsParent(t, how) ==
  /\ Running(t)
  /\ Return
  /\ Set(t, how)
  /\ IF state[t] = "eager" /\ ~FastPath(t, how) THEN Track(t)
                                                ELSE UNCHANGED group
  /\ IF state[t] = "eager" /\ how = "err"
     THEN cancels' = cancels + 1 /\ interrupt' = interrupt \cup {Parent}
     ELSE UNCHANGED <<cancels, interrupt>>
  /\ UNCHANGED <<scheduled, at, thrown, bodyEnd, propagate, outcome, external,
                 asked>>

\* (Mutant: a child leaves _tasks when it ends, before its done-callback.)
FinishDiscards(t, how) ==
  /\ Running(t)
  /\ Return
  /\ Set(t, how)
  /\ tasks' = tasks \ {t}
  /\ awaitedBy' = awaitedBy \ {t}
  /\ UNCHANGED <<aborting, parentCancelRequested, errors, onCompletedFut,
                 scheduled, interrupt, parent, external, asked>>

Finish(t, how) ==
  /\ Running(t)
  /\ Return
  /\ Set(t, how)
  /\ IF state[t] = "eager" /\ ~FastPath(t, how) THEN Track(t)
                                                ELSE UNCHANGED group
  /\ UNCHANGED <<scheduled, interrupt, parent, external, asked>>

-----------------------------------------------------------------------------
(* asyncio.TaskGroup and Task.cancel                                       *)

\* The last child completes the future on which the parent waits.
Completes(t) == onCompletedFut = "pending" /\ tasks = {t}

\* The first error aborts the group and cancels the parent.
Aborts(t) == state[t] = "err" /\ ~aborting /\ ~parentCancelRequested

\* TaskGroup._on_task_done, the done-callback of a tracked child.
OnTaskDone(t) ==
  /\ Idle
  /\ t \in tasks
  /\ Settled(t)
  /\ tasks' = tasks \ {t}
  /\ awaitedBy' = awaitedBy \ {t}
  /\ errors' = IF state[t] = "err" THEN errors \cup {t} ELSE errors
  /\ aborting' = (aborting \/ Aborts(t))
  /\ parentCancelRequested' = (parentCancelRequested \/ Aborts(t))
  /\ cancels' = IF Aborts(t) THEN cancels + 1 ELSE cancels
  /\ LET hit == IF Aborts(t) THEN Undone ELSE {}
     IN /\ asked' = asked \cup hit
        /\ interrupt' = interrupt \cup hit
                          \cup (IF Aborts(t) THEN {Parent} ELSE {})
        /\ scheduled' = scheduled \cup hit
             \cup (IF Aborts(t) \/ Completes(t) THEN {Parent} ELSE {})
  /\ onCompletedFut' = IF Completes(t) \/ (Aborts(t) /\ onCompletedFut = "pending")
                       THEN "done" ELSE onCompletedFut
  /\ UNCHANGED <<stack, state, at, thrown, bodyEnd, propagate, outcome, external>>

\* Somebody calls cancel() on the parent: timeout(), the user, the parent.
CancelParent ==
  /\ ~Idle
  /\ at \in {"body", "exit"}
  /\ external < MaxCancels
  /\ external' = external + 1
  /\ cancels' = cancels + 1
  /\ interrupt' = interrupt \cup {Parent}
  /\ scheduled' = IF stack[1] = Parent THEN scheduled
                                       ELSE scheduled \cup {Parent}
  /\ onCompletedFut' = IF onCompletedFut = "pending" THEN "done"
                                                     ELSE onCompletedFut
  /\ UNCHANGED <<stack, state, tasks, aborting, parentCancelRequested, errors,
                 awaitedBy, at, thrown, bodyEnd, propagate, outcome, asked>>

\* __aenter__
Enter ==
  /\ Running(Parent)
  /\ at = "before"
  /\ at' = "body"
  /\ UNCHANGED <<loop, group, thrown, bodyEnd, propagate, cancels, outcome,
                 external, asked>>

BodySuspends ==
  /\ Running(Parent)
  /\ at = "body"
  /\ Return
  /\ scheduled' = IF Parent \in interrupt THEN scheduled \cup {Parent}
                                          ELSE scheduled
  /\ UNCHANGED <<interrupt, state, group, parent, external, asked>>

BodyStep ==
  /\ Idle
  /\ Parent \in scheduled
  /\ at = "body"
  /\ stack' = <<Parent>>
  /\ scheduled' = scheduled \ {Parent}
  /\ interrupt' = interrupt \ {Parent}
  /\ thrown' = (thrown \/ Parent \in interrupt)
  /\ UNCHANGED <<state, group, at, bodyEnd, propagate, cancels, outcome,
                 external, asked>>

\* The requests left once the group has taken its own back with uncancel().
Left == IF parentCancelRequested THEN cancels - 1 ELSE cancels
Cleared == parentCancelRequested /\ Left = 0

\* (Mutant: a hidden cancellation is not armed again, as before CPython 3.13.)
StillPendingHidden(how, pending) ==
  IF Cleared THEN pending \ {Parent} ELSE pending

\* What is still to be raised in the parent: uncancel() drops a cancellation
\* when none is left, and one that the exception group hides is armed again.
StillPending(how, pending) ==
  IF how = "group" /\ Left > 0 THEN pending \cup {Parent}
  ELSE IF Cleared THEN pending \ {Parent} ELSE pending

\* The end of __aexit__, with no child left; `prop` is the value of
\* propagate_cancellation_error and `pending` the interrupts not yet raised.
Conclude(prop, pending) ==
  /\ at' = "after"
  /\ outcome' = IF prop /\ ~Cleared /\ errors = {} THEN "cancelled"
                ELSE IF errors # {} \/ bodyEnd' = "err" THEN "group"
                ELSE "returned"
  /\ cancels' = Left
  /\ interrupt' = StillPending(outcome', pending)
  /\ scheduled' = scheduled \ {Parent}
  /\ onCompletedFut' = "none"
  /\ propagate' = FALSE

\* `while self._tasks`: abort if a reason has just come up, then wait for the
\* children or conclude.
Aexit(prop, abort, pending) ==
  LET hit == IF abort THEN Undone ELSE {}
  IN /\ stack' = <<>>
     /\ aborting' = (aborting \/ abort)
     /\ asked' = asked \cup hit
     /\ IF tasks = {}
        THEN Conclude(prop, pending)
        ELSE /\ at' = "exit"
             /\ propagate' = prop
             /\ interrupt' = pending \cup hit
             /\ scheduled' = (scheduled \ {Parent}) \cup hit
                               \cup (IF Parent \in pending THEN {Parent} ELSE {})
             /\ onCompletedFut' = IF Parent \in pending THEN "done" ELSE "pending"
             /\ UNCHANGED <<cancels, outcome>>
     /\ UNCHANGED <<state, tasks, parentCancelRequested, errors, awaitedBy,
                    thrown, external>>

\* The body ends and __aexit__ runs up to its first await.
LeaveBody(how) ==
  /\ Running(Parent)
  /\ at = "body"
  /\ bodyEnd' = how
  /\ Aexit(how = "cancelled", how # "ok" /\ ~aborting, interrupt)

\* The await of _on_completed_fut is over: it was completed or cancelled.
WaitStep ==
  /\ Idle
  /\ Parent \in scheduled
  /\ at = "exit"
  /\ UNCHANGED bodyEnd
  /\ LET news == Parent \in interrupt /\ ~aborting
     IN Aexit(propagate \/ news, news, interrupt \ {Parent})

-----------------------------------------------------------------------------
Child(t) == \/ Step(t) \/ CreateRefused(t) \/ CreateLazy(t) \/ CreateEager(t)
            \/ Suspend(t) \/ OnTaskDone(t)
            \/ \E how \in Over : Finish(t, how)

ParentDoes == \/ Enter \/ BodySuspends \/ BodyStep \/ WaitStep
              \/ \E how \in Over : LeaveBody(how)

Next == \/ \E t \in Tasks : Child(t)
        \/ \E x \in Tasks \cup {Parent} : Wake(x)
        \/ ParentDoes
        \/ CancelParent
        \/ OutsiderRuns \/ OutsiderYields

Spec == Init /\ [][Next]_vars

(* Every callback that is ready is run: asyncio's queue is first come,     *)
(* first served.  Fairness is strong because one callback excludes the     *)
(* others.  Coroutines do not run for ever without an await.               *)
FairLoop == /\ \A t \in Tasks : SF_vars(Step(t)) /\ SF_vars(OnTaskDone(t))
            /\ SF_vars(BodyStep) /\ SF_vars(WaitStep)
            /\ WF_vars(OutsiderYields)
            /\ \A t \in Tasks : SF_vars(\E how \in Over : Finish(t, how))
            /\ SF_vars(\E how \in Over : LeaveBody(how))

(* What children wait for may never arrive; only what a cancelled          *)
(* coroutine still awaits while it cleans up does.                         *)
CleanupSpec == /\ Spec /\ FairLoop
               /\ \A t \in Tasks : WF_vars(t \in asked /\ Wake(t))
               /\ WF_vars(thrown /\ Wake(Parent))
-----------------------------------------------------------------------------
(* Properties                                                              *)

TypeOK ==
  /\ stack \in Seq(Actors)
  /\ scheduled \subseteq Tasks \cup {Parent}
  /\ interrupt \subseteq Tasks \cup {Parent}
  /\ state \in [Tasks -> {"none", "refused"} \cup Active \cup Over]
  /\ tasks \subseteq Tasks
  /\ aborting \in BOOLEAN
  /\ parentCancelRequested \in BOOLEAN
  /\ errors \subseteq Tasks
  /\ onCompletedFut \in {"none", "pending", "done"}
  /\ awaitedBy \subseteq Tasks
  /\ at \in {"before", "body", "exit", "after"}
  /\ thrown \in BOOLEAN
  /\ bodyEnd \in {"none"} \cup Over
  /\ propagate \in BOOLEAN
  /\ cancels \in Nat
  /\ outcome \in {"none", "returned", "cancelled", "group"}
  /\ external \in 0..MaxCancels
  /\ asked \subseteq Tasks

(* No child outlives the block, tracked or not: when the parent has left   *)
(* it, every coroutine that create_task accepted is over, no done-callback *)
(* of the group is left in the queue and none still lists the parent as    *)
(* waiting for it.  The fast path of create_task must not lose a child     *)
(* that is only suspended.                                                 *)
NoOrphan ==
  at = "after" => /\ \A t \in Tasks : state[t] \notin Active
                  /\ tasks = {}
                  /\ awaitedBy = {}

(* The exception of no child is lost: also one that failed in its eager    *)
(* first step, inside create_task, or after the group began to abort.      *)
NoErrorLost ==
  at = "after" =>
    /\ outcome = "group" <=> bodyEnd = "err" \/ \E t \in Tasks : state[t] = "err"
    /\ errors = {t \in Tasks : state[t] = "err"}

(* Once the group aborts, every child it tracks has been told to stop,     *)
(* whenever it was created: create_task admits none behind the back of     *)
(* _abort, although the guard is read before the child's first step.       *)
AbortReachesAll == aborting => Undone \subseteq asked

(* A cancellation from outside is not swallowed by the block, however it   *)
(* races with errors of children: it is raised by the block or still       *)
(* pending behind the exception group, unless the body itself caught it.   *)
CancelNotSwallowed ==
  at = "after" /\ external > 0 /\ ~(thrown /\ bodyEnd = "ok") =>
    outcome = "cancelled" \/ Parent \in interrupt

(* The parent is not cancelled by mistake: without a request from outside  *)
(* and a CancelledError of the body's own, the block never ends cancelled  *)
(* and leaves none pending.                                                *)
NoStrayCancel ==
  at = "after" /\ external = 0 /\ (bodyEnd = "cancelled" => thrown) =>
    outcome # "cancelled" /\ Parent \notin interrupt

(* The inductive invariant behind the ones above.                          *)

(* The parent is left with exactly the cancellation requests that came     *)
(* from outside: the group adds one of its own at most and takes it back.  *)
CancelCountBalanced ==
  cancels = external +
            (IF parentCancelRequested /\ at # "after" THEN 1 ELSE 0)

\* Only a task at the bottom of the stack was run by the loop; the ones above
\* it are in their eager first step, each inside a create_task of the one
\* below, and no other child is.
StackShape ==
  /\ \A i, j \in 1..Len(stack) : stack[i] = stack[j] => i = j
  /\ \A i \in 2..Len(stack) : stack[i] \in Tasks /\ state[stack[i]] = "eager"
  /\ stack # <<>> /\ stack[1] \in Tasks => state[stack[1]] = "started"
  /\ \A t \in Tasks : state[t] = "eager" =>
       \E i \in 2..Len(stack) : stack[i] = t
  /\ stack # <<>> /\ stack[1] = Parent => at \in {"before", "body"}

\* create_task's guards still hold when it tracks an eager child.
GuardsNotStale == \A t \in Tasks : state[t] = "eager" => ~aborting

\* Between create_task and _on_task_done, and only then, a child is tracked.
Tracked ==
  /\ \A t \in Tasks : /\ state[t] \in {"new", "started"} => t \in tasks
                      /\ t \in tasks => state[t] \in {"new", "started"} \cup Over
                      /\ t \in errors <=> state[t] = "err" /\ t \notin tasks
                      /\ t \in scheduled =>
                           /\ state[t] \in {"new", "started"}
                           /\ \A i \in 1..Len(stack) : stack[i] # t
  /\ awaitedBy \subseteq tasks
  /\ at = "before" => \A t \in Tasks : state[t] \in {"none", "refused"}

\* Why the group aborts, and what the parent is going to raise.
Reasons ==
  /\ at \in {"before", "body"} =>
       /\ bodyEnd = "none"
       /\ ~propagate
       /\ aborting <=> parentCancelRequested
       /\ aborting <=> errors # {}
  /\ parentCancelRequested => aborting /\ errors # {}
  /\ at = "exit" => /\ bodyEnd \in Over
                    /\ aborting <=> propagate \/ errors # {} \/ bodyEnd = "err"
                    /\ bodyEnd = "cancelled" => propagate
                    /\ bodyEnd = "err" => ~propagate
  /\ at = "before" => ~thrown /\ Parent \notin interrupt /\ external = 0

\* Where a cancellation of the parent is on its way.
Pending ==
  /\ at = "body" /\ external > 0 => thrown \/ Parent \in interrupt
  /\ at = "exit" /\ external > 0 =>
       \/ Parent \in interrupt \/ propagate \/ errors # {} \/ bodyEnd = "err"
       \/ thrown /\ bodyEnd = "ok"
  /\ at \in {"body", "exit"} /\ external = 0 =>
       /\ Parent \in interrupt \/ thrown => parentCancelRequested
       /\ at = "exit" /\ propagate => bodyEnd = "cancelled"

IInv == /\ TypeOK
        /\ StackShape
        /\ GuardsNotStale
        /\ Tracked
        /\ Reasons
        /\ Pending
        /\ NoOrphan
        /\ NoErrorLost
        /\ AbortReachesAll
        /\ CancelCountBalanced
        /\ CancelNotSwallowed
        /\ NoStrayCancel

(* The group implements the contract of structured concurrency.            *)
ChildView == [t \in Tasks |-> IF state[t] \in Active THEN "active" ELSE state[t]]

Contract == INSTANCE TaskGroupContract WITH child <- ChildView,
                                            open <- at # "after"
KeepsContract == Contract!Spec

(* The block is left once the body has ended, if what its children wait    *)
(* for arrives: the wake-up of the parent is never lost.                   *)
ExitCompletes ==
  (\A t \in Tasks : WF_vars(Wake(t))) => (at = "exit" ~> at = "after")

(* An aborted group ends even when what its children were waiting for      *)
(* never arrives.                                                          *)
AbortCompletes == aborting ~> at = "after"
=============================================================================
