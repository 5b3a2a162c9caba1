------------------------------- MODULE LoopApi -------------------------------
(***************************************************************************)
(* What a coroutine gets from python/ferro_io/__init__.py while run()      *)
(* drives it: sleep(), run_in_executor() and the functions that look for   *)
(* an event loop.                                                          *)
(*                                                                         *)
(* A sleep is a yield, a future of the loop whose Tokio timer runs from    *)
(* the call on, or a coroutine whose timer runs from the await on; a job   *)
(* of the executor is a coroutine, too.  Timers and jobs end in other      *)
(* threads, which post to the loop.  A timeout of asyncio may cancel an    *)
(* await at any moment, the one when the post is on its way included.      *)
(***************************************************************************)
EXTENDS Naturals, FiniteSets

CONSTANTS Tasks, Main,   \* the tasks of the loop; the coroutine given to run()
          MaxOps,        \* bound on the sleeps and jobs
          Pool,          \* threads of the loop's executor
          MaxTimeouts,   \* bound on the timeouts
          MaxLoops,      \* bound on the loops beside the one of the call
          AutoLoop,      \* TRUE where asyncio.get_event_loop() makes the first
                         \* loop of a thread (before Python 3.14)
          None

ASSUME ApiAssumption ==
  /\ Main \in Tasks
  /\ MaxOps \in Nat
  /\ Pool \in Nat \ {0}
  /\ MaxTimeouts \in Nat
  /\ MaxLoops \in Nat
  /\ AutoLoop \in BOOLEAN
  /\ None \notin Nat

Ops == 1..MaxOps
Values == {None, "value"}   \* what a sleep or a job answers
Call == 0                   \* the loop of the call
Loops == {Call} \cup (1..MaxLoops)

VARIABLES
  ops,      \* sleeps and jobs made so far
  kind,     \* kind[o]: what o is
  owner,    \* owner[o]: the task that made it
  value,    \* value[o]: what its await shall answer
  fut,      \* fut[o]: its future on the loop
  work,     \* work[o]: its Tokio timer or its job
  task,     \* task[t]: where a task is
  on,       \* on[t]: the sleep or job that it awaits or has awaited last
  got,      \* got[t]: what its last await has come to
  must,     \* must[t]: a cancellation strikes at its next step
  awaited,  \* the sleeps and jobs that have been awaited
  hit,      \* history: those whose await a timeout has struck
  timeouts,
  life,     \* the call of run_coroutine
  current,  \* the event loop set for the thread, or None
  open,     \* the loops that are open
  handed,   \* history: the last loop handed out before, in or after the call
  cut       \* SIGINT struck in the clean-up of run_coroutine

opVars == <<ops, kind, owner, value, fut, work>>
taskVars == <<task, on, got, must, awaited, hit, timeouts>>
loopVars == <<life, current, open, handed, cut>>
vars == <<opVars, taskVars, loopVars>>

\* What an await comes to: of which operation, how, and with which result.
Outcomes == [op: Ops \cup {None}, val: Values,
             how: {"none", "result", "cancelled", "error"}]
Nothing == [op |-> None, how |-> "none", val |-> None]

Init == /\ ops = 0
        /\ kind = [o \in Ops |-> "none"]
        /\ owner = [o \in Ops |-> Main]
        /\ value = [o \in Ops |-> None]
        /\ fut = [o \in Ops |-> "none"]
        /\ work = [o \in Ops |-> "none"]
        /\ task = [t \in Tasks |-> "none"]
        /\ on = [t \in Tasks |-> None]
        /\ got = [t \in Tasks |-> Nothing]
        /\ must = [t \in Tasks |-> FALSE]
        /\ awaited = {}
        /\ hit = {}
        /\ timeouts = 0
        /\ life = "before"
        /\ current = None
        /\ open = {}
        /\ handed = None
        /\ cut = FALSE

Become(t, s) == task' = [task EXCEPT ![t] = s]
Idle == life = "runs" /\ \A t \in Tasks : task[t] # "active"
Runs(t) == life = "runs" /\ task[t] = "active"
Gets(t, o, how, v) == got' = [got EXCEPT ![t] = [op |-> o, how |-> how, val |-> v]]

-----------------------------------------------------------------------------
(* sleep()                                                                 *)

\* (Mutant: the future is made and its timer never spawned.)
AsyncSleepUnpolled(o) == /\ fut' = [fut EXCEPT ![o] = "pending"]
                         /\ work' = [work EXCEPT ![o] = "stopped"]

\* async_sleep: a future of the running loop, and a timer of its own.
AsyncSleep(o) == /\ fut' = [fut EXCEPT ![o] = "pending"]
                 /\ work' = [work EXCEPT ![o] = "armed"]

\* What sleep(delay, v) returns: a delay may be zero or less, positive, or one
\* that async_sleep refuses (NaN, infinity, or too large for a Duration).
Dispatch(delay, v) ==
  CASE delay = "zero"                 -> "yield"
    [] delay # "zero" /\ v = None     -> "future"
    [] delay = "some" /\ v # None     -> "lazy"
    [] delay = "refused" /\ v # None  -> "bad"

Make(t, k, v) ==
  /\ Runs(t)
  /\ ops < MaxOps
  /\ ops' = ops + 1
  /\ kind' = [kind EXCEPT ![ops'] = k]
  /\ owner' = [owner EXCEPT ![ops'] = t]
  /\ value' = [value EXCEPT ![ops'] = v]

CallSleep(t, delay, v) ==
  /\ Make(t, Dispatch(delay, v), v)
  /\ delay = "refused" => v # None
  /\ IF Dispatch(delay, v) = "future" THEN AsyncSleep(ops')
                                      ELSE UNCHANGED <<fut, work>>
  /\ UNCHANGED <<taskVars, loopVars>>

\* Without a result, a bad delay raises in the call.
SleepRaises(t) ==
  /\ Runs(t)
  /\ Gets(t, None, "error", None)
  /\ UNCHANGED <<opVars, task, on, must, awaited, hit, timeouts, loopVars>>

\* `async def run_in_executor`: nothing is submitted before the await.
CallExecutor(t) ==
  /\ Make(t, "job", "value")
  /\ UNCHANGED <<fut, work, taskVars, loopVars>>

-----------------------------------------------------------------------------
(* await                                                                   *)

\* (Mutant: the result given to sleep() is forgotten.)
AnswerNothing(o) == None

\* What an await of o that is not cancelled answers.
Answer(o) == value[o]

\* Task t awaits what it has made.
Awaits(t, o) ==
  /\ Runs(t)
  /\ o \in 1..ops
  /\ owner[o] = t
  /\ o \notin awaited
  /\ awaited' = awaited \cup {o}
  /\ on' = [on EXCEPT ![t] = o]
  /\ UNCHANGED <<ops, kind, owner, value, must, hit, timeouts, loopVars>>

AwaitYield(t, o) ==
  /\ kind[o] = "yield"
  /\ Become(t, "ready")
  /\ Awaits(t, o)
  /\ UNCHANGED <<fut, work, got>>

\* The future of a sleep: its timer may have expired already.
AwaitFuture(t, o) ==
  /\ kind[o] = "future"
  /\ IF fut[o] = "pending"
     THEN Become(t, "waits") /\ UNCHANGED got
     ELSE Gets(t, o, "result", Answer(o)) /\ UNCHANGED task
  /\ Awaits(t, o)
  /\ UNCHANGED <<fut, work>>

\* _sleep_with_result(): the timer starts here.
AwaitLazy(t, o) ==
  /\ kind[o] = "lazy"
  /\ AsyncSleep(o)
  /\ Become(t, "waits")
  /\ Awaits(t, o)
  /\ UNCHANGED got

AwaitBad(t, o) ==
  /\ kind[o] = "bad"
  /\ Gets(t, o, "error", None)
  /\ Awaits(t, o)
  /\ UNCHANGED <<fut, work, task>>

\* (Mutant: the future is made, and the job never handed to the executor.)
AwaitJobUnqueued(t, o) ==
  /\ kind[o] = "job"
  /\ fut' = [fut EXCEPT ![o] = "pending"]
  /\ Become(t, "waits")
  /\ Awaits(t, o)
  /\ UNCHANGED <<work, got>>

AwaitJob(t, o) ==
  /\ kind[o] = "job"
  /\ fut' = [fut EXCEPT ![o] = "pending"]
  /\ work' = [work EXCEPT ![o] = "queued"]
  /\ Become(t, "waits")
  /\ Awaits(t, o)
  /\ UNCHANGED got

Await(t, o) == \/ AwaitYield(t, o) \/ AwaitFuture(t, o) \/ AwaitLazy(t, o)
               \/ AwaitBad(t, o) \/ AwaitJob(t, o)

\* The loop runs a task that is ready, up to its next await.
Resume(t) ==
  /\ Idle
  /\ task[t] = "ready"
  /\ Become(t, "active")
  /\ must' = [must EXCEPT ![t] = FALSE]
  /\ LET o == on[t]
     IN IF o = None THEN UNCHANGED got
        ELSE IF must[t] \/ fut[o] = "cancelled" THEN Gets(t, o, "cancelled", None)
        ELSE Gets(t, o, "result", Answer(o))
  /\ UNCHANGED <<opVars, on, awaited, hit, timeouts, loopVars>>

End(t) ==
  /\ Runs(t)
  /\ Become(t, "over")
  /\ on' = [on EXCEPT ![t] = None]
  /\ got' = [got EXCEPT ![t] = Nothing]
  /\ UNCHANGED <<opVars, must, awaited, hit, timeouts, loopVars>>

\* asyncio.timeout() or wait_for(): the task is cancelled, and with it the
\* future that it waits for; a task that is ready is struck at its next step.
Timeout(t) ==
  LET o == on[t]
  IN /\ Idle
     /\ o # None
     /\ task[t] \in {"waits", "ready"}
     /\ timeouts < MaxTimeouts
     /\ timeouts' = timeouts + 1
     /\ hit' = hit \cup {o}
     /\ IF task[t] = "waits"
        THEN /\ fut' = [fut EXCEPT ![o] = "cancelled"]
             /\ Become(t, "ready")
             /\ UNCHANGED must
        ELSE must' = [must EXCEPT ![t] = TRUE] /\ UNCHANGED <<fut, task>>
     /\ UNCHANGED <<ops, kind, owner, value, work, on, got, awaited, loopVars>>

-----------------------------------------------------------------------------
(* Tokio and the executor                                                  *)

\* The done-callback of a cancelled future: the timer is dropped, a job that
\* has not started is taken from the queue.  One that runs goes on.
StopWork(o) ==
  /\ Idle
  /\ fut[o] = "cancelled"
  /\ work[o] \in {"armed", "queued"}
  /\ work' = [work EXCEPT ![o] = "stopped"]
  /\ UNCHANGED <<ops, kind, owner, value, fut, taskVars, loopVars>>

\* A closed loop refuses the post.
Post(o) == work' = [work EXCEPT ![o] = IF Call \in open THEN "posted" ELSE "dropped"]

Expire(o) ==
  /\ work[o] = "armed"
  /\ Post(o)
  /\ UNCHANGED <<ops, kind, owner, value, fut, taskVars, loopVars>>

\* close() does not wait for the executor, which works its queue off.
StartJob(o) ==
  /\ work[o] = "queued"
  /\ Cardinality({p \in Ops : work[p] = "running"}) < Pool
  /\ work' = [work EXCEPT ![o] = "running"]
  /\ UNCHANGED <<ops, kind, owner, value, fut, taskVars, loopVars>>

EndJob(o) ==
  /\ work[o] = "running"
  /\ Post(o)
  /\ UNCHANGED <<ops, kind, owner, value, fut, taskVars, loopVars>>

\* The loop runs the post: a future that is cancelled meanwhile stays so.
Complete(o) ==
  /\ Idle
  /\ work[o] = "posted"
  /\ work' = [work EXCEPT ![o] = "taken"]
  /\ IF fut[o] = "pending"
     THEN /\ fut' = [fut EXCEPT ![o] = "done"]
          /\ task' = [t \in Tasks |-> IF task[t] = "waits" /\ on[t] = o
                                      THEN "ready" ELSE task[t]]
     ELSE UNCHANGED <<fut, task>>
  /\ UNCHANGED <<ops, kind, owner, value, on, got, must, awaited, hit, timeouts,
                 loopVars>>

-----------------------------------------------------------------------------
(* run_coroutine, and the loops around it                                  *)

\* Loops are numbered in the order in which they are made.
Makes(l) == /\ l = 1 + Cardinality(open \ {Call})
            /\ open' = open \cup {l}

\* The application sets a loop of its own.
AppSetsLoop ==
  /\ life = "before"
  /\ \E l \in Loops : Makes(l) /\ current' = l
  /\ UNCHANGED <<opVars, taskVars, life, handed, cut>>

Begin ==
  /\ life = "before"
  /\ life' = "runs"
  /\ open' = open \cup {Call}
  /\ current' = Call
  /\ task' = [t \in Tasks |-> "ready"]
  /\ handed' = None
  /\ UNCHANGED <<opVars, on, got, must, awaited, hit, timeouts, cut>>

\* The coroutine is over, and its outcome has come back through Tokio.  The
\* loop never runs the other tasks again.
Return ==
  /\ Idle
  /\ task[Main] = "over"
  /\ life' = "close"
  /\ task' = [t \in Tasks |-> "over"]
  /\ on' = [t \in Tasks |-> None]
  /\ got' = [t \in Tasks |-> Nothing]
  /\ handed' = None
  /\ UNCHANGED <<opVars, must, awaited, hit, timeouts, current, open, cut>>

\* Each call of the clean-up may be cut by SIGINT, whose exception is dropped.
Close ==
  /\ life = "close"
  /\ life' = "unset"
  /\ \/ open' = open \ {Call} /\ UNCHANGED cut
     \/ cut' = TRUE /\ UNCHANGED open
  /\ UNCHANGED <<opVars, taskVars, current, handed>>

\* (Mutant: the closed loop stays the current one.)
UnsetSkipped ==
  /\ life = "unset"
  /\ life' = "after"
  /\ UNCHANGED <<opVars, taskVars, current, open, handed, cut>>

Unset ==
  /\ life = "unset"
  /\ life' = "after"
  /\ \/ current' = None /\ UNCHANGED cut
     \/ cut' = TRUE /\ UNCHANGED current
  /\ UNCHANGED <<opVars, taskVars, open, handed>>

-----------------------------------------------------------------------------
(* Looking for a loop, in a coroutine or outside of every loop             *)

Asks == life \in {"before", "after"} \/ \E t \in Tasks : Runs(t)

Gives(l) == handed' = l

\* asyncio.new_event_loop(); nobody but its caller will ever close it.
GivesNew == /\ \E l \in Loops : Makes(l) /\ Gives(l)
            /\ UNCHANGED current

NewEventLoop ==
  /\ Asks
  /\ GivesNew
  /\ UNCHANGED <<opVars, taskVars, life, cut>>

\* The loop that runs, or a new one: never the current one.
GetEventLoop ==
  /\ Asks
  /\ IF life = "runs" THEN Gives(Call) /\ UNCHANGED <<current, open>>
                      ELSE GivesNew
  /\ UNCHANGED <<opVars, taskVars, life, cut>>

\* Runner.get_loop(): asyncio.get_event_loop() answers with the loop that runs
\* or is current, makes one if none was ever set, or raises; then a new loop
\* is made.
GetLoop ==
  /\ Asks
  /\ IF life = "runs"
     THEN Gives(Call) /\ UNCHANGED <<current, open>>
     ELSE IF current # None
     THEN Gives(current) /\ UNCHANGED <<current, open>>
     ELSE IF AutoLoop /\ life = "before"
     THEN \E l \in Loops : Makes(l) /\ Gives(l) /\ current' = l
     ELSE GivesNew
  /\ UNCHANGED <<opVars, taskVars, life, cut>>

-----------------------------------------------------------------------------
Next ==
  \/ AppSetsLoop \/ Begin \/ Return \/ Close \/ Unset
  \/ NewEventLoop \/ GetEventLoop \/ GetLoop
  \/ \E t \in Tasks :
       \/ \E delay \in {"zero", "some", "refused"}, v \in Values : CallSleep(t, delay, v)
       \/ SleepRaises(t) \/ CallExecutor(t) \/ Resume(t) \/ End(t) \/ Timeout(t)
       \/ \E o \in Ops : Await(t, o)
  \/ \E o \in Ops : StopWork(o) \/ Expire(o) \/ StartJob(o) \/ EndJob(o) \/ Complete(o)

(* Timers expire, jobs come to an end, the executor and the loop take what *)
(* waits in the order of its arrival (strong: a step of the loop waits for *)
(* the task that is active, a job for a free thread), and a coroutine      *)
(* comes to an await or an end.                                            *)
Spec == /\ Init /\ [][Next]_vars
        /\ WF_vars(\E o \in Ops : Expire(o) \/ EndJob(o))
        /\ WF_vars(\E t \in Tasks : End(t))
        /\ SF_vars(\E o \in Ops : StartJob(o))
        /\ SF_vars(\E o \in Ops : Complete(o))
-----------------------------------------------------------------------------
(* Properties                                                              *)

TypeOK ==
  /\ ops \in 0..MaxOps
  /\ kind \in [Ops -> {"none", "yield", "future", "lazy", "bad", "job"}]
  /\ owner \in [Ops -> Tasks]
  /\ value \in [Ops -> Values]
  /\ fut \in [Ops -> {"none", "pending", "done", "cancelled"}]
  /\ work \in [Ops -> {"none", "armed", "queued", "running", "posted", "taken",
                       "stopped", "dropped"}]
  /\ \A o \in Ops : work[o] = "none" <=> fut[o] = "none"
  /\ task \in [Tasks -> {"none", "ready", "active", "waits", "over"}]
  /\ on \in [Tasks -> Ops \cup {None}]
  /\ got \in [Tasks -> Outcomes]
  /\ must \in [Tasks -> BOOLEAN]
  /\ awaited \subseteq Ops
  /\ hit \subseteq awaited
  /\ timeouts \in 0..MaxTimeouts
  /\ life \in {"before", "runs", "close", "unset", "after"}
  /\ current \in Loops \cup {None}
  /\ open \subseteq Loops
  /\ handed \in Loops \cup {None}
  /\ cut \in BOOLEAN

(* An await ends by what it waits for, or by a timeout of its own: with    *)
(* the result that sleep() was given, or what the job returns, after its   *)
(* own timer or job has come to its end, or cancelled if the timeout was   *)
(* faster.  An expiry or a job that is late for its timeout wakes nobody,  *)
(* and ends no later await.                                                *)
OwnWake ==
  \A t \in Tasks :
    LET g == got[t]
    IN /\ g.how = "result" =>
            /\ g.val = value[g.op]
            /\ kind[g.op] # "yield" => work[g.op] = "taken" /\ fut[g.op] = "done"
       /\ g.how = "cancelled" => g.op \in hit
       /\ task[t] = "waits" => fut[on[t]] = "pending"

(* The functions that look for a loop hand out one that is open, and in a  *)
(* coroutine the loop that runs it or a new one: run_coroutine leaves no   *)
(* closed loop behind as the current one, unless SIGINT cuts its clean-up. *)
OpenLoopsHanded ==
  [][handed' \notin {handed, None} =>
       /\ (handed' \in open' \/ cut)
       /\ (life = "runs" => handed' = Call \/ handed' \notin open)]_vars

(* Every await of a coroutine that is still driven ends, whatever timeouts *)
(* strike and however few threads the executor has.                        *)
AwaitsEnd ==
  \A t \in Tasks : task[t] = "waits" ~> task[t] # "waits" \/ life # "runs"

(* The inductive invariant behind the ones above.                          *)

\* What has been awaited was made, and by the task that awaits it.
Made ==
  /\ awaited \subseteq 1..ops
  /\ \A o \in Ops : kind[o] = "future" => fut[o] # "none"
  /\ \A t \in Tasks : on[t] # None => on[t] \in awaited /\ owner[on[t]] = t

\* Before the call no task is anywhere.
Quiet == life = "before" => \A t \in Tasks : task[t] = "none" /\ on[t] = None /\ ~must[t]

\* An outcome is that of something awaited.
OutcomesMade ==
  \A t \in Tasks : /\ got[t].op \in awaited \cup {None}
                   /\ got[t].how \in {"result", "cancelled"} => got[t].op # None

\* What is behind a future that is over.
FuturesOver == \A o \in Ops : /\ fut[o] = "cancelled" => o \in hit
                              /\ fut[o] = "done" => work[o] = "taken"

\* A cancellation strikes a task that is ready, and a ready task starts, is
\* struck, or has what it waited for.
Woken ==
  \A t \in Tasks :
    /\ task[t] \in {"active", "waits"} => ~must[t]
    /\ task[t] = "waits" => on[t] # None
    /\ task[t] = "ready" =>
         /\ must[t] => on[t] \in hit
         /\ \/ on[t] = None \/ must[t]
            \/ fut[on[t]] = "cancelled"
            \/ kind[on[t]] = "yield"
            \/ work[on[t]] = "taken" /\ fut[on[t]] = "done"

\* The loops that were made are 1 to some n, and the current one is open.
LoopsInOrder ==
  /\ \E n \in 0..MaxLoops : open \ {Call} = 1..n
  /\ life \in {"runs", "close"} => Call \in open
  /\ life = "before" => Call \notin open /\ (current # None => current \in open)
  /\ life = "after" => current = None \/ cut

IInv == /\ TypeOK /\ Made /\ Quiet /\ OutcomesMade /\ FuturesOver /\ Woken /\ OwnWake
        /\ LoopsInOrder
=============================================================================
