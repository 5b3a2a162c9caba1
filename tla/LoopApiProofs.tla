---------------------------- MODULE LoopApiProofs ----------------------------
(***************************************************************************)
(* Proofs about LoopApi for any tasks, any number of sleeps, jobs,         *)
(* timeouts and loops, and any size of the executor.                       *)
(*                                                                         *)
(* The inductive invariant IInv falls into three parts that hardly meet:   *)
(* what awaits have come to (GotInv), where tasks, futures and timers are  *)
(* (TaskInv), and the loops (LoopInv).                                     *)
(***************************************************************************)
EXTENDS LoopApi, FiniteSetTheorems, TLAPS

USE ApiAssumption DEF Ops, Values, Loops, Call

-----------------------------------------------------------------------------
(* The parts of the invariant.                                             *)

\* g is an outcome that its operation has come to.
Right(g) ==
  /\ g.op \in awaited \cup {None}
  /\ g.how \in {"result", "cancelled"} => g.op # None
  /\ g.how = "result" =>
       /\ g.val = value[g.op]
       /\ kind[g.op] # "yield" => work[g.op] = "taken" /\ fut[g.op] = "done"
  /\ g.how = "cancelled" => g.op \in hit

GotInv == got \in [Tasks -> Outcomes] /\ \A t \in Tasks : Right(got[t])

OpsOK ==
  /\ ops \in 0..MaxOps
  /\ kind \in [Ops -> {"none", "yield", "future", "lazy", "bad", "job"}]
  /\ owner \in [Ops -> Tasks]
  /\ value \in [Ops -> Values]
  /\ fut \in [Ops -> {"none", "pending", "done", "cancelled"}]
  /\ work \in [Ops -> {"none", "armed", "queued", "running", "posted", "taken",
                       "stopped", "dropped"}]
  /\ \A o \in Ops : work[o] = "none" <=> fut[o] = "none"

TasksOK ==
  /\ task \in [Tasks -> {"none", "ready", "active", "waits", "over"}]
  /\ on \in [Tasks -> Ops \cup {None}]
  /\ must \in [Tasks -> BOOLEAN]
  /\ awaited \subseteq Ops
  /\ hit \subseteq awaited
  /\ timeouts \in 0..MaxTimeouts

Waiting == \A t \in Tasks : task[t] = "waits" => fut[on[t]] = "pending"

TaskInv == OpsOK /\ TasksOK /\ Made /\ Quiet /\ FuturesOver /\ Woken /\ Waiting

LoopsOK ==
  /\ life \in {"before", "runs", "close", "unset", "after"}
  /\ current \in Loops \cup {None}
  /\ open \subseteq Loops
  /\ handed \in Loops \cup {None}
  /\ cut \in BOOLEAN

LoopInv == LoopsOK /\ LoopsInOrder

LEMMA Parts == IInv <=> GotInv /\ TaskInv /\ LoopInv
<1>1. TypeOK <=> OpsOK /\ TasksOK /\ LoopsOK /\ got \in [Tasks -> Outcomes]
  BY DEF TypeOK, OpsOK, TasksOK, LoopsOK
<1>2. OutcomesMade /\ OwnWake <=> Waiting /\ \A t \in Tasks : Right(got[t])
  BY DEF OutcomesMade, OwnWake, Waiting, Right
<1> QED
  BY <1>1, <1>2 DEF IInv, GotInv, TaskInv, LoopInv

-----------------------------------------------------------------------------
(* What awaits have come to.                                               *)

\* What a step leaves alone that an outcome relies on.
Keeps ==
  /\ awaited \subseteq awaited' /\ hit \subseteq hit'
  /\ \A o \in awaited : /\ value'[o] = value[o] /\ kind'[o] = kind[o]
                        /\ work[o] = "taken" => work'[o] = "taken"
                        /\ fut[o] = "done" => fut'[o] = "done"

(* A step that gives nobody an outcome.                                    *)
LEMMA NothingGot ==
  ASSUME GotInv, Keeps, UNCHANGED got PROVE GotInv'
<1>1. ASSUME NEW t \in Tasks PROVE Right(got[t])'
  <2>1. Right(got[t])
    BY DEF GotInv
  <2> QED
    BY <2>1 DEF Keeps, Right
<1> QED
  BY <1>1 DEF GotInv

(* A step that gives task t the outcome g.                                 *)
LEMMA OneGot ==
  ASSUME GotInv, Keeps, NEW t \in Tasks, NEW g \in Outcomes,
         got' = [got EXCEPT ![t] = g], Right(g)'
  PROVE  GotInv'
<1>1. ASSUME NEW s \in Tasks, s # t PROVE Right(got[s])'
  <2>1. Right(got[s]) /\ got'[s] = got[s]
    BY <1>1 DEF GotInv
  <2> QED
    BY <2>1 DEF Keeps, Right
<1>2. got'[t] = g
  BY DEF GotInv
<1>3. \A s \in Tasks : Right(got[s])'
  BY <1>1, <1>2 DEF Right
<1>4. got' \in [Tasks -> Outcomes]
  BY DEF GotInv
<1> QED
  BY <1>3, <1>4 DEF GotInv

\* The outcomes there are, by how they have come about.
LEMMA OutcomeOK ==
  ASSUME NEW o \in Ops \cup {None}, NEW v \in Values,
         NEW how \in {"none", "result", "cancelled", "error"}
  PROVE  [op |-> o, how |-> how, val |-> v] \in Outcomes
  BY DEF Outcomes

(* Nothing has come to anything.                                           *)
LEMMA NothingRight == Nothing \in Outcomes /\ Right(Nothing) /\ Right(Nothing)'
  BY OutcomeOK DEF Nothing, Right

(* An error is an outcome of what raised it, of no operation if a call did.*)
LEMMA ErrorGot ==
  ASSUME GotInv, Keeps, NEW t \in Tasks, NEW o \in Ops \cup {None},
         o \in awaited' \cup {None}, Gets(t, o, "error", None)
  PROVE  GotInv'
<1> DEFINE g == [op |-> o, how |-> "error", val |-> None]
<1>1. g \in Outcomes
  BY OutcomeOK
<1>2. Right(g)'
  BY DEF Right
<1>3. got' = [got EXCEPT ![t] = g]
  BY DEF Gets
<1> QED
  BY <1>1, <1>2, <1>3, OneGot

(* An await is cancelled if a timeout has struck it.                       *)
LEMMA CancelledGot ==
  ASSUME GotInv, Keeps, NEW t \in Tasks, NEW o \in Ops, o \in awaited', o \in hit',
         Gets(t, o, "cancelled", None)
  PROVE  GotInv'
<1> DEFINE g == [op |-> o, how |-> "cancelled", val |-> None]
<1>1. g \in Outcomes
  BY OutcomeOK
<1>2. Right(g)'
  BY DEF Right
<1>3. got' = [got EXCEPT ![t] = g]
  BY DEF Gets
<1> QED
  BY <1>1, <1>2, <1>3, OneGot

(* An await has a result if its timer or its job has come to the end.      *)
LEMMA ResultGot ==
  ASSUME GotInv, Keeps, NEW t \in Tasks, NEW o \in Ops, o \in awaited',
         value[o] \in Values, value'[o] = value[o],
         kind'[o] # "yield" => work'[o] = "taken" /\ fut'[o] = "done",
         Gets(t, o, "result", Answer(o))
  PROVE  GotInv'
<1> DEFINE g == [op |-> o, how |-> "result", val |-> value[o]]
<1>1. g \in Outcomes
  BY OutcomeOK
<1>2. Right(g)'
  BY DEF Right
<1>3. got' = [got EXCEPT ![t] = g]
  BY DEF Gets, Answer
<1> QED
  BY <1>1, <1>2, <1>3, OneGot

-----------------------------------------------------------------------------
(* The initial states.                                                     *)

LEMMA InitEstablishes == Init => IInv
<1> SUFFICES ASSUME Init PROVE GotInv /\ TaskInv /\ LoopInv
  BY Parts
<1>1. GotInv
  BY NothingRight DEF Init, GotInv
<1>2. OpsOK /\ TasksOK
  BY DEF Init, OpsOK, TasksOK
<1>3. Made /\ Quiet /\ FuturesOver /\ Woken /\ Waiting
  BY DEF Init, Made, Quiet, FuturesOver, Woken, Waiting
<1>4. open \ {Call} = 1..0 /\ 0 \in 0..MaxLoops
  BY DEF Init
<1>5. LoopInv
  BY <1>4 DEF Init, LoopInv, LoopsOK, LoopsInOrder
<1> QED
  BY <1>1, <1>2, <1>3, <1>5 DEF TaskInv

-----------------------------------------------------------------------------
(* Steps of tasks.                                                         *)

(* Of two tasks only one awaits an operation, the one that made it.        *)
LEMMA OneAwaits ==
  ASSUME Made, NEW s \in Tasks, NEW t \in Tasks, on[s] = on[t], on[t] # None
  PROVE  s = t
  BY DEF Made

(* A sleep or a job that has just been made is nobody's yet.               *)
LEMMA MakePreserves ==
  ASSUME GotInv, TaskInv, NEW t \in Tasks, NEW v \in Values,
         NEW k \in {"yield", "future", "lazy", "bad", "job"}, Make(t, k, v),
         IF k = "future" THEN AsyncSleep(ops') ELSE UNCHANGED <<fut, work>>,
         UNCHANGED <<taskVars, life>>
  PROVE  GotInv' /\ TaskInv'
<1> USE DEF TaskInv, Make, taskVars
<1>1. ops' \in Ops /\ ops' \notin awaited
  BY DEF OpsOK, Made
<1>2. \A o \in Ops \ {ops'} : /\ fut'[o] = fut[o] /\ work'[o] = work[o]
                             /\ kind'[o] = kind[o] /\ owner'[o] = owner[o]
                             /\ value'[o] = value[o]
  BY DEF OpsOK, AsyncSleep
<1>3. k = "future" => fut'[ops'] = "pending" /\ work'[ops'] = "armed"
  BY <1>1 DEF OpsOK, AsyncSleep
<1>4. k # "future" => fut' = fut /\ work' = work
  OBVIOUS
<1>5. GotInv'
  <2>1. Keeps
    BY <1>1, <1>2 DEF Keeps, TasksOK
  <2> QED
    BY <2>1, NothingGot
<1>6. OpsOK'
  <2>1. /\ (fut \in [Ops -> {"none", "pending", "done", "cancelled"}])'
        /\ (work \in [Ops -> {"none", "armed", "queued", "running", "posted",
                              "taken", "stopped", "dropped"}])'
    BY <1>1 DEF OpsOK, AsyncSleep
  <2>2. (\A o \in Ops : work[o] = "none" <=> fut[o] = "none")'
    BY <1>2, <1>3, <1>4 DEF OpsOK
  <2> QED
    BY <1>1, <2>1, <2>2 DEF OpsOK
<1>7. Made'
  BY <1>1, <1>2, <1>3 DEF OpsOK, TasksOK, Made
<1>8. FuturesOver'
  BY <1>2, <1>3, <1>4 DEF FuturesOver
<1>9. Woken' /\ Waiting'
  BY <1>1, <1>2 DEF TasksOK, Made, Woken, Waiting
<1> QED
  BY <1>5, <1>6, <1>7, <1>8, <1>9 DEF TasksOK, Quiet

(* What sleep() returns is one of four kinds.                              *)
LEMMA Dispatched ==
  ASSUME NEW delay \in {"zero", "some", "refused"}, NEW v \in Values,
         delay = "refused" => v # None
  PROVE  Dispatch(delay, v) \in {"yield", "future", "lazy", "bad"}
  BY DEF Dispatch

LEMMA CallsPreserve ==
  ASSUME GotInv, TaskInv, NEW t \in Tasks, NEW v \in Values,
         NEW delay \in {"zero", "some", "refused"},
         CallSleep(t, delay, v) \/ CallExecutor(t)
  PROVE  GotInv' /\ TaskInv'
<1>1. CASE CallSleep(t, delay, v)
  <2>1. Dispatch(delay, v) \in {"yield", "future", "lazy", "bad"}
    BY <1>1, Dispatched DEF CallSleep
  <2> QED
    BY <1>1, <2>1, MakePreserves DEF CallSleep, loopVars
<1>2. CASE CallExecutor(t)
  <2>1. Make(t, "job", "value") /\ UNCHANGED <<fut, work, taskVars, life>>
    BY <1>2 DEF CallExecutor, loopVars
  <2> QED
    BY <2>1, MakePreserves
<1> QED
  BY <1>1, <1>2

(* An await: what is awaited is awaited for the first time, so that it may *)
(* change as it likes without touching what others have come to.           *)
LEMMA AwaitPreserves ==
  ASSUME GotInv, TaskInv, NEW t \in Tasks, NEW o \in Ops, Await(t, o)
  PROVE  GotInv' /\ TaskInv'
<1> USE DEF TaskInv
<1>1. /\ Runs(t) /\ o \in 1..ops /\ owner[o] = t /\ o \notin awaited
      /\ awaited' = awaited \cup {o}
      /\ on' = [on EXCEPT ![t] = o]
      /\ UNCHANGED <<ops, kind, owner, value, must, hit, timeouts, life>>
  BY DEF Await, AwaitYield, AwaitFuture, AwaitLazy, AwaitBad, AwaitJob, Awaits,
         loopVars
<1>2. /\ \A p \in Ops \ {o} : fut'[p] = fut[p] /\ work'[p] = work[p]
      /\ \/ UNCHANGED <<fut, work>> /\ kind[o] \notin {"lazy", "job"}
         \/ fut'[o] = "pending" /\ work'[o] \in {"armed", "queued"}
      /\ (fut \in [Ops -> {"none", "pending", "done", "cancelled"}])'
      /\ (work \in [Ops -> {"none", "armed", "queued", "running", "posted",
                            "taken", "stopped", "dropped"}])'
  BY DEF Await, AwaitYield, AwaitFuture, AwaitLazy, AwaitBad, AwaitJob, AsyncSleep,
         OpsOK
<1>3. \/ task' = [task EXCEPT ![t] = "ready"] /\ kind[o] = "yield"
      \/ task' = [task EXCEPT ![t] = "waits"] /\ fut'[o] = "pending"
      \/ UNCHANGED task
  BY DEF Await, AwaitYield, AwaitFuture, AwaitLazy, AwaitBad, AwaitJob, AsyncSleep,
         Become, OpsOK
<1>4. Keeps
  BY <1>1, <1>2 DEF Keeps, TasksOK
<1>5. GotInv'
  <2>1. CASE UNCHANGED got
    BY <1>4, <2>1, NothingGot
  <2>2. CASE AwaitFuture(t, o) /\ Gets(t, o, "result", Answer(o)) /\ fut[o] # "pending"
    <3>1. work[o] = "taken" /\ fut[o] = "done"
      BY <1>1, <2>2 DEF AwaitFuture, OpsOK, Made, FuturesOver, TasksOK
    <3>2. UNCHANGED <<fut, work>>
      BY <2>2 DEF AwaitFuture
    <3> QED
      BY <1>1, <1>4, <2>2, <3>1, <3>2, ResultGot DEF OpsOK
  <2>3. CASE Gets(t, o, "error", None)
    BY <1>1, <1>4, <2>3, ErrorGot
  <2> QED
    BY <2>1, <2>2, <2>3 DEF Await, AwaitYield, AwaitFuture, AwaitLazy, AwaitBad, AwaitJob
<1>6. OpsOK'
  BY <1>1, <1>2 DEF OpsOK
<1>7. TasksOK'
  BY <1>1, <1>3 DEF TasksOK, OpsOK
<1>8. Made'
  BY <1>1, <1>2 DEF Made, TasksOK, OpsOK
<1>9. Quiet' /\ FuturesOver'
  BY <1>1, <1>2 DEF Quiet, FuturesOver, Runs
<1>10. \A s \in Tasks \ {t} : /\ task'[s] = task[s] /\ on'[s] = on[s]
                             /\ on[s] # o
  BY <1>1, <1>3 DEF TasksOK, Made
<1>11. ASSUME NEW s \in Tasks, s # t
       PROVE  /\ task'[s] = "waits" => on'[s] # None /\ fut'[on'[s]] = "pending"
              /\ task'[s] = "ready" =>
                   \/ on'[s] = None \/ must'[s]
                   \/ fut'[on'[s]] = "cancelled"
                   \/ kind'[on'[s]] = "yield"
                   \/ work'[on'[s]] = "taken" /\ fut'[on'[s]] = "done"
  BY <1>1, <1>2, <1>10, <1>11 DEF Woken, Waiting, TasksOK
<1>12. /\ task[t] = "active" /\ ~must[t] /\ on'[t] = o /\ on'[t] # None
       /\ \/ task'[t] = "ready" /\ kind'[on'[t]] = "yield"
          \/ task'[t] = "waits" /\ fut'[on'[t]] = "pending"
          \/ task'[t] = "active"
  BY <1>1, <1>3 DEF Runs, Woken, TasksOK
<1>13. Woken' /\ Waiting'
  BY <1>1, <1>10, <1>11, <1>12 DEF Woken, Waiting
<1> QED
  BY <1>5, <1>6, <1>7, <1>8, <1>9, <1>13

(* A ready task is run.                                                    *)
LEMMA ResumePreserves ==
  ASSUME GotInv, TaskInv, NEW t \in Tasks, Resume(t) PROVE GotInv' /\ TaskInv'
<1> USE DEF TaskInv, Resume, opVars, loopVars
<1>1. Keeps
  BY DEF Keeps
<1>2. GotInv'
  <2>1. on[t] # None => on[t] \in Ops /\ on[t] \in awaited
    BY DEF TasksOK, Made
  <2>2. CASE UNCHANGED got
    BY <1>1, <2>2, NothingGot
  <2>3. CASE on[t] # None /\ (must[t] \/ fut[on[t]] = "cancelled")
             /\ Gets(t, on[t], "cancelled", None)
    <3>1. on[t] \in hit
      BY <2>1, <2>3 DEF Woken, FuturesOver
    <3> QED
      BY <1>1, <2>1, <2>3, <3>1, CancelledGot
  <2>4. CASE on[t] # None /\ ~(must[t] \/ fut[on[t]] = "cancelled")
             /\ Gets(t, on[t], "result", Answer(on[t]))
    <3>1. kind[on[t]] # "yield" => work[on[t]] = "taken" /\ fut[on[t]] = "done"
      BY <2>4 DEF Woken
    <3> QED
      BY <1>1, <2>1, <2>4, <3>1, ResultGot DEF OpsOK
  <2> QED
    BY <2>2, <2>3, <2>4
<1>3. OpsOK' /\ TasksOK' /\ Made'
  BY DEF OpsOK, TasksOK, Made, Become
<1>4. Quiet' /\ FuturesOver'
  BY DEF Quiet, FuturesOver, Idle
<1>5. Woken' /\ Waiting'
  BY DEF Woken, Waiting, TasksOK, Become
<1> QED
  BY <1>2, <1>3, <1>4, <1>5

(* A call of sleep() raises; a task ends.                                  *)
LEMMA RaisesPreserves ==
  ASSUME GotInv, TaskInv, NEW t \in Tasks, SleepRaises(t)
  PROVE  GotInv' /\ TaskInv'
<1> USE DEF TaskInv, SleepRaises, opVars, loopVars
<1>1. Keeps
  BY DEF Keeps
<1>2. GotInv'
  BY <1>1, ErrorGot
<1>3. OpsOK' /\ TasksOK' /\ Made' /\ Quiet' /\ FuturesOver'
  BY DEF OpsOK, TasksOK, Made, Quiet, FuturesOver
<1>4. Woken' /\ Waiting'
  BY DEF Woken, Waiting
<1> QED
  BY <1>2, <1>3, <1>4

LEMMA EndPreserves ==
  ASSUME GotInv, TaskInv, NEW t \in Tasks, End(t) PROVE GotInv' /\ TaskInv'
<1> USE DEF TaskInv, End, opVars, loopVars
<1>1. Keeps
  BY DEF Keeps
<1>2. GotInv'
  BY <1>1, NothingRight, OneGot
<1>3. OpsOK' /\ TasksOK' /\ Made'
  BY DEF OpsOK, TasksOK, Made, Become
<1>4. Quiet' /\ FuturesOver'
  BY DEF Quiet, FuturesOver, Runs
<1>5. Woken' /\ Waiting'
  BY DEF Woken, Waiting, TasksOK, Become
<1> QED
  BY <1>2, <1>3, <1>4, <1>5

(* A timeout cancels what only its own task waits for.                     *)
LEMMA TimeoutPreserves ==
  ASSUME GotInv, TaskInv, NEW t \in Tasks, Timeout(t) PROVE GotInv' /\ TaskInv'
<1> DEFINE o == on[t]
<1> USE DEF TaskInv, loopVars
<1>1. /\ o \in Ops /\ o \in awaited /\ owner[o] = t
      /\ hit' = hit \cup {o} /\ timeouts' = timeouts + 1 /\ timeouts < MaxTimeouts
      /\ UNCHANGED <<ops, kind, owner, value, work, on, got, awaited, life>>
      /\ life = "runs"
  BY DEF Timeout, TasksOK, Made, Idle
<1>2. \/ /\ task[t] = "waits" /\ fut[o] = "pending"
         /\ fut' = [fut EXCEPT ![o] = "cancelled"]
         /\ task' = [task EXCEPT ![t] = "ready"]
         /\ UNCHANGED must
      \/ /\ task[t] = "ready" /\ must' = [must EXCEPT ![t] = TRUE]
         /\ UNCHANGED <<fut, task>>
  BY DEF Timeout, Become, Waiting
<1>3. \A p \in Ops \ {o} : fut'[p] = fut[p]
  BY <1>1, <1>2 DEF OpsOK
<1>4. fut[o] \in {"pending", fut'[o]}
  BY <1>2
<1>5. GotInv'
  <2>1. Keeps
    BY <1>1, <1>3, <1>4 DEF Keeps, TasksOK
  <2> QED
    BY <1>1, <2>1, NothingGot
<1>6. OpsOK'
  <2>1. (fut \in [Ops -> {"none", "pending", "done", "cancelled"}])'
    <3>1. \/ fut' = [fut EXCEPT ![o] = "cancelled"]
          \/ UNCHANGED fut
      BY <1>2
    <3> QED
      BY <3>1 DEF OpsOK
  <2>2. fut[o] = "none" <=> fut'[o] = "none"
    BY <1>1, <1>2 DEF OpsOK
  <2>3. (\A p \in Ops : work[p] = "none" <=> fut[p] = "none")'
    BY <1>1, <1>3, <2>2 DEF OpsOK
  <2> QED
    BY <1>1, <2>1, <2>3 DEF OpsOK
<1>7. TasksOK'
  <2>1. (task \in [Tasks -> {"none", "ready", "active", "waits", "over"}])'
    BY <1>2 DEF TasksOK
  <2>2. (must \in [Tasks -> BOOLEAN])'
    BY <1>2 DEF TasksOK
  <2>3. (hit \subseteq awaited)'
    <3> HIDE DEF o
    <3> QED
      BY <1>1 DEF TasksOK
  <2>4. (timeouts \in 0..MaxTimeouts)'
    <3>1. timeouts \in 0..MaxTimeouts
      BY DEF TasksOK
    <3> QED
      BY <1>1, <3>1
  <2> QED
    BY <1>1, <2>1, <2>2, <2>3, <2>4 DEF TasksOK
<1>8. Made'
  BY <1>1, <1>2, <1>3 DEF Made, OpsOK
<1>9. Quiet' /\ FuturesOver'
  BY <1>1, <1>2, <1>3 DEF Quiet, FuturesOver, OpsOK
<1>10. ASSUME NEW s \in Tasks, s # t
       PROVE  /\ task'[s] = task[s] /\ must'[s] = must[s]
              /\ on[s] # None => on[s] \in Ops \ {o}
  BY <1>1, <1>2, <1>10 DEF TasksOK, Made
<1>11. Woken'
  BY <1>1, <1>2, <1>3, <1>10 DEF Woken, TasksOK, OpsOK
<1>12. Waiting'
  BY <1>1, <1>2, <1>3, <1>10 DEF Waiting, Woken, TasksOK
<1> QED
  BY <1>5, <1>6, <1>7, <1>8, <1>9, <1>11, <1>12

-----------------------------------------------------------------------------
(* Steps of timers, jobs and what they post.                               *)

(* A timer or a job goes on, up to its post.                               *)
LEMMA WorkPreserves ==
  ASSUME GotInv, TaskInv, NEW o \in Ops,
         StopWork(o) \/ Expire(o) \/ StartJob(o) \/ EndJob(o)
  PROVE  GotInv' /\ TaskInv'
<1> USE DEF TaskInv, taskVars, loopVars
<1>1. /\ work[o] \in {"armed", "queued", "running"}
      /\ \E w \in {"posted", "dropped", "running", "stopped"} :
           work' = [work EXCEPT ![o] = w]
      /\ UNCHANGED <<ops, kind, owner, value, fut, taskVars, life>>
  BY DEF StopWork, Expire, StartJob, EndJob, Post
<1>2. PICK w \in {"posted", "dropped", "running", "stopped"} :
             work' = [work EXCEPT ![o] = w]
  BY <1>1
<1>3. /\ \A p \in Ops \ {o} : work'[p] = work[p]
      /\ fut[o] # "done" /\ fut[o] # "none"
  BY <1>1, <1>2 DEF OpsOK, FuturesOver
<1>4. GotInv'
  <2>1. Keeps
    BY <1>1, <1>3 DEF Keeps, TasksOK
  <2> QED
    BY <1>1, <2>1, NothingGot
<1>5. OpsOK'
  BY <1>1, <1>2, <1>3 DEF OpsOK
<1>6. TasksOK' /\ Made' /\ Quiet' /\ Waiting'
  BY <1>1 DEF TasksOK, Made, Quiet, Waiting
<1>7. FuturesOver'
  BY <1>1, <1>3 DEF FuturesOver
<1>8. Woken'
  BY <1>1, <1>3 DEF Woken, TasksOK
<1> QED
  BY <1>4, <1>5, <1>6, <1>7, <1>8

(* The loop takes a post.                                                  *)
LEMMA CompletePreserves ==
  ASSUME GotInv, TaskInv, NEW o \in Ops, Complete(o) PROVE GotInv' /\ TaskInv'
<1> USE DEF TaskInv, loopVars
<1>1. /\ work[o] = "posted" /\ work' = [work EXCEPT ![o] = "taken"]
      /\ UNCHANGED <<ops, kind, owner, value, on, got, must, awaited, hit, timeouts,
                     life>>
      /\ life = "runs" /\ \A t \in Tasks : task[t] # "active"
  BY DEF Complete, Idle
<1>2. \/ /\ fut[o] = "pending" /\ fut' = [fut EXCEPT ![o] = "done"]
         /\ task' = [t \in Tasks |-> IF task[t] = "waits" /\ on[t] = o
                                     THEN "ready" ELSE task[t]]
      \/ fut[o] # "pending" /\ UNCHANGED <<fut, task>>
  BY DEF Complete
<1>3. /\ \A p \in Ops \ {o} : work'[p] = work[p] /\ fut'[p] = fut[p]
      /\ work'[o] = "taken"
      /\ fut[o] = "cancelled" => fut'[o] = "cancelled"
      /\ fut[o] = "pending" => fut'[o] = "done"
      /\ fut[o] # "pending" => fut'[o] = fut[o]
      /\ fut[o] \notin {"none", "done"}
  BY <1>1, <1>2 DEF OpsOK, FuturesOver
<1>4. GotInv'
  <2>1. Keeps
    BY <1>1, <1>3 DEF Keeps, TasksOK
  <2> QED
    BY <1>1, <2>1, NothingGot
<1>5. OpsOK'
  BY <1>1, <1>2, <1>3 DEF OpsOK
<1>6. TasksOK'
  BY <1>1, <1>2 DEF TasksOK
<1>7. Made' /\ Quiet' /\ FuturesOver'
  BY <1>1, <1>2, <1>3 DEF Made, Quiet, FuturesOver
<1>8. ASSUME NEW t \in Tasks
      PROVE  \/ /\ task[t] = "waits" /\ on[t] = o
                /\ fut[o] = "pending" => task'[t] = "ready"
                /\ fut[o] # "pending" => FALSE
             \/ /\ task'[t] = task[t]
                /\ task[t] = "waits" => on[t] \in Ops \ {o}
  BY <1>2 DEF Waiting, TasksOK, Woken
<1>9. Woken'
  <2> SUFFICES ASSUME NEW t \in Tasks
      PROVE  /\ task'[t] \in {"active", "waits"} => ~must'[t]
             /\ task'[t] = "waits" => on'[t] # None
             /\ task'[t] = "ready" => (must'[t] => on'[t] \in hit')
             /\ task'[t] = "ready" =>
                  \/ on'[t] = None \/ must'[t]
                  \/ fut'[on'[t]] = "cancelled"
                  \/ kind'[on'[t]] = "yield"
                  \/ work'[on'[t]] = "taken" /\ fut'[on'[t]] = "done"
    BY DEF Woken
  <2>1. CASE task[t] = "waits" /\ on[t] = o
    BY <1>1, <1>3, <1>8, <2>1 DEF Woken
  <2>2. CASE task'[t] = task[t]
    BY <1>1, <1>3, <2>2 DEF Woken, TasksOK
  <2> QED
    BY <1>8, <2>1, <2>2
<1>10. Waiting'
  BY <1>1, <1>3, <1>8 DEF Waiting
<1> QED
  BY <1>4, <1>5, <1>6, <1>7, <1>9, <1>10

(* A step that leaves every task, future and timer alone.                  *)
LEMMA TasksUntouched ==
  ASSUME GotInv, TaskInv, UNCHANGED <<opVars, taskVars>>,
         life' = "before" => life = "before"
  PROVE  GotInv' /\ TaskInv'
<1> USE DEF opVars, taskVars
<1>1. Keeps
  BY DEF Keeps
<1>2. GotInv'
  BY <1>1, NothingGot
<1>3. OpsOK' /\ TasksOK' /\ Made' /\ Quiet'
  BY DEF TaskInv, OpsOK, TasksOK, Made, Quiet
<1>4. FuturesOver' /\ Woken' /\ Waiting'
  BY DEF TaskInv, FuturesOver, Woken, Waiting
<1> QED
  BY <1>2, <1>3, <1>4 DEF TaskInv

-----------------------------------------------------------------------------
(* Steps of run_coroutine and of those who look for a loop.                *)

(* A loop that is made is a new one, the next in order.                    *)
LEMMA MadeInOrder ==
  ASSUME LoopInv, NEW l \in Loops, Makes(l)
  PROVE  /\ l \notin open /\ l # Call
         /\ \E n \in 0..MaxLoops : open' \ {Call} = 1..n
<1>1. PICK n \in 0..MaxLoops : open \ {Call} = 1..n
  BY DEF LoopInv, LoopsInOrder
<1>2. Cardinality(1..n) = n
  BY FS_Interval
<1>7. Cardinality(open \ {Call}) = n
  BY <1>1, <1>2, Zenon
<1>3. l = n + 1
  BY <1>7 DEF Makes
<1>4. l \notin open /\ l # Call
  BY <1>1, <1>3
<1>5. open' \ {Call} = 1..(n + 1)
  BY <1>1, <1>3 DEF Makes
<1>6. n + 1 \in 0..MaxLoops
  BY <1>3
<1> QED
  BY <1>4, <1>5, <1>6

(* A search for a loop, and the statements of run_coroutine.               *)
LEMMA SearchPreserves ==
  ASSUME LoopInv, NewEventLoop \/ GetEventLoop \/ GetLoop PROVE LoopInv'
<1> USE DEF LoopInv
<1>1. UNCHANGED <<life, cut>>
  BY DEF NewEventLoop, GetEventLoop, GetLoop
<1>2. life \in {"before", "after", "runs"}
  BY DEF NewEventLoop, GetEventLoop, GetLoop, Asks, Runs
<1>3. ASSUME NEW l \in Loops, Makes(l), Gives(l),
             current' \in {current, l}, current' # current => life = "before"
      PROVE  LoopInv'
  <2>1. l # Call /\ \E n \in 0..MaxLoops : open' \ {Call} = 1..n
    BY <1>3, MadeInOrder
  <2> QED
    BY <1>1, <1>2, <1>3, <2>1 DEF Makes, Gives, LoopsOK, LoopsInOrder
<1>4. ASSUME UNCHANGED <<current, open>>, NEW l \in Loops, Gives(l)
      PROVE  LoopInv'
  BY <1>1, <1>4 DEF Gives, LoopsOK, LoopsInOrder
<1>5. ASSUME GivesNew PROVE LoopInv'
  <2>1. PICK l \in Loops : Makes(l) /\ Gives(l)
    BY <1>5 DEF GivesNew
  <2>2. current' = current
    BY <1>5 DEF GivesNew
  <2> QED
    BY <1>3, <2>1, <2>2
<1>6. CASE NewEventLoop
  BY <1>5, <1>6 DEF NewEventLoop
<1>7. CASE GetEventLoop
  BY <1>4, <1>5, <1>7 DEF GetEventLoop
<1>8. CASE GetLoop
  <2>1. CASE life = "runs"
    BY <1>4, <1>8, <2>1 DEF GetLoop
  <2>2. CASE life # "runs" /\ current # None
    BY <1>4, <1>8, <2>2 DEF GetLoop, LoopsOK
  <2>3. CASE life # "runs" /\ current = None
    BY <1>3, <1>5, <1>8, <2>3 DEF GetLoop
  <2> QED
    BY <2>1, <2>2, <2>3
<1> QED
  BY <1>6, <1>7, <1>8

LEMMA CallPreserves ==
  ASSUME GotInv, TaskInv, LoopInv,
         AppSetsLoop \/ Begin \/ Return \/ Close \/ Unset
  PROVE  GotInv' /\ TaskInv' /\ LoopInv'
<1> USE DEF LoopInv
<1>1. CASE AppSetsLoop
  <2>1. PICK l \in Loops : Makes(l) /\ current' = l
    BY <1>1 DEF AppSetsLoop
  <2>2. l # Call /\ \E n \in 0..MaxLoops : open' \ {Call} = 1..n
    BY <2>1, MadeInOrder
  <2>3. LoopInv'
    BY <1>1, <2>1, <2>2 DEF AppSetsLoop, Makes, LoopsOK, LoopsInOrder
  <2> QED
    BY <1>1, <2>3, TasksUntouched DEF AppSetsLoop
<1>2. CASE Begin
  <2>1. open' \ {Call} = open \ {Call}
    BY <1>2 DEF Begin
  <2>2. LoopInv'
    BY <1>2, <2>1 DEF Begin, LoopsOK, LoopsInOrder
  <2>3. GotInv'
    BY <1>2, NothingGot DEF Begin, Keeps, opVars
  <2>4. OpsOK' /\ TasksOK' /\ Made' /\ Quiet' /\ FuturesOver'
    BY <1>2 DEF Begin, opVars, TaskInv, OpsOK, TasksOK, Made, Quiet, FuturesOver
  <2>5. Woken' /\ Waiting'
    BY <1>2 DEF Begin, TaskInv, Quiet, Woken, Waiting
  <2> QED
    BY <2>2, <2>3, <2>4, <2>5 DEF TaskInv
<1>3. CASE Return
  <2>1. LoopInv'
    BY <1>3 DEF Return, Idle, LoopsOK, LoopsInOrder
  <2>2. GotInv'
    BY <1>3, NothingRight DEF Return, GotInv
  <2>3. OpsOK' /\ TasksOK' /\ Made' /\ Quiet' /\ FuturesOver'
    BY <1>3 DEF Return, opVars, TaskInv, OpsOK, TasksOK, Made, Quiet, FuturesOver
  <2>4. Woken' /\ Waiting'
    BY <1>3 DEF Return, TaskInv, Woken, Waiting
  <2> QED
    BY <2>1, <2>2, <2>3, <2>4 DEF TaskInv
<1>4. CASE Close
  <2>1. open' \ {Call} = open \ {Call}
    BY <1>4 DEF Close
  <2>2. LoopInv'
    BY <1>4, <2>1 DEF Close, LoopsOK, LoopsInOrder
  <2> QED
    BY <1>4, <2>2, TasksUntouched DEF Close
<1>5. CASE Unset
  <2>1. LoopInv'
    BY <1>5 DEF Unset, LoopsOK, LoopsInOrder
  <2> QED
    BY <1>5, <2>1, TasksUntouched DEF Unset
<1> QED
  BY <1>1, <1>2, <1>3, <1>4, <1>5

(* A step of a task, a timer or a job touches no loop.                     *)
LEMMA LoopUntouched == LoopInv /\ UNCHANGED loopVars => LoopInv'
  BY DEF LoopInv, LoopsOK, LoopsInOrder, loopVars

(* Every step, or none.                                                    *)
LEMMA NextPreserves == IInv /\ [Next]_vars => IInv'
<1>0. GotInv' /\ TaskInv' /\ LoopInv' => IInv'
  <2>1. TypeOK' <=> OpsOK' /\ TasksOK' /\ LoopsOK' /\ (got \in [Tasks -> Outcomes])'
    BY DEF TypeOK, OpsOK, TasksOK, LoopsOK
  <2>2. OutcomesMade' /\ OwnWake' <=> Waiting' /\ \A t \in Tasks : Right(got[t])'
    BY DEF OutcomesMade, OwnWake, Waiting, Right
  <2> QED
    BY <2>1, <2>2 DEF IInv, GotInv, TaskInv, LoopInv
<1> SUFFICES ASSUME GotInv, TaskInv, LoopInv, [Next]_vars
             PROVE  GotInv' /\ TaskInv' /\ LoopInv'
  BY <1>0, Parts
<1>1. CASE UNCHANGED vars
  BY <1>1, TasksUntouched, LoopUntouched DEF vars, loopVars
<1>2. ASSUME NEW t \in Tasks, NEW v \in Values,
             NEW delay \in {"zero", "some", "refused"}, CallSleep(t, delay, v)
      PROVE  GotInv' /\ TaskInv' /\ LoopInv'
  BY <1>2, CallsPreserve, LoopUntouched DEF CallSleep
<1>3. ASSUME NEW t \in Tasks, CallExecutor(t) PROVE GotInv' /\ TaskInv' /\ LoopInv'
  <2>1. UNCHANGED loopVars
    BY <1>3 DEF CallExecutor
  <2>2. None \in Values /\ "zero" \in {"zero", "some", "refused"}
    OBVIOUS
  <2> QED
    BY <1>3, <2>1, <2>2, CallsPreserve, LoopUntouched
<1>4. ASSUME NEW t \in Tasks, NEW o \in Ops, Await(t, o)
      PROVE  GotInv' /\ TaskInv' /\ LoopInv'
  <2>1. UNCHANGED loopVars
    BY <1>4 DEF Await, AwaitYield, AwaitFuture, AwaitLazy, AwaitBad, AwaitJob,
                Awaits
  <2> QED
    BY <1>4, <2>1, AwaitPreserves, LoopUntouched
<1>5. ASSUME NEW t \in Tasks, Resume(t) \/ SleepRaises(t) \/ End(t) \/ Timeout(t)
      PROVE  GotInv' /\ TaskInv' /\ LoopInv'
  <2>1. UNCHANGED loopVars
    BY <1>5 DEF Resume, SleepRaises, End, Timeout
  <2> QED
    BY <1>5, <2>1, ResumePreserves, RaisesPreserves, EndPreserves, TimeoutPreserves,
       LoopUntouched
<1>6. ASSUME NEW o \in Ops, \/ StopWork(o) \/ Expire(o) \/ StartJob(o)
                            \/ EndJob(o) \/ Complete(o)
      PROVE  GotInv' /\ TaskInv' /\ LoopInv'
  <2>1. UNCHANGED loopVars
    BY <1>6 DEF StopWork, Expire, StartJob, EndJob, Complete
  <2> QED
    BY <1>6, <2>1, WorkPreserves, CompletePreserves, LoopUntouched
<1>7. ASSUME NewEventLoop \/ GetEventLoop \/ GetLoop
      PROVE  GotInv' /\ TaskInv' /\ LoopInv'
  <2>1. UNCHANGED <<opVars, taskVars, life>>
    BY <1>7 DEF NewEventLoop, GetEventLoop, GetLoop
  <2> QED
    BY <1>7, <2>1, SearchPreserves, TasksUntouched
<1> QED
  BY <1>1, <1>2, <1>3, <1>4, <1>5, <1>6, <1>7, CallPreserves DEF Next

\* The inductive invariant holds throughout every behaviour.
LEMMA AlwaysIInv == Spec => []IInv
  BY InitEstablishes, NextPreserves, PTL DEF Spec

-----------------------------------------------------------------------------
(* What it gives.                                                          *)

(* Every variable of LoopApi keeps its type, and every future has a timer  *)
(* or a job behind it.                                                     *)
THEOREM TypeCorrect == Spec => []TypeOK
<1>1. IInv => TypeOK
  BY DEF IInv
<1> QED
  BY <1>1, AlwaysIInv, PTL

(* An await of a sleep or a job ends by its own timer, job or timeout,     *)
(* whatever else expires, late or not.                                     *)
THEOREM AwaitsOwn == Spec => []OwnWake
<1>1. IInv => OwnWake
  BY DEF IInv
<1> QED
  BY <1>1, AlwaysIInv, PTL

(* Who looks for a loop gets an open one, unless SIGINT has cut the        *)
(* clean-up of run_coroutine, and in a coroutine the one that runs it or   *)
(* a new one.                                                              *)
THEOREM HandsOutOpen == Spec => OpenLoopsHanded
<1> DEFINE Handed == handed' \notin {handed, None} =>
       /\ (handed' \in open' \/ cut)
       /\ (life = "runs" => handed' = Call \/ handed' \notin open)
<1>1. ASSUME LoopInv, NEW l \in Loops, Makes(l), Gives(l) PROVE Handed
  BY <1>1, MadeInOrder DEF Makes, Gives
<1>2. ASSUME LoopInv, NewEventLoop \/ GetEventLoop PROVE Handed
  BY <1>1, <1>2 DEF NewEventLoop, GetEventLoop, GivesNew, Gives, LoopInv,
                    LoopsInOrder
<1>3. ASSUME LoopInv, GetLoop PROVE Handed
  BY <1>1, <1>3 DEF GetLoop, GivesNew, Gives, Asks, Runs, LoopInv, LoopsOK,
                    LoopsInOrder
<1>4. ASSUME Next PROVE \/ NewEventLoop \/ GetEventLoop \/ GetLoop
                        \/ handed' \in {handed, None}
  <2>1. ASSUME AppSetsLoop \/ Begin \/ Return \/ Close \/ Unset
        PROVE  handed' \in {handed, None}
    BY <2>1 DEF AppSetsLoop, Begin, Return, Close, Unset
  <2>2. ASSUME NEW t \in Tasks, NEW v \in Values, NEW delay \in {"zero", "some", "refused"},
               CallSleep(t, delay, v) \/ CallExecutor(t)
        PROVE  UNCHANGED handed
    BY <2>2 DEF CallSleep, CallExecutor, loopVars
  <2>3. ASSUME NEW t \in Tasks, Resume(t) \/ SleepRaises(t) \/ End(t) \/ Timeout(t)
        PROVE  UNCHANGED handed
    BY <2>3 DEF Resume, SleepRaises, End, Timeout, loopVars
  <2>4. ASSUME NEW t \in Tasks, NEW o \in Ops, Await(t, o) PROVE UNCHANGED handed
    BY <2>4 DEF Await, AwaitYield, AwaitFuture, AwaitLazy, AwaitBad, AwaitJob,
                Awaits, loopVars
  <2>5. ASSUME NEW o \in Ops, \/ StopWork(o) \/ Expire(o) \/ StartJob(o)
                              \/ EndJob(o) \/ Complete(o)
        PROVE  UNCHANGED handed
    BY <2>5 DEF StopWork, Expire, StartJob, EndJob, Complete, loopVars
  <2> QED
    BY <1>4, <2>1, <2>2, <2>3, <2>4, <2>5 DEF Next, Values
<1>5. IInv /\ [Next]_vars => [Handed]_vars
  BY <1>2, <1>3, <1>4, Parts
<1> QED
  BY <1>5, AlwaysIInv, PTL DEF Spec, OpenLoopsHanded
=============================================================================
