-------------------------- MODULE CoroutineRunProofs --------------------------
(***************************************************************************)
(* Proofs about CoroutineRun for any threads and any number of calls,      *)
(* nested and one after the other, of sleeps and of SIGINTs.               *)
(***************************************************************************)
EXTENDS CoroutineRun, SequenceTheorems, TLAPS

-----------------------------------------------------------------------------
(* The invariant.                                                          *)

\* The types of what run_coroutine and its loop keep.
LoopOK ==
  /\ calls \in [Threads -> Seq(Loops)]
  /\ phase \in [Loops -> {"none", "set", "start", "drive", "close", "unset", "over"}]
  /\ current \in [Threads -> Loops \cup {None}]
  /\ runs \in [Threads -> Loops \cup {None}]
  /\ closed \subseteq Loops
  /\ made \in 0..MaxRuns
  /\ task \in [Loops -> [Jobs -> {"none", "ready", "active", "asleep", "ok", "err"}]]
  /\ timer \in [Loops -> [Jobs -> {"none", "armed", "posted", "dropped"}]]
  /\ hop \in [Loops -> {"none", "sent", "posted", "dropped", "taken"}]
  /\ outcome \in [Loops -> {"none", "ok", "err", "refused", "interrupted"}]
  /\ sleeps \in 0..MaxSleeps
  /\ cut \subseteq Loops

\* The calls of a thread are under way, later ones inside of earlier ones, and
\* no other thread is in them.
In(t, l) == \E i \in 1..Len(calls[t]) : calls[t][i] = l
CallsNest ==
  /\ \A t, u \in Threads, l \in Loops : In(t, l) /\ In(u, l) => t = u
  /\ \A t \in Threads : \A i, j \in 1..Len(calls[t]) :
       i < j => calls[t][i] < calls[t][j]
  /\ \A t \in Threads, l \in Loops :
       In(t, l) => l <= made /\ phase[l] \notin {"none", "over"}

\* At most one loop runs in a thread: that of the call that is driving it.
OneRuns ==
  /\ \A t \in Threads, l \in Loops : runs[t] = l => In(t, l) /\ phase[l] = "drive"
  /\ \A l \in Loops : phase[l] = "drive" => \E t \in Threads : runs[t] = l

\* The loop that is current in a thread is that of a call it is in, but for the
\* calls that a SIGINT has cut short.
Currents == \A t \in Threads, l \in Loops : current[t] = l => In(t, l) \/ l \in cut

\* What a call has done, by the phase it is in.
Phases ==
  \A l \in Loops :
    /\ l > made => phase[l] = "none"
    /\ l \in closed => phase[l] \in {"unset", "over"}
    /\ phase[l] \in {"unset", "over"} => l \in closed \cup cut
    /\ phase[l] \in {"none", "set", "start"} =>
         /\ hop[l] = "none"
         /\ \A j \in Jobs : task[l][j] = "none" /\ timer[l][j] = "none"
    /\ phase[l] \in {"none", "set", "start", "drive"} => outcome[l] = "none"
    /\ phase[l] \in {"close", "unset"} => outcome[l] # "none"

\* A task sleeps while its timer has not come back, and the outcome that is on
\* its way is that of a coroutine that is over.
Outcomes ==
  \A l \in Loops :
    /\ \A j \in Jobs : timer[l][j] # "none" => task[l][j] = "asleep"
    /\ hop[l] # "none" => task[l]["main"] \in {"ok", "err"}
    /\ outcome[l] \in {"ok", "err"} => hop[l] = "taken" /\ task[l]["main"] = outcome[l]
    /\ outcome[l] = "refused" => task[l]["main"] = "ready" /\ hop[l] = "none"

LoopInv == LoopOK /\ CallsNest /\ OneRuns /\ Currents /\ Phases /\ Outcomes
IInv == LoopInv /\ interrupts \in 0..MaxInterrupts

-----------------------------------------------------------------------------
(* The calls of a thread.                                                  *)

LEMMA LastIs ==
  ASSUME LoopOK, NEW t \in Threads, calls[t] # <<>>
  PROVE  /\ Len(calls[t]) \in Nat /\ Len(calls[t]) \in 1..Len(calls[t])
         /\ Last(calls[t]) = calls[t][Len(calls[t])]
         /\ Last(calls[t]) \in Loops /\ In(t, Last(calls[t]))
<1>1. calls[t] \in Seq(Loops)
  BY DEF LoopOK
<1>2. Len(calls[t]) \in Nat /\ Len(calls[t]) > 0
  BY <1>1, EmptySeq
<1>3. Last(calls[t]) = calls[t][Len(calls[t])] /\ Last(calls[t]) \in Loops
  BY <1>1, <1>2, ElementOfSeq DEF Last
<1> QED
  BY <1>2, <1>3 DEF In

LEMMA AtIs ==
  ASSUME LoopOK, NEW t \in Threads, NEW l, NEW p, At(t, l, p)
  PROVE  l \in Loops /\ In(t, l) /\ phase[l] = p /\ l = Last(calls[t]) /\ calls[t] # <<>>
  BY LastIs DEF At

LEMMA PopIs ==
  ASSUME LoopOK, CallsNest, NEW t \in Threads, calls[t] # <<>>,
         calls' = [calls EXCEPT ![t] = Front(@)]
  PROVE  /\ calls' \in [Threads -> Seq(Loops)]
         /\ \A u \in Threads, l \in Loops :
              In(u, l)' <=> In(u, l) /\ (u = t => l # Last(calls[t]))
         /\ \A u \in Threads : \A i, j \in 1..Len(calls'[u]) :
              i < j => calls'[u][i] < calls'[u][j]
<1> DEFINE s == calls[t]
           n == Len(s) - 1
<1>1. s \in Seq(Loops) /\ calls \in [Threads -> Seq(Loops)]
  BY DEF LoopOK
<1>2. Len(s) \in Nat /\ Len(s) > 0 /\ Last(s) = s[Len(s)]
  BY <1>1, EmptySeq, LastIs
<1>3. 1 \in Int /\ n \in Int /\ \A i \in 1..n : s[i] \in Loops
  BY <1>1, <1>2, ElementOfSeq
<1>4. Front(s) = SubSeq(s, 1, n)
  BY DEF Front
<1> HIDE DEF n
<1>5. /\ SubSeq(s, 1, n) \in Seq(Loops)
      /\ Len(SubSeq(s, 1, n)) = IF 1 <= n THEN n - 1 + 1 ELSE 0
      /\ \A i \in 1..(n - 1 + 1) : SubSeq(s, 1, n)[i] = s[1 + i - 1]
  BY <1>3, SubSeqProperties
<1>6. \A i \in 1..n : i \in 1..(n - 1 + 1) /\ 1 + i - 1 = i
  BY <1>3
<1>7. /\ Front(s) \in Seq(Loops) /\ Len(Front(s)) = n
      /\ \A i \in 1..n : Front(s)[i] = s[i]
  BY <1>2, <1>3, <1>4, <1>5, <1>6 DEF n
<1>8. calls'[t] = Front(s) /\ \A u \in Threads \ {t} : calls'[u] = calls[u]
  BY <1>1
<1>9. \A i \in 1..n : i \in 1..Len(s) /\ i < Len(s) /\ Len(s) \in 1..Len(s)
  BY <1>2 DEF n
<1>10. \A l \in Loops : In(t, l)' <=> In(t, l) /\ l # Last(s)
  <2>1. ASSUME NEW l \in Loops, In(t, l)' PROVE In(t, l) /\ l # Last(s)
    <3>1. PICK i \in 1..n : s[i] = l
      BY <1>7, <1>8, <2>1 DEF In
    <3>2. s[i] < s[Len(s)]
      BY <1>9 DEF CallsNest
    <3> QED
      BY <1>2, <1>9, <3>1, <3>2 DEF In, Loops
  <2>2. ASSUME NEW l \in Loops, In(t, l), l # Last(s) PROVE In(t, l)'
    <3>1. PICK i \in 1..Len(s) : s[i] = l
      BY <2>2 DEF In
    <3>2. i \in 1..n
      BY <1>2, <2>2, <3>1 DEF n
    <3> QED
      BY <1>7, <1>8, <3>1, <3>2 DEF In
  <2> QED
    BY <2>1, <2>2
<1>11. \A u \in Threads \ {t}, l \in Loops : In(u, l)' <=> In(u, l)
  BY <1>8 DEF In
<1>12. \A u \in Threads : \A i, j \in 1..Len(calls'[u]) :
         i < j => calls'[u][i] < calls'[u][j]
  <2>1. \A i, j \in 1..Len(calls'[t]) : i < j => calls'[t][i] < calls'[t][j]
    BY <1>7, <1>8, <1>9 DEF CallsNest
  <2> QED
    BY <1>8, <2>1 DEF CallsNest
<1> QED
  BY <1>1, <1>7, <1>8, <1>10, <1>11, <1>12

LEMMA PushIs ==
  ASSUME LoopOK, CallsNest, NEW t \in Threads, NEW k \in Loops, k > made,
         calls' = [calls EXCEPT ![t] = Append(@, k)]
  PROVE  /\ calls' \in [Threads -> Seq(Loops)]
         /\ \A u \in Threads, l \in Loops : In(u, l)' <=> In(u, l) \/ (u = t /\ l = k)
         /\ \A u \in Threads : \A i, j \in 1..Len(calls'[u]) :
              i < j => calls'[u][i] < calls'[u][j]
<1> DEFINE s == calls[t]
           a == Append(s, k)
<1>1. s \in Seq(Loops) /\ calls \in [Threads -> Seq(Loops)] /\ made \in Nat
  BY DEF LoopOK
<1>2. /\ a \in Seq(Loops) /\ Len(s) \in Nat /\ Len(a) = Len(s) + 1
      /\ \A i \in 1..Len(s) : a[i] = s[i]
      /\ a[Len(s) + 1] = k
  BY <1>1, AppendProperties
<1> HIDE DEF a
<1>3. calls' = [calls EXCEPT ![t] = a]
  BY DEF a
<1>4. calls'[t] = a /\ \A u \in Threads \ {t} : calls'[u] = calls[u]
  BY <1>1, <1>3
<1>5. \A l \in Loops : In(t, l)' <=> In(t, l) \/ l = k
  <2>1. ASSUME NEW l \in Loops, In(t, l)' PROVE In(t, l) \/ l = k
    <3>1. PICK i \in 1..Len(a) : a[i] = l
      BY <1>4, <2>1 DEF In
    <3>2. i \in 1..Len(s) \/ i = Len(s) + 1
      BY <1>2
    <3> QED
      BY <1>2, <3>1, <3>2 DEF In
  <2>2. ASSUME NEW l \in Loops, In(t, l) \/ l = k PROVE In(t, l)'
    <3>1. \A i \in 1..Len(s) : i \in 1..Len(a)
      BY <1>2
    <3>2. Len(s) + 1 \in 1..Len(a)
      BY <1>2
    <3> QED
      BY <1>2, <1>4, <2>2, <3>1, <3>2 DEF In
  <2> QED
    BY <2>1, <2>2
<1>6. \A i \in 1..Len(s) : s[i] < k
  <2>1. ASSUME NEW i \in 1..Len(s) PROVE s[i] < k
    <3>1. s[i] \in Loops /\ In(t, s[i])
      BY <1>1, ElementOfSeq DEF In
    <3>2. s[i] <= made
      BY <3>1 DEF CallsNest
    <3> QED
      BY <1>1, <3>1, <3>2 DEF Loops
  <2> QED
    BY <2>1
<1>7. \A i, j \in 1..Len(a) : i < j => a[i] < a[j]
  <2>1. ASSUME NEW i \in 1..Len(a), NEW j \in 1..Len(a), i < j PROVE a[i] < a[j]
    <3>1. i \in 1..Len(s) /\ (j \in 1..Len(s) \/ j = Len(s) + 1)
      BY <1>2, <2>1
    <3>2. CASE j \in 1..Len(s)
      BY <1>2, <2>1, <3>1, <3>2 DEF CallsNest
    <3>3. CASE j = Len(s) + 1
      BY <1>2, <1>6, <3>1, <3>3
    <3> QED
      BY <3>1, <3>2, <3>3
  <2> QED
    BY <2>1
<1>8. \A u \in Threads \ {t}, l \in Loops : In(u, l)' <=> In(u, l)
  BY <1>4 DEF In
<1>9. \A u \in Threads : \A i, j \in 1..Len(calls'[u]) :
        i < j => calls'[u][i] < calls'[u][j]
  BY <1>4, <1>7 DEF CallsNest
<1>10. \A u \in Threads, l \in Loops : In(u, l)' <=> In(u, l) \/ (u = t /\ l = k)
  BY <1>5, <1>8
<1>11. calls' \in [Threads -> Seq(Loops)]
  BY <1>1, <1>2, <1>3
<1> QED
  BY <1>9, <1>10, <1>11

-----------------------------------------------------------------------------
(* What goes on inside of a loop, and on its way there.                    *)

\* The tasks, the timers and the outcome of call l move; nothing else does.
LEMMA InsideStays ==
  ASSUME LoopInv, UNCHANGED <<calls, phase, current, runs, made, cut>>
  PROVE  CallsNest' /\ OneRuns' /\ Currents'
  BY DEF LoopInv, CallsNest, OneRuns, Currents, In

\* A task of a call that drives its loop takes a new state, with its timer and
\* with the way of the outcome.
LEMMA TaskMoves ==
  ASSUME LoopInv, NEW l \in Loops, NEW k \in Jobs, phase[l] = "drive",
         NEW s \in {"ready", "active", "asleep", "ok", "err"}, NEW w \in {"none", "armed"},
         UNCHANGED <<calls, phase, current, runs, closed, made, outcome, cut>>,
         sleeps' \in 0..MaxSleeps,
         task' = [task EXCEPT ![l][k] = s],
         timer' = timer \/ timer' = [timer EXCEPT ![l][k] = w],
         timer'[l][k] # "none" => s = "asleep",
         hop[l] # "none" => k # "main",
         \/ hop' = hop
         \/ k = "main" /\ s \in {"ok", "err"} /\ hop' = [hop EXCEPT ![l] = "sent"]
  PROVE  LoopInv'
<1> USE DEF LoopInv
<1>0. /\ task \in [Loops -> [Jobs -> {"none", "ready", "active", "asleep", "ok", "err"}]]
      /\ timer \in [Loops -> [Jobs -> {"none", "armed", "posted", "dropped"}]]
      /\ hop \in [Loops -> {"none", "sent", "posted", "dropped", "taken"}]
      /\ "main" \in Jobs /\ outcome[l] = "none"
  BY DEF LoopOK, Jobs, Phases
<1>1. /\ task'[l][k] = s
      /\ \A i \in Jobs : i # k => task'[l][i] = task[l][i]
      /\ \A m \in Loops : m # l => task'[m] = task[m]
  BY <1>0
<1>2. /\ \A i \in Jobs : i # k => timer'[l][i] = timer[l][i]
      /\ \A m \in Loops : m # l => timer'[m] = timer[m]
  <2>1. CASE timer' = timer
    BY <2>1
  <2>2. CASE timer' = [timer EXCEPT ![l][k] = w]
    BY <1>0, <2>2
  <2> QED
    BY <2>1, <2>2
<1>3. /\ \A m \in Loops : m # l => hop'[m] = hop[m]
      /\ hop'[l] # "none" => hop[l] # "none" \/ (k = "main" /\ s \in {"ok", "err"})
  <2>1. CASE hop' = hop
    BY <2>1
  <2>2. CASE k = "main" /\ s \in {"ok", "err"} /\ hop' = [hop EXCEPT ![l] = "sent"]
    BY <1>0, <2>2
  <2> QED
    BY <2>1, <2>2
<1>4. LoopOK'
  <2>1. task' \in [Loops -> [Jobs -> {"none", "ready", "active", "asleep", "ok", "err"}]]
    BY <1>0
  <2>2. timer' \in [Loops -> [Jobs -> {"none", "armed", "posted", "dropped"}]]
    <3>1. CASE timer' = timer
      BY <1>0, <3>1
    <3>2. CASE timer' = [timer EXCEPT ![l][k] = w]
      BY <1>0, <3>2
    <3> QED
      BY <3>1, <3>2
  <2>3. hop' \in [Loops -> {"none", "sent", "posted", "dropped", "taken"}]
    BY <1>0
  <2> QED
    BY <2>1, <2>2, <2>3 DEF LoopOK
<1>5. CallsNest' /\ OneRuns' /\ Currents'
  BY InsideStays
<1>6. Phases'
  BY <1>1, <1>2, <1>3 DEF Phases
<1>7. Outcomes'
  <2>1. ASSUME NEW m \in Loops \ {l}
        PROVE  /\ \A i \in Jobs : timer'[m][i] # "none" => task'[m][i] = "asleep"
               /\ hop'[m] # "none" => task'[m]["main"] \in {"ok", "err"}
               /\ outcome'[m] \in {"ok", "err"} =>
                    hop'[m] = "taken" /\ task'[m]["main"] = outcome'[m]
               /\ outcome'[m] = "refused" => task'[m]["main"] = "ready" /\ hop'[m] = "none"
    BY <1>1, <1>2, <1>3 DEF Outcomes
  <2>2. \A i \in Jobs : timer'[l][i] # "none" => task'[l][i] = "asleep"
    BY <1>1, <1>2 DEF Outcomes
  <2>3. hop'[l] # "none" => task'[l]["main"] \in {"ok", "err"}
    BY <1>0, <1>1, <1>3 DEF Outcomes
  <2> QED
    BY <1>0, <2>1, <2>2, <2>3 DEF Outcomes
<1> QED
  BY <1>4, <1>5, <1>6, <1>7

LEMMA TaskLoop ==
  ASSUME LoopInv, NEW t \in Threads, NEW l \in Loops, NEW j \in Jobs,
         \/ Step(t, l, j) \/ Sleep(t, l, j) \/ Yield(t, l, j) \/ Wake(t, l, j)
         \/ Spawn(t, l) \/ \E how \in {"ok", "err"} : End(t, l, j, how)
  PROVE  LoopInv'
<1>0. /\ timer \in [Loops -> [Jobs -> {"none", "armed", "posted", "dropped"}]]
      /\ hop \in [Loops -> {"none", "sent", "posted", "dropped", "taken"}]
      /\ "main" \in Jobs /\ "background" \in Jobs /\ "main" # "background"
  BY DEF LoopInv, LoopOK, Jobs
<1>1. /\ UNCHANGED <<calls, phase, current, runs, closed, made, outcome, cut>>
      /\ phase[l] = "drive"
      /\ sleeps' \in 0..MaxSleeps
  BY RunAssumption DEF LoopInv, LoopOK, Step, Sleep, Yield, Wake, Spawn, End, Drives, At
<1>2. /\ \A i \in Jobs : timer[l][i] # "none" => task[l][i] = "asleep"
      /\ hop[l] # "none" => task[l]["main"] \in {"ok", "err"}
  BY DEF LoopInv, Outcomes
<1>3. CASE Step(t, l, j)
  <2>1. /\ task' = [task EXCEPT ![l][j] = "active"] /\ timer' = timer /\ hop' = hop
        /\ task[l][j] = "ready"
    BY <1>3 DEF Step, Become
  <2> QED
    BY <1>1, <1>2, <2>1, TaskMoves
<1>4. CASE Sleep(t, l, j)
  <2>1. /\ task' = [task EXCEPT ![l][j] = "asleep"] /\ hop' = hop
        /\ timer' = [timer EXCEPT ![l][j] = "armed"] /\ task[l][j] = "active"
    BY <1>4 DEF Sleep, Become
  <2> QED
    BY <1>1, <1>2, <2>1, TaskMoves
<1>5. CASE Yield(t, l, j)
  <2>1. /\ task' = [task EXCEPT ![l][j] = "ready"] /\ timer' = timer /\ hop' = hop
        /\ task[l][j] = "active"
    BY <1>5 DEF Yield, Become
  <2> QED
    BY <1>1, <1>2, <2>1, TaskMoves
<1>6. CASE Wake(t, l, j)
  <2>1. /\ task' = [task EXCEPT ![l][j] = "ready"] /\ hop' = hop
        /\ timer' = [timer EXCEPT ![l][j] = "none"] /\ task[l][j] = "asleep"
    BY <1>2, <1>6 DEF Wake, Become
  <2>2. timer'[l][j] = "none"
    BY <1>0, <2>1
  <2> QED
    BY <1>1, <1>2, <2>1, <2>2, TaskMoves
<1>7. CASE Spawn(t, l)
  <2>1. /\ task' = [task EXCEPT ![l]["background"] = "asleep"] /\ hop' = hop
        /\ timer' = [timer EXCEPT ![l]["background"] = "armed"]
    BY <1>7 DEF Spawn, Become
  <2> QED
    BY <1>0, <1>1, <2>1, TaskMoves
<1>8. ASSUME NEW how \in {"ok", "err"}, End(t, l, j, how) PROVE LoopInv'
  <2>1. /\ task' = [task EXCEPT ![l][j] = how] /\ timer' = timer /\ task[l][j] = "active"
        /\ hop' = IF j = "main" THEN [hop EXCEPT ![l] = "sent"] ELSE hop
    BY <1>8 DEF End, Become
  <2>2. hop' = hop \/ (j = "main" /\ hop' = [hop EXCEPT ![l] = "sent"])
    <3>1. CASE j = "main"
      BY <2>1, <3>1
    <3>2. CASE j # "main"
      BY <2>1, <3>2
    <3> QED
      BY <3>1, <3>2
  <2> QED
    BY <1>1, <1>2, <2>1, <2>2, TaskMoves
<1> QED
  BY <1>3, <1>4, <1>5, <1>6, <1>7, <1>8

LEMMA PoolLoop ==
  ASSUME LoopInv, NEW l \in Loops, PostOutcome(l) \/ \E j \in Jobs : Expire(l, j)
  PROVE  LoopInv'
<1> USE DEF LoopInv
<1>0. /\ timer \in [Loops -> [Jobs -> {"none", "armed", "posted", "dropped"}]]
      /\ hop \in [Loops -> {"none", "sent", "posted", "dropped", "taken"}]
  BY DEF LoopOK
<1>1. UNCHANGED <<calls, phase, current, runs, closed, made, outcome, cut, task, sleeps>>
  BY DEF PostOutcome, Expire
<1>2. CallsNest' /\ OneRuns' /\ Currents'
  BY <1>1, InsideStays
<1>3. /\ timer' \in [Loops -> [Jobs -> {"none", "armed", "posted", "dropped"}]]
      /\ hop' \in [Loops -> {"none", "sent", "posted", "dropped", "taken"}]
      /\ \A m \in Loops, j \in Jobs : timer[m][j] = "none" => timer'[m][j] = "none"
      /\ \A m \in Loops : hop[m] \in {"none", "taken"} => hop'[m] = hop[m]
  <2>1. CASE PostOutcome(l)
    BY <1>0, <2>1 DEF PostOutcome
  <2>2. ASSUME NEW j \in Jobs, Expire(l, j)
        PROVE  /\ timer' \in [Loops -> [Jobs -> {"none", "armed", "posted", "dropped"}]]
               /\ \A m \in Loops, i \in Jobs : timer[m][i] = "none" => timer'[m][i] = "none"
               /\ hop' = hop
    BY <1>0, <2>2 DEF Expire
  <2> QED
    BY <1>0, <2>1, <2>2
<1>4. LoopOK'
  BY <1>1, <1>3 DEF LoopOK
<1>5. Phases'
  <2>1. ASSUME NEW m \in Loops, phase[m] \in {"none", "set", "start"}
        PROVE  /\ hop'[m] = "none"
               /\ \A j \in Jobs : task'[m][j] = "none" /\ timer'[m][j] = "none"
    <3>1. hop[m] = "none" /\ \A j \in Jobs : task[m][j] = "none" /\ timer[m][j] = "none"
      BY <2>1 DEF Phases
    <3> QED
      BY <1>1, <1>3, <3>1
  <2> QED
    BY <1>1, <2>1 DEF Phases
<1>6. Outcomes'
  BY <1>1, <1>3 DEF Outcomes
<1> QED
  BY <1>2, <1>4, <1>5, <1>6

-----------------------------------------------------------------------------
(* run_coroutine.                                                          *)

LEMMA NewLoopKeeps ==
  ASSUME LoopInv, NEW t \in Threads, NewLoop(t)
  PROVE  LoopInv'
<1> DEFINE k == made + 1
<1>0. /\ made \in 0..MaxRuns /\ MaxRuns \in Nat /\ made < MaxRuns
      /\ phase \in [Loops -> {"none", "set", "start", "drive", "close", "unset", "over"}]
  BY RunAssumption DEF LoopInv, LoopOK, NewLoop
<1>1. /\ k \in Loops /\ k > made /\ made' = k /\ made' \in 0..MaxRuns
      /\ \A m \in Loops : m <= made => m <= made' /\ m # k
      /\ \A m \in Loops : m > made' => m > made /\ m # k
  BY <1>0 DEF NewLoop, Loops
<1>2. /\ UNCHANGED <<current, runs, closed, task, timer, hop, outcome, sleeps, cut>>
      /\ calls' = [calls EXCEPT ![t] = Append(@, k)]
      /\ phase' = [phase EXCEPT ![k] = "set"]
  BY DEF NewLoop, Goto
<1> HIDE DEF k
<1>3. /\ calls' \in [Threads -> Seq(Loops)]
      /\ \A u \in Threads, m \in Loops : In(u, m)' <=> In(u, m) \/ (u = t /\ m = k)
      /\ \A u \in Threads : \A i, j \in 1..Len(calls'[u]) :
           i < j => calls'[u][i] < calls'[u][j]
  BY <1>1, <1>2, PushIs DEF LoopInv
<1>4. /\ phase'[k] = "set" /\ \A m \in Loops \ {k} : phase'[m] = phase[m]
      /\ phase' \in [Loops -> {"none", "set", "start", "drive", "close", "unset", "over"}]
  BY <1>0, <1>1, <1>2
<1>5. phase[k] = "none" /\ \A u \in Threads : ~In(u, k)
  BY <1>1 DEF LoopInv, Phases, CallsNest
<1>6. LoopOK'
  BY <1>1, <1>2, <1>3, <1>4 DEF LoopInv, LoopOK
<1>7. CallsNest'
  <2>1. \A u, v \in Threads, m \in Loops : In(u, m)' /\ In(v, m)' => u = v
    BY <1>3, <1>5 DEF LoopInv, CallsNest
  <2>2. \A u \in Threads, m \in Loops :
          In(u, m)' => m <= made' /\ phase'[m] \notin {"none", "over"}
    <3>1. k <= made'
      BY <1>0, <1>1
    <3> QED
      BY <1>1, <1>3, <1>4, <1>5, <3>1 DEF LoopInv, CallsNest
  <2> QED
    BY <1>3, <2>1, <2>2 DEF CallsNest
<1>8. OneRuns'
  BY <1>2, <1>3, <1>4, <1>5 DEF LoopInv, OneRuns
<1>9. Currents'
  BY <1>2, <1>3 DEF LoopInv, Currents
<1>10. Phases'
  BY <1>1, <1>2, <1>4, <1>5 DEF LoopInv, Phases
<1>11. Outcomes'
  BY <1>2 DEF LoopInv, Outcomes
<1> QED
  BY <1>6, <1>7, <1>8, <1>9, <1>10, <1>11 DEF LoopInv

\* A call goes on to another phase, in which it does not drive its loop.
LEMMA GoesOn ==
  ASSUME LoopInv, NEW l \in Loops, NEW p \in {"set", "start", "close", "unset"},
         phase[l] \notin {"none", "drive", "over"},
         UNCHANGED <<calls, runs, made>>, cut \subseteq cut',
         \/ UNCHANGED current
         \/ \E t \in Threads : In(t, l) /\ current' = [current EXCEPT ![t] = l],
         phase' = [phase EXCEPT ![l] = p]
  PROVE  CallsNest' /\ OneRuns' /\ Currents'
<1>1. phase'[l] = p /\ \A m \in Loops \ {l} : phase'[m] = phase[m]
  BY DEF LoopInv, LoopOK
<1>2. \A u \in Threads, m \in Loops : In(u, m)' <=> In(u, m)
  BY DEF In
<1>3. CallsNest'
  BY <1>1, <1>2 DEF LoopInv, CallsNest
<1>4. OneRuns'
  BY <1>1, <1>2 DEF LoopInv, OneRuns
<1>5. Currents'
  BY <1>2 DEF LoopInv, LoopOK, Currents
<1> QED
  BY <1>3, <1>4, <1>5

\* A call that drives its loop leaves it.
LEMMA Leaves ==
  ASSUME LoopInv, NEW t \in Threads, NEW l \in Loops, In(t, l), phase[l] = "drive",
         UNCHANGED <<calls, made, current, cut>>,
         runs' = [runs EXCEPT ![t] = None],
         phase' = [phase EXCEPT ![l] = "close"]
  PROVE  CallsNest' /\ OneRuns' /\ Currents'
<1>0. runs \in [Threads -> Loops \cup {None}] /\ None \notin Loops
  BY RunAssumption DEF LoopInv, LoopOK, Loops
<1>1. phase'[l] = "close" /\ \A m \in Loops \ {l} : phase'[m] = phase[m]
  BY DEF LoopInv, LoopOK
<1>2. \A u \in Threads, m \in Loops : In(u, m)' <=> In(u, m)
  BY DEF In
<1>3. runs'[t] = None /\ \A u \in Threads \ {t} : runs'[u] = runs[u]
  BY <1>0
<1>4. runs[t] = l
  BY DEF LoopInv, CallsNest, OneRuns
<1>5. CallsNest'
  BY <1>1, <1>2 DEF LoopInv, CallsNest
<1>6. \A u \in Threads, m \in Loops : runs'[u] = m => In(u, m)' /\ phase'[m] = "drive"
  <2>1. ASSUME NEW u \in Threads, NEW m \in Loops, runs'[u] = m
        PROVE  In(u, m) /\ phase[m] = "drive" /\ m # l
    <3>1. u # t /\ runs[u] = m
      BY <1>0, <1>3, <2>1
    <3> QED
      BY <3>1 DEF LoopInv, CallsNest, OneRuns
  <2> QED
    BY <1>1, <1>2, <2>1
<1>7. \A m \in Loops : phase'[m] = "drive" => \E u \in Threads : runs'[u] = m
  <2>1. ASSUME NEW m \in Loops, phase'[m] = "drive" PROVE \E u \in Threads : runs'[u] = m
    <3>1. m # l /\ phase[m] = "drive"
      BY <1>1, <2>1
    <3>2. PICK u \in Threads : runs[u] = m
      BY <3>1 DEF LoopInv, OneRuns
    <3> QED
      BY <1>3, <1>4, <3>1, <3>2
  <2> QED
    BY <2>1
<1>8. Currents'
  BY <1>2 DEF LoopInv, Currents
<1> QED
  BY <1>5, <1>6, <1>7, <1>8 DEF OneRuns

\* A call that does not drive its loop is over.
LEMMA IsOver ==
  ASSUME LoopInv, NEW t \in Threads, NEW l \in Loops, NEW p, At(t, l, p), p # "drive",
         UNCHANGED <<runs, made>>, cut \subseteq cut',
         \/ UNCHANGED current /\ l \in cut'
         \/ current' = [current EXCEPT ![t] = None],
         calls' = [calls EXCEPT ![t] = Front(@)],
         phase' = [phase EXCEPT ![l] = "over"]
  PROVE  CallsNest' /\ OneRuns' /\ Currents' /\ calls' \in [Threads -> Seq(Loops)]
<1>0. In(t, l) /\ phase[l] = p /\ l = Last(calls[t]) /\ calls[t] # <<>>
  BY AtIs DEF LoopInv
<1>1. phase'[l] = "over" /\ \A m \in Loops \ {l} : phase'[m] = phase[m]
  BY DEF LoopInv, LoopOK
<1>2. /\ calls' \in [Threads -> Seq(Loops)]
      /\ \A u \in Threads, m \in Loops : In(u, m)' <=> In(u, m) /\ (u = t => m # l)
      /\ \A u \in Threads : \A i, j \in 1..Len(calls'[u]) :
           i < j => calls'[u][i] < calls'[u][j]
  BY <1>0, PopIs DEF LoopInv
<1>3. \A u \in Threads, m \in Loops : In(u, m)' <=> In(u, m) /\ m # l
  BY <1>0, <1>2 DEF LoopInv, CallsNest
<1>4. CallsNest'
  BY <1>1, <1>2, <1>3 DEF LoopInv, CallsNest
<1>5. OneRuns'
  BY <1>0, <1>1, <1>3 DEF LoopInv, OneRuns
<1>6. Currents'
  <2>1. CASE UNCHANGED current /\ l \in cut'
    BY <1>3, <2>1 DEF LoopInv, Currents
  <2>2. CASE current' = [current EXCEPT ![t] = None]
    <3>1. \A u \in Threads, m \in Loops : current'[u] = m => u # t /\ current[u] = m
      BY <2>2, RunAssumption DEF LoopInv, LoopOK, Loops
    <3>2. \A u \in Threads \ {t} : ~In(u, l)
      BY <1>0 DEF LoopInv, CallsNest
    <3> QED
      BY <1>3, <3>1, <3>2 DEF LoopInv, Currents
  <2> QED
    BY <2>1, <2>2
<1> QED
  BY <1>2, <1>4, <1>5, <1>6

LEMMA SetLoopKeeps ==
  ASSUME LoopInv, NEW t \in Threads, NEW l \in Loops, SetLoop(t, l)
  PROVE  LoopInv'
<1>1. /\ phase[l] = "set" /\ phase' = [phase EXCEPT ![l] = "start"]
      /\ current' = [current EXCEPT ![t] = l]
      /\ UNCHANGED <<calls, runs, closed, made, task, timer, hop, outcome, sleeps, cut>>
      /\ In(t, l)
  BY AtIs DEF LoopInv, SetLoop, At, Goto
<1>2. phase'[l] = "start" /\ \A m \in Loops \ {l} : phase'[m] = phase[m]
  BY <1>1 DEF LoopInv, LoopOK
<1>3. LoopOK'
  BY <1>1 DEF LoopInv, LoopOK
<1>4. CallsNest' /\ OneRuns' /\ Currents'
  BY <1>1, GoesOn
<1>5. Phases'
  BY <1>1, <1>2 DEF LoopInv, Phases
<1>6. Outcomes'
  BY <1>1 DEF LoopInv, Outcomes
<1> QED
  BY <1>3, <1>4, <1>5, <1>6 DEF LoopInv

LEMMA StartKeeps ==
  ASSUME LoopInv, NEW t \in Threads, NEW l \in Loops, Start(t, l)
  PROVE  LoopInv'
<1>0. /\ task \in [Loops -> [Jobs -> {"none", "ready", "active", "asleep", "ok", "err"}]]
      /\ outcome \in [Loops -> {"none", "ok", "err", "refused", "interrupted"}]
      /\ runs \in [Threads -> Loops \cup {None}]
      /\ "main" \in Jobs /\ None \notin Loops
  BY RunAssumption DEF LoopInv, LoopOK, Jobs, Loops
<1>1. /\ phase[l] = "start" /\ task' = [task EXCEPT ![l]["main"] = "ready"]
      /\ UNCHANGED <<calls, current, closed, made, timer, hop, sleeps, cut>>
      /\ In(t, l)
  BY AtIs DEF LoopInv, Start, At, Become
<1>2. /\ task'[l]["main"] = "ready"
      /\ \A m \in Loops \ {l} : task'[m] = task[m]
      /\ task' \in [Loops -> [Jobs -> {"none", "ready", "active", "asleep", "ok", "err"}]]
  BY <1>0, <1>1
<1>3. /\ l <= made /\ l \notin closed /\ hop[l] = "none" /\ outcome[l] = "none"
      /\ \A j \in Jobs : timer[l][j] = "none"
  BY <1>1 DEF LoopInv, Phases, CallsNest
<1>4. CASE runs[t] = None
  <2>1. /\ runs' = [runs EXCEPT ![t] = l] /\ outcome' = outcome
        /\ phase' = [phase EXCEPT ![l] = "drive"]
    BY <1>4 DEF Start, Goto
  <2>2. phase'[l] = "drive" /\ \A m \in Loops \ {l} : phase'[m] = phase[m]
    BY <2>1 DEF LoopInv, LoopOK
  <2>3. runs'[t] = l /\ \A u \in Threads \ {t} : runs'[u] = runs[u]
    BY <1>0, <2>1
  <2>4. LoopOK'
    BY <1>1, <1>2, <2>1 DEF LoopInv, LoopOK
  <2>5. \A u \in Threads, m \in Loops : In(u, m)' <=> In(u, m)
    BY <1>1 DEF In
  <2>6. CallsNest'
    BY <1>1, <2>2, <2>5 DEF LoopInv, CallsNest
  <2>7. \A u \in Threads, m \in Loops : runs'[u] = m => In(u, m)' /\ phase'[m] = "drive"
    BY <1>1, <2>2, <2>3, <2>5 DEF LoopInv, OneRuns
  <2>8. \A m \in Loops : phase'[m] = "drive" => \E u \in Threads : runs'[u] = m
    <3>1. ASSUME NEW m \in Loops \ {l}, phase'[m] = "drive"
          PROVE  \E u \in Threads : runs'[u] = m
      <4>1. PICK u \in Threads : runs[u] = m
        BY <2>2, <3>1 DEF LoopInv, OneRuns
      <4> QED
        BY <1>0, <1>4, <2>3, <4>1
    <3> QED
      BY <2>3, <3>1
  <2>9. Currents'
    BY <1>1, <2>5 DEF LoopInv, Currents
  <2>10. Phases'
    BY <1>1, <1>2, <1>3, <2>1, <2>2 DEF LoopInv, Phases
  <2>11. Outcomes'
    BY <1>1, <1>2, <1>3, <2>1 DEF LoopInv, Outcomes
  <2> QED
    BY <2>4, <2>6, <2>7, <2>8, <2>9, <2>10, <2>11 DEF LoopInv, OneRuns
<1>5. CASE runs[t] # None
  <2>1. /\ runs' = runs /\ outcome' = [outcome EXCEPT ![l] = "refused"]
        /\ phase' = [phase EXCEPT ![l] = "close"]
    BY <1>5 DEF Start, Goto
  <2>2. /\ phase'[l] = "close" /\ \A m \in Loops \ {l} : phase'[m] = phase[m]
        /\ outcome'[l] = "refused" /\ \A m \in Loops \ {l} : outcome'[m] = outcome[m]
    BY <1>0, <2>1 DEF LoopInv, LoopOK
  <2>3. LoopOK'
    BY <1>1, <1>2, <2>1 DEF LoopInv, LoopOK
  <2>4. CallsNest' /\ OneRuns' /\ Currents'
    BY <1>1, <2>1, GoesOn
  <2>5. Phases'
    BY <1>1, <1>2, <1>3, <2>2 DEF LoopInv, Phases
  <2>6. Outcomes'
    BY <1>1, <1>2, <1>3, <2>2 DEF LoopInv, Outcomes
  <2> QED
    BY <2>3, <2>4, <2>5, <2>6 DEF LoopInv
<1> QED
  BY <1>4, <1>5

LEMMA StopKeeps ==
  ASSUME LoopInv, NEW t \in Threads, NEW l \in Loops, Stop(t, l)
  PROVE  LoopInv'
<1>1. /\ phase[l] = "drive" /\ hop[l] = "posted" /\ In(t, l)
      /\ runs' = [runs EXCEPT ![t] = None]
      /\ outcome' = [outcome EXCEPT ![l] = task[l]["main"]]
      /\ hop' = [hop EXCEPT ![l] = "taken"]
      /\ phase' = [phase EXCEPT ![l] = "close"]
      /\ UNCHANGED <<calls, current, closed, made, task, timer, sleeps, cut>>
  BY AtIs DEF LoopInv, Stop, Drives, Goto
<1>2. /\ phase'[l] = "close" /\ \A m \in Loops \ {l} : phase'[m] = phase[m]
      /\ outcome'[l] = task[l]["main"] /\ \A m \in Loops \ {l} : outcome'[m] = outcome[m]
      /\ hop'[l] = "taken" /\ \A m \in Loops \ {l} : hop'[m] = hop[m]
  BY <1>1 DEF LoopInv, LoopOK
<1>3. task[l]["main"] \in {"ok", "err"} /\ l \notin closed /\ l <= made
  BY <1>1 DEF LoopInv, Outcomes, Phases, CallsNest
<1>4. LoopOK'
  BY <1>1, <1>3 DEF LoopInv, LoopOK
<1>5. CallsNest' /\ OneRuns' /\ Currents'
  BY <1>1, Leaves
<1>6. Phases'
  BY <1>1, <1>2, <1>3 DEF LoopInv, Phases
<1>7. Outcomes'
  BY <1>1, <1>2, <1>3 DEF LoopInv, Outcomes
<1> QED
  BY <1>4, <1>5, <1>6, <1>7 DEF LoopInv

LEMMA CloseKeeps ==
  ASSUME LoopInv, NEW t \in Threads, NEW l \in Loops, Close(t, l)
  PROVE  LoopInv'
<1>1. /\ phase[l] = "close" /\ phase' = [phase EXCEPT ![l] = "unset"]
      /\ closed' = closed \cup {l}
      /\ UNCHANGED <<calls, current, runs, made, task, timer, hop, outcome, sleeps, cut>>
  BY DEF Close, At, Goto
<1>2. phase'[l] = "unset" /\ \A m \in Loops \ {l} : phase'[m] = phase[m]
  BY <1>1 DEF LoopInv, LoopOK
<1>3. LoopOK'
  BY <1>1 DEF LoopInv, LoopOK
<1>4. CallsNest' /\ OneRuns' /\ Currents'
  BY <1>1, GoesOn
<1>5. Phases'
  BY <1>1, <1>2 DEF LoopInv, Phases
<1>6. Outcomes'
  BY <1>1 DEF LoopInv, Outcomes
<1> QED
  BY <1>3, <1>4, <1>5, <1>6 DEF LoopInv

LEMMA UnsetKeeps ==
  ASSUME LoopInv, NEW t \in Threads, NEW l \in Loops, Unset(t, l)
  PROVE  LoopInv'
<1>1. /\ At(t, l, "unset") /\ phase[l] = "unset" /\ phase' = [phase EXCEPT ![l] = "over"]
      /\ current' = [current EXCEPT ![t] = None]
      /\ calls' = [calls EXCEPT ![t] = Front(@)]
      /\ UNCHANGED <<runs, closed, made, task, timer, hop, outcome, sleeps, cut>>
  BY DEF Unset, At, Goto
<1>2. phase'[l] = "over" /\ \A m \in Loops \ {l} : phase'[m] = phase[m]
  BY <1>1 DEF LoopInv, LoopOK
<1>3. CallsNest' /\ OneRuns' /\ Currents' /\ calls' \in [Threads -> Seq(Loops)]
  BY <1>1, IsOver
<1>4. LoopOK'
  BY <1>1, <1>3 DEF LoopInv, LoopOK
<1>5. Phases'
  BY <1>1, <1>2 DEF LoopInv, Phases
<1>6. Outcomes'
  BY <1>1 DEF LoopInv, Outcomes
<1> QED
  BY <1>3, <1>4, <1>5, <1>6 DEF LoopInv

-----------------------------------------------------------------------------
(* Exceptions out of a loop, and SIGINT.                                   *)

LEMMA LeavesLoopKeeps ==
  ASSUME LoopInv, NEW t \in Threads, NEW l \in Loops, LeavesLoop(t, l)
  PROVE  LoopInv'
<1>0. /\ task \in [Loops -> [Jobs -> {"none", "ready", "active", "asleep", "ok", "err"}]]
      /\ "main" \in Jobs
  BY DEF LoopInv, LoopOK, Jobs
<1>1. /\ phase[l] = "drive" /\ In(t, l)
      /\ runs' = [runs EXCEPT ![t] = None]
      /\ outcome' = [outcome EXCEPT ![l] = "interrupted"]
      /\ phase' = [phase EXCEPT ![l] = "close"]
      /\ UNCHANGED <<calls, current, closed, made, timer, hop, sleeps, cut>>
  BY <1>0, AtIs DEF LoopInv, LeavesLoop, Drives, Goto
<1>2. /\ phase'[l] = "close" /\ \A m \in Loops \ {l} : phase'[m] = phase[m]
      /\ outcome'[l] = "interrupted" /\ \A m \in Loops \ {l} : outcome'[m] = outcome[m]
  BY <1>1 DEF LoopInv, LoopOK
<1>3. /\ \A j \in Jobs : task'[l][j] = task[l][j] \/ task[l][j] = "active"
      /\ \A m \in Loops \ {l} : task'[m] = task[m]
      /\ task' \in [Loops -> [Jobs -> {"none", "ready", "active", "asleep", "ok", "err"}]]
  BY <1>0 DEF LeavesLoop
<1>4. l \notin closed /\ l <= made
  BY <1>0, <1>1 DEF LoopInv, Phases, CallsNest
<1>5. LoopOK'
  BY <1>0, <1>1, <1>3 DEF LoopInv, LoopOK
<1>6. CallsNest' /\ OneRuns' /\ Currents'
  BY <1>0, <1>1, Leaves
<1>7. Phases'
  BY <1>1, <1>2, <1>3, <1>4 DEF LoopInv, Phases
<1>8. Outcomes'
  <2>1. ASSUME NEW m \in Loops \ {l}
        PROVE  /\ \A i \in Jobs : timer'[m][i] # "none" => task'[m][i] = "asleep"
               /\ hop'[m] # "none" => task'[m]["main"] \in {"ok", "err"}
               /\ outcome'[m] \in {"ok", "err"} =>
                    hop'[m] = "taken" /\ task'[m]["main"] = outcome'[m]
               /\ outcome'[m] = "refused" => task'[m]["main"] = "ready" /\ hop'[m] = "none"
    BY <1>1, <1>2, <1>3 DEF LoopInv, Outcomes
  <2>2. \A i \in Jobs : timer'[l][i] # "none" => task'[l][i] = "asleep"
    BY <1>1, <1>3 DEF LoopInv, Outcomes
  <2>3. hop'[l] # "none" => task'[l]["main"] \in {"ok", "err"}
    BY <1>0, <1>1, <1>3 DEF LoopInv, Outcomes
  <2> QED
    BY <1>2, <2>1, <2>2, <2>3 DEF Outcomes
<1> QED
  BY <1>5, <1>6, <1>7, <1>8 DEF LoopInv

LEMMA InterruptSetupKeeps ==
  ASSUME LoopInv, NEW l \in Loops, InterruptSetup(l)
  PROVE  LoopInv'
<1>1. /\ MainThread \in Threads
      /\ At(MainThread, l, "set") \/ At(MainThread, l, "start")
      /\ phase[l] \in {"set", "start"} /\ phase' = [phase EXCEPT ![l] = "over"]
      /\ calls' = [calls EXCEPT ![MainThread] = Front(@)]
      /\ outcome' = [outcome EXCEPT ![l] = "interrupted"]
      /\ cut' = cut \cup {l}
      /\ UNCHANGED <<current, runs, closed, made, task, timer, hop, sleeps>>
      /\ In(MainThread, l)
  BY RunAssumption, AtIs DEF LoopInv, InterruptSetup, At, Goto
<1>2. /\ phase'[l] = "over" /\ \A m \in Loops \ {l} : phase'[m] = phase[m]
      /\ outcome'[l] = "interrupted" /\ \A m \in Loops \ {l} : outcome'[m] = outcome[m]
  BY <1>1 DEF LoopInv, LoopOK
<1>3. CallsNest' /\ OneRuns' /\ Currents' /\ calls' \in [Threads -> Seq(Loops)]
  BY <1>1, IsOver
<1>4. LoopOK'
  BY <1>1, <1>3 DEF LoopInv, LoopOK
<1>5. Phases'
  BY <1>1, <1>2 DEF LoopInv, Phases, CallsNest
<1>6. Outcomes'
  BY <1>1, <1>2 DEF LoopInv, Outcomes
<1> QED
  BY <1>3, <1>4, <1>5, <1>6 DEF LoopInv

LEMMA InterruptCleanupKeeps ==
  ASSUME LoopInv, NEW l \in Loops, InterruptCleanup(l)
  PROVE  LoopInv'
<1>1. /\ MainThread \in Threads
      /\ phase[l] \in {"close", "unset"}
      /\ cut' = cut \cup {l}
      /\ UNCHANGED <<current, runs, closed, made, task, timer, hop, outcome, sleeps>>
  BY RunAssumption DEF InterruptCleanup, At
<1>2. Outcomes'
  BY <1>1 DEF LoopInv, Outcomes
<1>3. CASE phase[l] = "close"
  <2>1. phase' = [phase EXCEPT ![l] = "unset"] /\ calls' = calls
    BY <1>3 DEF InterruptCleanup, Goto
  <2>2. phase'[l] = "unset" /\ \A m \in Loops \ {l} : phase'[m] = phase[m]
    BY <2>1 DEF LoopInv, LoopOK
  <2>3. LoopOK'
    BY <1>1, <2>1 DEF LoopInv, LoopOK
  <2>4. CallsNest' /\ OneRuns' /\ Currents'
    BY <1>1, <1>3, <2>1, GoesOn
  <2>5. Phases'
    BY <1>1, <1>3, <2>2 DEF LoopInv, Phases
  <2> QED
    BY <1>2, <2>3, <2>4, <2>5 DEF LoopInv
<1>4. CASE phase[l] = "unset"
  <2>1. /\ phase' = [phase EXCEPT ![l] = "over"]
        /\ calls' = [calls EXCEPT ![MainThread] = Front(@)]
        /\ At(MainThread, l, "unset")
    BY <1>4 DEF InterruptCleanup, Goto, At
  <2>2. phase'[l] = "over" /\ \A m \in Loops \ {l} : phase'[m] = phase[m]
    BY <2>1 DEF LoopInv, LoopOK
  <2>3. CallsNest' /\ OneRuns' /\ Currents' /\ calls' \in [Threads -> Seq(Loops)]
    BY <1>1, <2>1, IsOver
  <2>4. LoopOK'
    BY <1>1, <2>1, <2>3 DEF LoopInv, LoopOK
  <2>5. Phases'
    BY <1>1, <1>4, <2>2 DEF LoopInv, Phases
  <2> QED
    BY <1>2, <2>3, <2>4, <2>5 DEF LoopInv
<1> QED
  BY <1>1, <1>3, <1>4

-----------------------------------------------------------------------------
(* The invariant holds throughout.                                         *)

\* A step of a call, of its loop or of the pool; and an exception that ends one.
Moves(t) ==
  \/ NewLoop(t)
  \/ \E l \in Loops :
       \/ Call(t, l) \/ Stop(t, l) \/ Spawn(t, l)
       \/ \E j \in Jobs : Step(t, l, j) \/ Sleep(t, l, j) \/ Yield(t, l, j)
                          \/ Wake(t, l, j) \/ Ends(t, l, j)
       \/ PostOutcome(l) \/ \E j \in Jobs : Expire(l, j)
Strikes(l) == \/ InterruptLoop(l) \/ InterruptSetup(l) \/ InterruptCleanup(l)
              \/ \E t \in Threads : Exit(t, l)

LEMMA NextIs == Next <=> (\E t \in Threads : Moves(t)) \/ (\E l \in Loops : Strikes(l))
  BY RunAssumption DEF Next, Moves, Strikes

LEMMA MovesKeep ==
  ASSUME LoopInv, NEW t \in Threads, Moves(t)
  PROVE  LoopInv'
<1>1. CASE NewLoop(t)
  BY <1>1, NewLoopKeeps
<1>2. ASSUME NEW l \in Loops, Call(t, l) \/ Stop(t, l) PROVE LoopInv'
  BY <1>2, SetLoopKeeps, StartKeeps, CloseKeeps, UnsetKeeps, StopKeeps DEF Call
<1>3. ASSUME NEW l \in Loops, Spawn(t, l) PROVE LoopInv'
  BY <1>3, TaskLoop DEF Jobs
<1>4. ASSUME NEW l \in Loops, NEW j \in Jobs,
             \/ Step(t, l, j) \/ Sleep(t, l, j) \/ Yield(t, l, j)
             \/ Wake(t, l, j) \/ Ends(t, l, j)
      PROVE  LoopInv'
  BY <1>4, TaskLoop DEF Ends
<1>5. ASSUME NEW l \in Loops, PostOutcome(l) \/ \E j \in Jobs : Expire(l, j)
      PROVE  LoopInv'
  BY <1>5, PoolLoop
<1> QED
  BY <1>1, <1>2, <1>3, <1>4, <1>5 DEF Moves

LEMMA StrikesKeep ==
  ASSUME LoopInv, NEW l \in Loops, Strikes(l)
  PROVE  LoopInv'
  BY LeavesLoopKeeps, InterruptSetupKeeps, InterruptCleanupKeeps, RunAssumption
  DEF Strikes, InterruptLoop, Exit

LEMMA InitIInv == Init => IInv
<1> SUFFICES ASSUME Init PROVE IInv
  OBVIOUS
<1>1. /\ calls = [t \in Threads |-> <<>>] /\ runs = [t \in Threads |-> None]
      /\ \A t \in Threads : Len(calls[t]) = 0 /\ runs[t] = None
  BY DEF Init
<1>2. LoopOK
  <2>1. calls \in [Threads -> Seq(Loops)]
    BY <1>1
  <2> QED
    BY <2>1, RunAssumption DEF Init, LoopOK
<1>3. \A t \in Threads, l \in Loops : ~In(t, l)
  BY <1>1 DEF In
<1>4. CallsNest
  BY <1>1, <1>3 DEF CallsNest
<1>5. OneRuns
  BY <1>1, RunAssumption DEF Init, OneRuns, Loops
<1>6. Currents /\ Phases /\ Outcomes
  BY RunAssumption DEF Init, Currents, Phases, Outcomes, Jobs, Loops
<1>7. interrupts \in 0..MaxInterrupts
  BY RunAssumption DEF Init
<1> QED
  BY <1>2, <1>4, <1>5, <1>6, <1>7 DEF IInv, LoopInv

LEMMA NextIInv == IInv /\ [Next]_vars => IInv'
<1> SUFFICES ASSUME IInv, [Next]_vars PROVE IInv'
  OBVIOUS
<1>1. ASSUME NEW t \in Threads, Moves(t) PROVE IInv'
  <2>1. interrupts' = interrupts
    BY <1>1 DEF Moves, NewLoop, Call, SetLoop, Start, Close, Unset, Stop, Spawn, Step,
       Sleep, Yield, Wake, Ends, End, PostOutcome, Expire
  <2> QED
    BY <1>1, <2>1, MovesKeep DEF IInv
<1>2. ASSUME NEW l \in Loops, Strikes(l) PROVE IInv'
  <2>1. interrupts' \in 0..MaxInterrupts
    BY <1>2, RunAssumption
    DEF IInv, Strikes, InterruptLoop, InterruptSetup, InterruptCleanup, Exit
  <2> QED
    BY <1>2, <2>1, StrikesKeep DEF IInv
<1>3. CASE UNCHANGED vars
  <2>1. UNCHANGED <<calls, phase, current, runs, closed, made, task, timer, hop, outcome,
                    sleeps, interrupts, cut>>
    BY <1>3 DEF vars
  <2>2. CallsNest' /\ OneRuns' /\ Currents'
    BY <2>1, InsideStays DEF IInv
  <2> QED
    BY <2>1, <2>2 DEF IInv, LoopInv, LoopOK, Phases, Outcomes
<1> QED
  BY <1>1, <1>2, <1>3, NextIs

LEMMA AlwaysIInv == Spec => []IInv
  BY InitIInv, NextIInv, PTL DEF Spec

-----------------------------------------------------------------------------
(* The theorems.                                                           *)

(* What run_coroutine and its loop keep has its type, however calls nest   *)
(* and SIGINTs strike.                                                     *)
THEOREM TypeCorrect == Spec => []TypeOK
<1>1. IInv => TypeOK
  BY DEF IInv, LoopInv, LoopOK, TypeOK
<1> QED
  BY <1>1, AlwaysIInv, PTL

(* run() answers with the outcome of its own coroutine, and never before   *)
(* that is over; a nested run() is refused and runs none of its coroutine. *)
THEOREM AnswersOwn == Spec => []OwnOutcome
<1>1. IInv => OwnOutcome
  BY DEF IInv, LoopInv, LoopOK, Outcomes, Phases, OneRuns, OwnOutcome
<1> QED
  BY <1>1, AlwaysIInv, PTL

LEMMA LoopInvUndoes == LoopInv => LoopsUndone
<1> SUFFICES ASSUME LoopInv PROVE LoopsUndone
  OBVIOUS
<1>1. \A l \in Loops : phase[l] = "over" => l \in closed \cup cut
  BY DEF LoopInv, Phases
<1>2. ASSUME NEW t \in Threads, calls[t] = <<>>
      PROVE  runs[t] = None /\ current[t] \in cut \cup {None}
  <2>1. \A l \in Loops : ~In(t, l)
    BY <1>2 DEF In
  <2> QED
    BY <2>1 DEF LoopInv, LoopOK, OneRuns, Currents
<1> QED
  BY <1>1, <1>2 DEF LoopsUndone

(* However its calls have ended, a thread that is in none of them runs no  *)
(* loop and has none set, and each call has closed its own, but for what a *)
(* SIGINT in the setup or clean-up of a call has cut off of that very call.*)
THEOREM UndoesAll == Spec => []LoopsUndone
  BY LoopInvUndoes, AlwaysIInv, PTL DEF IInv

\* What a step may do to a loop that is closed.
Rests(l) == task'[l] = task[l] /\ outcome'[l] = outcome[l]
            /\ \A t \in Threads : runs'[t] # l

LEMMA OthersMove ==
  ASSUME LoopInv, NEW l \in closed, NEW t \in Threads, Moves(t)
  PROVE  Rests(l)
<1>0. /\ task \in [Loops -> [Jobs -> {"none", "ready", "active", "asleep", "ok", "err"}]]
      /\ outcome \in [Loops -> {"none", "ok", "err", "refused", "interrupted"}]
      /\ runs \in [Threads -> Loops \cup {None}] /\ None \notin Loops
  BY RunAssumption DEF LoopInv, LoopOK, Loops
<1>1. /\ l \in Loops /\ phase[l] \in {"unset", "over"}
      /\ \A u \in Threads : runs[u] # l
  BY DEF LoopInv, LoopOK, Phases, OneRuns
<1>2. CASE UNCHANGED <<task, outcome, runs>>
  BY <1>1, <1>2 DEF Rests
<1>3. ASSUME NEW m \in Loops, phase[m] = "drive", NEW j \in Jobs, NEW s,
             task' = [task EXCEPT ![m][j] = s], UNCHANGED <<outcome, runs>>
      PROVE  Rests(l)
  BY <1>0, <1>1, <1>3 DEF Rests
<1>4. ASSUME NEW m \in Loops, NEW j \in Jobs,
             \/ Step(t, m, j) \/ Sleep(t, m, j) \/ Yield(t, m, j)
             \/ Wake(t, m, j) \/ Ends(t, m, j)
      PROVE  Rests(l)
  BY <1>3, <1>4 DEF Step, Sleep, Yield, Wake, Ends, End, Become, Drives, At
<1>5. ASSUME NEW m \in Loops, Spawn(t, m) PROVE Rests(l)
  BY <1>3, <1>5 DEF Spawn, Become, Drives, At, Jobs
<1>6. ASSUME NEW m \in Loops, Start(t, m) PROVE Rests(l)
  <2>1. /\ phase[m] = "start" /\ task' = [task EXCEPT ![m]["main"] = "ready"]
        /\ \/ runs' = [runs EXCEPT ![t] = m] /\ outcome' = outcome
           \/ runs' = runs /\ outcome' = [outcome EXCEPT ![m] = "refused"]
    BY <1>6 DEF Start, At, Become
  <2>2. task'[l] = task[l]
    BY <1>0, <1>1, <2>1
  <2>3. outcome'[l] = outcome[l]
    BY <1>0, <1>1, <2>1
  <2>4. \A u \in Threads : runs'[u] # l
    BY <1>0, <1>1, <2>1
  <2> QED
    BY <2>2, <2>3, <2>4 DEF Rests
<1>7. ASSUME NEW m \in Loops, Stop(t, m) PROVE Rests(l)
  <2>1. /\ phase[m] = "drive" /\ task' = task /\ runs' = [runs EXCEPT ![t] = None]
        /\ outcome' = [outcome EXCEPT ![m] = task[m]["main"]]
    BY <1>7 DEF Stop, Drives, At
  <2> QED
    BY <1>0, <1>1, <2>1 DEF Rests
<1>8. ASSUME NEW m \in Loops,
             \/ SetLoop(t, m) \/ Close(t, m) \/ Unset(t, m) \/ PostOutcome(m)
             \/ \E j \in Jobs : Expire(m, j)
      PROVE  Rests(l)
  BY <1>2, <1>8 DEF SetLoop, Close, Unset, PostOutcome, Expire
<1>9. CASE NewLoop(t)
  BY <1>2, <1>9 DEF NewLoop
<1> QED
  BY <1>4, <1>5, <1>6, <1>7, <1>8, <1>9 DEF Moves, Call

LEMMA OthersStruck ==
  ASSUME LoopInv, NEW l \in closed, NEW m \in Loops, Strikes(m)
  PROVE  Rests(l)
<1>0. /\ task \in [Loops -> [Jobs -> {"none", "ready", "active", "asleep", "ok", "err"}]]
      /\ outcome \in [Loops -> {"none", "ok", "err", "refused", "interrupted"}]
      /\ runs \in [Threads -> Loops \cup {None}] /\ None \notin Loops
  BY RunAssumption DEF LoopInv, LoopOK, Loops
<1>1. /\ l \in Loops /\ phase[l] \in {"unset", "over"}
      /\ \A u \in Threads : runs[u] # l
  BY DEF LoopInv, LoopOK, Phases, OneRuns
<1>2. ASSUME NEW t \in Threads, LeavesLoop(t, m) PROVE Rests(l)
  <2>1. /\ phase[m] = "drive" /\ runs' = [runs EXCEPT ![t] = None]
        /\ outcome' = [outcome EXCEPT ![m] = "interrupted"]
    BY <1>2 DEF LeavesLoop, Drives, At
  <2>2. task'[l] = task[l]
    BY <1>0, <1>1, <1>2, <2>1 DEF LeavesLoop
  <2> QED
    BY <1>0, <1>1, <2>1, <2>2 DEF Rests
<1>3. CASE InterruptSetup(m)
  <2>1. /\ phase[m] \in {"set", "start"} /\ UNCHANGED <<runs, task>>
        /\ outcome' = [outcome EXCEPT ![m] = "interrupted"]
    BY <1>3 DEF InterruptSetup, At
  <2> QED
    BY <1>0, <1>1, <2>1 DEF Rests
<1>4. CASE InterruptCleanup(m)
  BY <1>1, <1>4 DEF InterruptCleanup, Rests
<1> QED
  BY <1>2, <1>3, <1>4, RunAssumption DEF Strikes, InterruptLoop, Exit

(* Nothing moves on a closed loop: a timer or an outcome that the pool     *)
(* posts late wakes no task, of this call or of another, and changes no    *)
(* answer that run() has given.                                            *)
THEOREM ClosedRest == Spec => ClosedLoopRests
<1>1. IInv /\ [Next]_vars =>
        [\A l \in closed : /\ task'[l] = task[l]
                           /\ outcome'[l] = outcome[l]
                           /\ \A t \in Threads : runs'[t] # l]_vars
  BY NextIs, OthersMove, OthersStruck DEF IInv, Rests
<1> QED
  BY <1>1, AlwaysIInv, PTL DEF Spec, ClosedLoopRests
=============================================================================
